---------------------- MODULE TransactionServiceProofs ----------------------
(***************************************************************************)
(* Proofs about TransactionService, for any number of callers and of       *)
(* overlapping checks and any prices.  The first invariant, IInv, holds    *)
(* under all faults: it says what a call that is sending knows about the   *)
(* nonce lock and what a dead letter knows about the chain.  Two more say  *)
(* what holds until certain faults have happened: NoDropInv, of which      *)
(* nonces are used (until the node forgets a transaction), and             *)
(* RecoveryInv, of what the watch list covers.                             *)
(***************************************************************************)
EXTENDS TransactionService, NaturalsLemmas, TLAPS

\* The chain: a mined transaction has a nonce that is used up.
ChainInv ==
    /\ mined \in 0 .. MaxNonce /\ ledger \subseteq Tx /\ pool \subseteq Tx
    /\ minPrice \in 1 .. TopMinimum
    /\ \A t \in ledger : t.nonce < mined

ServiceInv ==
    /\ phase \in {"gas", "nonce", "pool", "up"}
    /\ nonce \in 0 .. MaxNonce /\ gasPrice \in Levels
    /\ nonceLock \in Calls \cup {NoLock}
    /\ gasTimer \in 0 .. TopMinimum
    /\ odis \in Nonces \cup {NoNonce}
    /\ faults \in [Faults -> Nat]

\* Nothing is watched before the service is up.
WatchInv ==
    /\ DOMAIN watched \subseteq Tx /\ watched \in [DOMAIN watched -> Levels]
    /\ phase # "up" => DOMAIN watched = {}

\* A call that waits for the node holds the lock, and while it waits for the
\* answer to its transaction this.nonce is the nonce of that transaction.
CallInv(call, c) ==
    /\ call.st \in {"reply", "nonce"} => phase = "up" /\ nonceLock = c
    /\ call.st = "reply" => call.tx \in Tx /\ call.tx.nonce = nonce
    /\ call.st = "ok" => call.tx \in Tx

CallsInv == calls \in [Calls -> CallRecords] /\ \A c \in Calls : CallInv(calls[c], c)

\* A dead letter outbids a transaction below the highest level, with the
\* nonce of that transaction; a nonce reported as too low is used up.
TaskInv(k) ==
    /\ k.cached < TopLevel
    /\ k.st = "reply" => k.new \in Tx /\ k.new.nonce = k.tx.nonce
    /\ k.st = "reply" /\ k.answer = "nonce too low" => k.tx.nonce < mined

\* What a check run has filtered stays true while it awaits other things.
RunInv(run) ==
    /\ \A t \in run.completed : t.nonce < mined
    /\ \A i \in run.low \cup run.expired : i.cached < TopLevel
    /\ \A k \in run.tasks : TaskInv(k)

RunsInv == runs \in [Runs -> RunRecords] /\ \A r \in Runs : RunInv(runs[r])

\* The inductive invariant.
IInv == ChainInv /\ ServiceInv /\ WatchInv /\ CallsInv /\ RunsInv

-----------------------------------------------------------------------------
(* Operators of the model *)

\* The invariant contains the type invariant.
LEMMA IInvTypes == IInv => TypeOK
  BY DEF IInv, ChainInv, ServiceInv, WatchInv, CallsInv, RunsInv, TypeOK

\* The pending nonce of the node is the first one that is neither mined nor
\* pooled, and there is one, because MaxNonce is never pooled.
LEMMA PendingNonceIsFirst ==
    ASSUME BoundsAssumption, ChainInv
    PROVE  /\ PendingNonce \in mined .. MaxNonce
           /\ ~Pooled(PendingNonce)
           /\ \A n \in mined .. MaxNonce : n < PendingNonce => Pooled(n)
<1> DEFINE T == {n \in mined .. MaxNonce : ~Pooled(n)}
<1>0. MaxNonce \in Nat /\ mined \in Nat /\ mined =< MaxNonce
  BY DEF BoundsAssumption, ChainInv
<1>1. ~Pooled(MaxNonce)
  <2> SUFFICES ASSUME NEW t \in pool, t.nonce = MaxNonce PROVE FALSE
    BY DEF Pooled
  <2>1. t.nonce \in 0 .. (MaxNonce - 1)
    BY DEF ChainInv, Tx, Nonces
  <2> QED
    BY <1>0, <2>1
<1>2. T \subseteq Nat /\ T # {}
  BY <1>0, <1>1
<1>3. Min(T) \in T /\ \A y \in T : Min(T) =< y
  BY <1>2, MinOfNaturals
<1>4. PendingNonce = Min(T)
  BY DEF PendingNonce
<1> HIDE DEF T
<1>5. PendingNonce \in T /\ \A y \in T : PendingNonce =< y
  BY <1>3, <1>4
<1> QED
  BY <1>0, <1>5 DEF T

\* The price the service pays is a level of the scale.
LEMMA PriceIsLevel ==
    ASSUME BoundsAssumption, NEW m \in 1 .. TopMinimum
    PROVE  PriceFor(m) \in Levels
<1>1. m + MultiplierLevels \in Nat /\ MaxGasPrice \in Nat
  BY DEF BoundsAssumption
<1>2. PriceFor(m) = IF m + MultiplierLevels =< MaxGasPrice
                    THEN m + MultiplierLevels ELSE MaxGasPrice
  BY <1>1, MinOfTwo DEF PriceFor
<1> QED
  BY <1>2 DEF BoundsAssumption, Levels

\* Spending a fault leaves a budget.
LEMMA SpendType ==
    ASSUME ServiceInv, NEW f \in Faults, Spend(f)
    PROVE  faults' \in [Faults -> Nat]
<1>1. faults \in [Faults -> Nat] /\ faults[f] > 0 /\ faults' = [faults EXCEPT ![f] = faults[f] - 1]
  BY DEF ServiceInv, Spend
<1>2. faults[f] - 1 \in Nat
  BY <1>1
<1> QED
  BY <1>1, <1>2

\* updateGasPrice leaves a price that can be paid.
LEMMA UpdateGasPriceType ==
    ASSUME BoundsAssumption, ChainInv, ServiceInv, UpdateGasPrice
    PROVE  gasPrice' \in Levels /\ faults' \in [Faults -> Nat]
<1>1. "rpc" \in Faults
  BY DEF Faults
<1>2. PriceFor(minPrice) \in Levels
  BY PriceIsLevel DEF ChainInv
<1>3. CASE gasPrice' = PriceFor(minPrice) /\ UNCHANGED faults
  BY <1>2, <1>3 DEF ServiceInv
<1>4. CASE Spend("rpc") /\ UNCHANGED gasPrice
  BY <1>1, <1>4, SpendType DEF ServiceInv
<1> QED
  BY <1>3, <1>4 DEF UpdateGasPrice

\* What the node does with a transaction it receives.
LEMMA DeliverType ==
    ASSUME ChainInv, ServiceInv, NEW t \in Tx, NEW a \in Answers, Deliver(t, a)
    PROVE  /\ pool' \subseteq Tx /\ faults' \in [Faults -> Nat]
           /\ a = "nonce too low" => t.nonce < mined
<1>1. "lost" \in Faults /\ "refused" \in Faults
  BY DEF Faults
<1>2. pool' \subseteq Tx
  BY DEF Deliver, Accept, ChainInv
<1>3. faults' \in [Faults -> Nat]
  <2>1. CASE UNCHANGED faults
    BY <2>1 DEF ServiceInv
  <2>2. CASE Spend("lost") \/ Spend("refused")
    BY <1>1, <2>2, SpendType
  <2> QED
    BY <2>1, <2>2 DEF Deliver
<1>4. a = "nonce too low" => t.nonce < mined
  BY DEF Deliver, NodeAnswer
<1> QED
  BY <1>2, <1>3, <1>4

\* watchTransaction adds one transaction to the list.
LEMMA WatchInType ==
    ASSUME NEW w, DOMAIN w \subseteq Tx, w \in [DOMAIN w -> Levels],
           NEW t \in Tx, NEW p \in Levels
    PROVE  /\ DOMAIN WatchIn(w, t, p) = DOMAIN w \cup {t}
           /\ WatchIn(w, t, p) \in [DOMAIN WatchIn(w, t, p) -> Levels]
  BY DEF WatchIn

\* unwatchTransaction removes transactions from the list.
LEMMA UnwatchInType ==
    ASSUME NEW w, DOMAIN w \subseteq Tx, w \in [DOMAIN w -> Levels], NEW ts
    PROVE  /\ DOMAIN UnwatchIn(w, ts) = DOMAIN w \ ts
           /\ UnwatchIn(w, ts) \in [DOMAIN UnwatchIn(w, ts) -> Levels]
  BY DEF UnwatchIn

\* A call starts with the right type.
LEMMA FreshCall == ASSUME BoundsAssumption PROVE NewCall \in CallRecords
<1>1. 1 \in 1 .. Tries /\ 0 \in 0 .. MaxNonce
  BY DEF BoundsAssumption
<1> QED
  BY <1>1 DEF NewCall, CallRecords, CallStates, Answers

\* A retried call wants the lock again, or is over.
LEMMA RetriedCall ==
    ASSUME BoundsAssumption, NEW call \in CallRecords
    PROVE  Retried(call) \in CallRecords /\ Retried(call).st \in {"err", "lock"}
<1>1. call.try \in 1 .. Tries /\ (call.try # Tries => call.try + 1 \in 1 .. Tries)
  BY DEF CallRecords, BoundsAssumption
<1>2. NewCall \in CallRecords
  BY FreshCall
<1>3. CASE call.try = Tries
  <2>1. Retried(call) = [NewCall EXCEPT !.st = "err"]
    BY <1>3 DEF Retried
  <2> QED
    BY <1>2, <2>1 DEF CallRecords, CallStates
<1>4. CASE call.try # Tries
  <2>1. Retried(call) = [NewCall EXCEPT !.st = "lock", !.try = call.try + 1]
    BY <1>4 DEF Retried
  <2> QED
    BY <1>1, <1>2, <1>4, <2>1 DEF CallRecords, CallStates
<1> QED
  BY <1>3, <1>4

\* A check run that is not running has nothing to remember.
LEMMA IdleRun == Idle \in RunRecords /\ RunInv(Idle)
  BY DEF Idle, RunRecords, RunInv

-----------------------------------------------------------------------------
(* What a step does not touch, it keeps *)

\* A run keeps what it knows while the chain grows.
LEMMA RunsKept ==
    ASSUME BoundsAssumption, ChainInv, RunsInv, UNCHANGED runs,
           mined' \in Nat, mined =< mined'
    PROVE  RunsInv'
<1>0. mined \in Nat
  BY DEF BoundsAssumption, ChainInv
<1>1. ASSUME NEW r \in Runs PROVE RunInv(runs[r])'
  <2>1. runs[r] \in RunRecords /\ RunInv(runs[r]) /\ runs'[r] = runs[r]
    BY DEF RunsInv
  <2>2. /\ \A t \in runs[r].completed : t.nonce \in Nat
        /\ \A k \in runs[r].tasks : k.tx.nonce \in Nat
    BY <2>1 DEF BoundsAssumption, RunRecords, TaskRecords, Tx, Nonces
  <2>3. ASSUME NEW k \in runs[r].tasks, TaskInv(k) PROVE TaskInv(k)'
    <3>1. k.tx.nonce \in Nat /\ (k.tx.nonce < mined => k.tx.nonce < mined')
      BY <1>0, <2>2
    <3> QED
      BY <2>3, <3>1 DEF TaskInv
  <2> QED
    BY <1>0, <2>1, <2>2, <2>3 DEF RunInv
<1> QED
  BY <1>1 DEF RunsInv

\* One run takes a step and the chain does not.
LEMMA OneRunMoves ==
    ASSUME RunsInv, NEW r \in Runs, NEW q \in RunRecords, RunInv(q),
           runs' = [runs EXCEPT ![r] = q], UNCHANGED mined
    PROVE  RunsInv'
<1>1. ASSUME NEW s \in Runs PROVE RunInv(runs[s])'
  <2>1. RunInv(runs'[s])
    BY DEF RunsInv
  <2> QED
    BY <2>1 DEF RunInv, TaskInv
<1> QED
  BY <1>1 DEF RunsInv

LEMMA CallsKept ==
    ASSUME CallsInv, UNCHANGED <<calls, phase, nonce, nonceLock>>
    PROVE  CallsInv'
  BY DEF CallsInv, CallInv

\* One call takes a step while no other call holds the lock.
LEMMA OneCallMoves ==
    ASSUME CallsInv, LockAssumption, NEW c \in Calls, NEW q \in CallRecords,
           nonceLock \in {NoLock, c}, phase = "up", phase' = "up",
           calls' = [calls EXCEPT ![c] = q],
           CallInv(q, c)'
    PROVE  CallsInv'
<1>1. ASSUME NEW d \in Calls PROVE CallInv(calls[d], d)'
  <2>1. CASE d = c
    BY <2>1 DEF CallsInv
  <2>2. CASE d # c
    <3>1. calls'[d] = calls[d] /\ CallInv(calls[d], d) /\ nonceLock # d
      BY <2>2 DEF CallsInv, LockAssumption
    <3> QED
      BY <3>1 DEF CallInv
  <2> QED
    BY <2>1, <2>2
<1> QED
  BY <1>1 DEF CallsInv

LEMMA ChainKept == ASSUME ChainInv, UNCHANGED chainVars PROVE ChainInv'
  BY DEF ChainInv, chainVars

LEMMA WatchKept ==
    ASSUME WatchInv, UNCHANGED watched, phase' = phase \/ DOMAIN watched = {}
    PROVE  WatchInv'
  BY DEF WatchInv

\* The node receives a transaction, and the chain is otherwise unchanged.
LEMMA ChainDelivers ==
    ASSUME ChainInv, ServiceInv, NEW t \in Tx, NEW a \in Answers, Deliver(t, a),
           UNCHANGED <<mined, ledger, minPrice>>
    PROVE  ChainInv'
  BY DeliverType DEF ChainInv

\* The invariant holds when the service starts.
LEMMA InitIInv == Init => IInv
<1> SUFFICES ASSUME Init PROVE IInv
  OBVIOUS
<1> USE BoundsAssumption
<1>1. ChainInv
  BY DEF Init, ChainInv, BoundsAssumption
<1>2. ServiceInv
  BY DEF Init, ServiceInv, BoundsAssumption, Levels, NoPrice
<1>3. WatchInv
  BY DEF Init, WatchInv
<1>4. CallsInv
  <2>1. NewCall \in CallRecords /\ NewCall.st = "new"
    BY FreshCall DEF NewCall
  <2> QED
    BY <2>1 DEF Init, CallsInv, CallInv
<1>5. RunsInv
  BY IdleRun DEF Init, RunsInv
<1> QED
  BY <1>1, <1>2, <1>3, <1>4, <1>5 DEF IInv

-----------------------------------------------------------------------------
(* The steps *)

\* The chain grows, forgets a transaction or changes its gas price minimum.
LEMMA NodeKeeps == ASSUME IInv, Node PROVE IInv'
<1> USE BoundsAssumption
<1>0. ChainInv /\ ServiceInv /\ WatchInv /\ CallsInv /\ RunsInv
  BY DEF IInv
<1>1. mined \in Nat /\ MaxNonce \in Nat
  BY <1>0 DEF BoundsAssumption, ChainInv
<1>2. UNCHANGED <<serviceVars, calls, runs, odis>>
  BY DEF Node, Mine, Drop, MinimumChanges
<1>3. WatchInv' /\ CallsInv'
  BY <1>0, <1>2, WatchKept, CallsKept DEF serviceVars
<1>4. CASE Mine
  <2>1. PICK t \in pool : /\ t.nonce = mined /\ pool' = pool \ {t}
                          /\ ledger' = ledger \cup {t}
    BY <1>4 DEF Mine
  <2>2. mined' = mined + 1 /\ UNCHANGED <<minPrice, faults>>
    BY <1>4 DEF Mine
  <2>3. mined =< MaxNonce - 1 /\ t \in Tx
    BY <1>0, <1>1, <2>1 DEF ChainInv, Tx, Nonces
  <2>4. \A u \in ledger : u.nonce \in Nat
    BY <1>0, <1>1 DEF ChainInv, Tx, Nonces
  <2>5. \A u \in ledger' : u.nonce < mined'
    BY <1>0, <1>1, <2>1, <2>2, <2>4 DEF ChainInv
  <2>6. ChainInv'
    BY <1>0, <1>1, <2>1, <2>2, <2>3, <2>5 DEF ChainInv
  <2>7. ServiceInv'
    BY <1>0, <1>2, <2>2 DEF ServiceInv, serviceVars
  <2>8. RunsInv'
    BY <1>0, <1>1, <1>2, <2>2, RunsKept
  <2> QED
    BY <1>3, <2>6, <2>7, <2>8 DEF IInv
<1>5. CASE Drop
  <2>1. UNCHANGED <<mined, ledger, minPrice>> /\ pool' \subseteq pool
    BY <1>5 DEF Drop
  <2>2. faults' \in [Faults -> Nat]
    BY <1>0, <1>5, SpendType DEF Drop, Faults
  <2>3. ChainInv' /\ ServiceInv'
    BY <1>0, <1>2, <2>1, <2>2 DEF ChainInv, ServiceInv, serviceVars
  <2>4. RunsInv'
    BY <1>0, <1>1, <1>2, <2>1, RunsKept
  <2> QED
    BY <1>3, <2>3, <2>4 DEF IInv
<1>6. CASE MinimumChanges
  <2>1. UNCHANGED <<mined, ledger, pool, faults>> /\ minPrice' \in 1 .. TopMinimum
    BY <1>6 DEF MinimumChanges
  <2>2. ChainInv' /\ ServiceInv'
    BY <1>0, <1>2, <2>1 DEF ChainInv, ServiceInv, serviceVars
  <2>3. RunsInv'
    BY <1>0, <1>1, <1>2, <2>1, RunsKept
  <2> QED
    BY <1>3, <2>2, <2>3 DEF IInv
<1> QED
  BY <1>4, <1>5, <1>6 DEF Node

\* The service starts: gas price, nonce, pending transactions.
LEMMA StartKeeps == ASSUME IInv, Start PROVE IInv'
<1> USE BoundsAssumption
<1>0. ChainInv /\ ServiceInv /\ WatchInv /\ CallsInv /\ RunsInv
  BY DEF IInv
<1>1. mined \in Nat /\ MaxNonce \in Nat
  BY <1>0 DEF BoundsAssumption, ChainInv
<1>2. UNCHANGED <<chainVars, nonceLock, gasTimer, calls, runs, odis>> /\ phase # "up"
  BY DEF Start, StartGas, StartNonce, StartPool
<1>3. ChainInv' /\ RunsInv'
  BY <1>0, <1>1, <1>2, ChainKept, RunsKept DEF chainVars
<1>4. CallsInv'
  BY <1>0, <1>2 DEF CallsInv, CallInv
<1>5. CASE StartGas
  <2>1. gasPrice' \in Levels /\ faults' \in [Faults -> Nat]
    BY <1>0, <1>5, UpdateGasPriceType DEF StartGas
  <2>2. phase' = "nonce" /\ UNCHANGED <<nonce, watched>>
    BY <1>5 DEF StartGas
  <2>3. ServiceInv' /\ WatchInv'
    BY <1>0, <1>2, <2>1, <2>2 DEF ServiceInv, WatchInv
  <2> QED
    BY <1>3, <1>4, <2>3 DEF IInv
<1>6. CASE StartNonce
  <2>1. PendingNonce \in 0 .. MaxNonce
    BY <1>0, <1>1, PendingNonceIsFirst
  <2>2. phase' = "pool" /\ nonce' = PendingNonce /\ UNCHANGED <<gasPrice, watched, faults>>
    BY <1>6 DEF StartNonce
  <2>3. ServiceInv' /\ WatchInv'
    BY <1>0, <1>2, <2>1, <2>2 DEF ServiceInv, WatchInv
  <2> QED
    BY <1>3, <1>4, <2>3 DEF IInv
<1>7. CASE StartPool
  <2>1. phase' = "up" /\ UNCHANGED <<nonce, gasPrice>>
    BY <1>7 DEF StartPool
  <2>2. faults' \in [Faults -> Nat]
    BY <1>0, <1>7, SpendType DEF StartPool, Faults, ServiceInv
  <2>3. WatchInv'
    <3>1. CASE watched' = [t \in {} |-> NoPrice]
      BY <2>1, <3>1 DEF WatchInv
    <3>2. CASE watched' = [t \in {p \in pool : p.nonce < PendingNonce} |-> t.price]
      <4>1. {p \in pool : p.nonce < PendingNonce} \subseteq Tx
        BY <1>0 DEF ChainInv
      <4>2. \A t \in Tx : t.price \in Levels
        BY DEF Tx
      <4> QED
        BY <2>1, <3>2, <4>1, <4>2 DEF WatchInv
    <3> QED
      BY <1>7, <3>1, <3>2 DEF StartPool
  <2>4. ServiceInv'
    BY <1>0, <1>2, <2>1, <2>2 DEF ServiceInv
  <2> QED
    BY <1>3, <1>4, <2>3, <2>4 DEF IInv
<1> QED
  BY <1>5, <1>6, <1>7 DEF Start

\* The process is restarted at any moment.
LEMMA RestartKeeps == ASSUME IInv, Restart PROVE IInv'
<1> USE BoundsAssumption
<1>0. ChainInv /\ ServiceInv /\ WatchInv /\ CallsInv /\ RunsInv
  BY DEF IInv
<1>1. ChainInv'
  BY <1>0, ChainKept DEF Restart
<1>2. faults' \in [Faults -> Nat]
  BY <1>0, SpendType DEF Restart, Faults
<1>3. ServiceInv' /\ WatchInv'
  BY <1>2 DEF Restart, ServiceInv, WatchInv, BoundsAssumption, Levels, NoPrice
<1>4. CallsInv'
  <2>1. NewCall \in CallRecords /\ "gone" \in CallStates
    BY FreshCall DEF CallStates
  <2>2. ASSUME NEW c \in Calls PROVE calls'[c] \in CallRecords /\ CallInv(calls[c], c)'
    <3>1. CASE calls[c].st \in InProgress
      <4>1. calls'[c] = [NewCall EXCEPT !.st = "gone"]
        BY <3>1 DEF Restart
      <4> QED
        BY <2>1, <4>1 DEF CallInv, CallRecords
    <3>2. CASE calls[c].st \notin InProgress
      <4>1. calls'[c] = calls[c] /\ calls[c] \in CallRecords /\ CallInv(calls[c], c)
        BY <1>0, <3>2 DEF Restart, CallsInv
      <4> QED
        BY <3>2, <4>1 DEF CallInv, InProgress
    <3> QED
      BY <3>1, <3>2
  <2>3. calls' = [c \in Calls |-> calls'[c]]
    BY DEF Restart
  <2> QED
    BY <2>2, <2>3 DEF CallsInv
<1>5. RunsInv'
  BY IdleRun DEF Restart, RunsInv, RunInv, Idle
<1> QED
  BY <1>1, <1>3, <1>4, <1>5 DEF IInv

\* The gas price timer and the transfers of the ODIS service.
LEMMA OthersKeep ==
    ASSUME IInv, GasTimerReads \/ GasTimerApplies \/ ReplenishReads \/ ReplenishSends
    PROVE  IInv'
<1> USE BoundsAssumption
<1>0. ChainInv /\ ServiceInv /\ WatchInv /\ CallsInv /\ RunsInv
  BY DEF IInv
<1>1. mined \in Nat /\ MaxNonce \in Nat
  BY <1>0 DEF BoundsAssumption, ChainInv
<1>2. UNCHANGED <<mined, ledger, minPrice, phase, nonce, nonceLock, watched, calls, runs>>
  BY DEF GasTimerReads, GasTimerApplies, ReplenishReads, ReplenishSends, chainVars, serviceVars
<1>3. CallsInv' /\ WatchInv' /\ RunsInv'
  BY <1>0, <1>1, <1>2, CallsKept, WatchKept, RunsKept
<1>4. CASE GasTimerReads
  <2>1. ChainInv'
    BY <1>0, <1>4, ChainKept DEF GasTimerReads
  <2>2. ServiceInv'
    BY <1>0, <1>4 DEF GasTimerReads, ServiceInv, ChainInv, BoundsAssumption
  <2> QED
    BY <1>3, <2>1, <2>2 DEF IInv
<1>5. CASE GasTimerApplies
  <2>1. ChainInv'
    BY <1>0, <1>5, ChainKept DEF GasTimerApplies
  <2>2. gasTimer \in 1 .. TopMinimum
    BY <1>0, <1>5 DEF GasTimerApplies, ServiceInv, NoPrice, BoundsAssumption
  <2>3. gasPrice' \in Levels
    BY <1>0, <1>5, <2>2, PriceIsLevel DEF GasTimerApplies, ServiceInv
  <2>4. faults' \in [Faults -> Nat]
    BY <1>0, <1>5, SpendType DEF GasTimerApplies, Faults, ServiceInv
  <2>5. gasTimer' = NoPrice /\ UNCHANGED odis
    BY <1>5 DEF GasTimerApplies
  <2>6. ServiceInv'
    BY <1>0, <1>2, <2>3, <2>4, <2>5 DEF ServiceInv, NoPrice, BoundsAssumption
  <2> QED
    BY <1>3, <2>1, <2>6 DEF IInv
<1>6. CASE ReplenishReads
  <2>1. ChainInv'
    BY <1>0, <1>6, ChainKept DEF ReplenishReads
  <2>2. faults' \in [Faults -> Nat]
    BY <1>0, <1>6, SpendType DEF ReplenishReads, Faults
  <2>3. PendingNonce \in Nonces
    BY <1>0, <1>1, <1>6, PendingNonceIsFirst DEF ReplenishReads, Nonces
  <2>4. odis' = PendingNonce /\ UNCHANGED <<gasPrice, gasTimer>>
    BY <1>6 DEF ReplenishReads, serviceVars
  <2>5. ServiceInv'
    BY <1>0, <1>2, <2>2, <2>3, <2>4 DEF ServiceInv
  <2> QED
    BY <1>3, <2>1, <2>5 DEF IInv
<1>7. CASE ReplenishSends
  <2> DEFINE t == [nonce |-> odis, price |-> minPrice, from |-> Odis]
  <2>1. t \in Tx
    BY <1>0, <1>7 DEF ReplenishSends, ServiceInv, ChainInv, Tx, Levels, BoundsAssumption
  <2>2. PICK a \in Answers : Deliver(t, a)
    BY <1>7 DEF ReplenishSends
  <2> HIDE DEF t
  <2>3. ChainInv' /\ faults' \in [Faults -> Nat]
    BY <1>0, <1>2, <2>1, <2>2, ChainDelivers, DeliverType
  <2>4. odis' = NoNonce /\ UNCHANGED <<gasPrice, gasTimer>>
    BY <1>7 DEF ReplenishSends, serviceVars
  <2>5. ServiceInv'
    BY <1>0, <1>2, <2>3, <2>4 DEF ServiceInv
  <2> QED
    BY <1>3, <2>3, <2>5 DEF IInv
<1> QED
  BY <1>4, <1>5, <1>6, <1>7

\* A submitTransaction call takes a step.
LEMMA CallKeeps == ASSUME IInv, NEW c \in Calls, Call(c) PROVE IInv'
<1> USE BoundsAssumption
<1>0. ChainInv /\ ServiceInv /\ WatchInv /\ CallsInv /\ RunsInv
  BY DEF IInv
<1>1. mined \in Nat /\ MaxNonce \in Nat /\ nonce \in Nat
  BY <1>0 DEF BoundsAssumption, ChainInv, ServiceInv
<1> PICK call : call = calls[c]
  OBVIOUS
<1>2. call \in CallRecords /\ CallInv(call, c)
  BY <1>0 DEF CallsInv
<1>3. CASE Submit(c)
  <2>1. UNCHANGED <<chainVars, serviceVars, runs, odis, faults>>
    BY <1>3 DEF Submit
  <2>2. calls' = [calls EXCEPT ![c] = [call EXCEPT !.st = "lock"]]
    BY <1>0, <1>3 DEF Submit, CallsInv
  <2>3. CallsInv'
    <3>1. [call EXCEPT !.st = "lock"] \in CallRecords
      BY <1>2 DEF CallRecords, CallStates
    <3>2. ASSUME NEW d \in Calls PROVE CallInv(calls[d], d)'
      BY <1>0, <1>2, <2>1, <2>2, <3>1 DEF CallsInv, CallInv, serviceVars, CallRecords
    <3> QED
      BY <1>0, <2>2, <3>1, <3>2 DEF CallsInv
  <2>4. ChainInv' /\ WatchInv' /\ RunsInv'
    BY <1>0, <1>1, <2>1, ChainKept, WatchKept, RunsKept DEF chainVars, serviceVars
  <2>5. ServiceInv'
    BY <1>0, <2>1 DEF ServiceInv, serviceVars
  <2> QED
    BY <2>3, <2>4, <2>5 DEF IInv
<1>4. CASE SubmitSends(c)
  <2> PICK t : t = [nonce |-> nonce, price |-> gasPrice, from |-> c]
    OBVIOUS
  <2>1. PICK a \in Answers :
            /\ Deliver(t, a)
            /\ calls' = [calls EXCEPT ![c] =
                            [call EXCEPT !.st = "reply", !.tx = t, !.answer = a]]
    BY <1>4 DEF SubmitSends
  <2>2. /\ nonceLock = NoLock /\ nonceLock' = c /\ phase = "up" /\ nonce < MaxNonce
        /\ UNCHANGED <<mined, ledger, minPrice, phase, nonce, gasPrice, watched, gasTimer,
                       runs, odis>>
    BY <1>4 DEF SubmitSends
  <2>3. t \in Tx /\ t.nonce = nonce
    BY <1>0, <1>1, <2>2 DEF ServiceInv, Tx, Nonces
  <2>4. ChainInv' /\ faults' \in [Faults -> Nat]
    BY <1>0, <2>1, <2>2, <2>3, ChainDelivers, DeliverType
  <2> PICK q : q = [call EXCEPT !.st = "reply", !.tx = t, !.answer = a]
    OBVIOUS
  <2>5. q \in CallRecords /\ q.st = "reply" /\ q.tx = t
    BY <1>2, <2>3 DEF CallRecords, CallStates
  <2>6. CallInv(q, c)'
    BY <2>2, <2>3, <2>5 DEF CallInv
  <2>7. CallsInv'
    BY <1>0, <2>1, <2>2, <2>5, <2>6, LockAssumption, OneCallMoves
  <2>8. WatchInv' /\ RunsInv'
    BY <1>0, <1>1, <2>2, WatchKept, RunsKept
  <2>9. ServiceInv'
    BY <1>0, <2>2, <2>4 DEF ServiceInv
  <2> QED
    BY <2>4, <2>7, <2>8, <2>9 DEF IInv
<1>5. CASE SubmitAccepted(c)
  <2> PICK q : q = [NewCall EXCEPT !.st = "ok", !.tx = call.tx]
    OBVIOUS
  <2>1. /\ phase = "up" /\ call.st = "reply" /\ nonce' = nonce + 1 /\ nonceLock' = NoLock
        /\ watched' = WatchIn(watched, call.tx, gasPrice)
        /\ calls' = [calls EXCEPT ![c] = q]
        /\ UNCHANGED <<chainVars, phase, gasPrice, gasTimer, runs, odis, faults>>
    BY <1>5 DEF SubmitAccepted
  <2>2. nonceLock = c /\ call.tx \in Tx /\ call.tx.nonce = nonce
    BY <1>2, <2>1 DEF CallInv
  <2>3. nonce + 1 \in 0 .. MaxNonce
    BY <1>1, <2>2 DEF Tx, Nonces
  <2>4. q \in CallRecords /\ q.st = "ok" /\ q.tx = call.tx
    BY <2>2, FreshCall DEF CallRecords, CallStates
  <2>5. CallInv(q, c)'
    BY <2>2, <2>4 DEF CallInv
  <2>6. CallsInv'
    BY <1>0, <2>1, <2>2, <2>4, <2>5, LockAssumption, OneCallMoves
  <2>7. WatchInv'
    <3>1. DOMAIN watched \subseteq Tx /\ watched \in [DOMAIN watched -> Levels] /\ gasPrice \in Levels
      BY <1>0 DEF WatchInv, ServiceInv
    <3>2. /\ DOMAIN watched' = DOMAIN watched \cup {call.tx}
          /\ watched' \in [DOMAIN watched' -> Levels]
      BY <2>1, <2>2, <3>1, WatchInType
    <3> QED
      BY <2>1, <2>2, <3>1, <3>2 DEF WatchInv
  <2>8. ChainInv' /\ RunsInv'
    BY <1>0, <1>1, <2>1, ChainKept, RunsKept DEF chainVars
  <2>9. ServiceInv'
    BY <1>0, <2>1, <2>3 DEF ServiceInv
  <2> QED
    BY <2>6, <2>7, <2>8, <2>9 DEF IInv
<1>6. CASE SubmitFailed(c)
  <2> PICK q : calls' = [calls EXCEPT ![c] = q] /\ q \in CallRecords
                    /\ q.st \in {"err", "lock", "resync"}
    <3>1. Retried(call) \in CallRecords /\ Retried(call).st \in {"err", "lock"}
      BY <1>2, RetriedCall
    <3> DEFINE p == [NewCall EXCEPT !.st = "resync", !.try = call.try]
    <3>2. p \in CallRecords /\ p.st = "resync"
      BY <1>2, FreshCall DEF CallRecords, CallStates
    <3>3. \/ calls' = [calls EXCEPT ![c] = Retried(call)]
          \/ calls' = [calls EXCEPT ![c] = p]
      BY <1>6 DEF SubmitFailed
    <3> HIDE DEF p
    <3> QED
      BY <3>1, <3>2, <3>3
  <2>1. /\ phase = "up" /\ call.st = "reply" /\ nonceLock' = NoLock
        /\ UNCHANGED <<chainVars, phase, nonce, watched, gasTimer, runs, odis>>
    BY <1>6 DEF SubmitFailed
  <2>2. gasPrice' \in Levels /\ faults' \in [Faults -> Nat]
    <3>1. UpdateGasPrice \/ UNCHANGED <<gasPrice, faults>>
      BY <1>6 DEF SubmitFailed
    <3> QED
      BY <1>0, <3>1, UpdateGasPriceType DEF ServiceInv
  <2>3. nonceLock = c
    BY <1>2, <2>1 DEF CallInv
  <2>4. CallInv(q, c)'
    BY DEF CallInv
  <2>5. CallsInv'
    BY <1>0, <2>1, <2>3, <2>4, LockAssumption, OneCallMoves
  <2>6. ChainInv' /\ WatchInv' /\ RunsInv'
    BY <1>0, <1>1, <2>1, ChainKept, WatchKept, RunsKept DEF chainVars
  <2>7. ServiceInv'
    BY <1>0, <2>1, <2>2 DEF ServiceInv
  <2> QED
    BY <2>5, <2>6, <2>7 DEF IInv
<1>7. CASE ResyncReads(c)
  <2> PICK q : q = [call EXCEPT !.st = "nonce", !.count = PendingNonce]
    OBVIOUS
  <2>1. /\ phase = "up" /\ nonceLock = NoLock /\ nonceLock' = c
        /\ calls' = [calls EXCEPT ![c] = q]
        /\ UNCHANGED <<chainVars, phase, nonce, gasPrice, watched, gasTimer, runs, odis, faults>>
    BY <1>7 DEF ResyncReads
  <2>2. PendingNonce \in 0 .. MaxNonce
    BY <1>0, <1>1, PendingNonceIsFirst
  <2>3. q \in CallRecords /\ q.st = "nonce"
    BY <1>2, <2>2 DEF CallRecords, CallStates
  <2>4. CallInv(q, c)'
    BY <2>1, <2>3 DEF CallInv
  <2>5. CallsInv'
    BY <1>0, <2>1, <2>3, <2>4, LockAssumption, OneCallMoves
  <2>6. ChainInv' /\ WatchInv' /\ RunsInv'
    BY <1>0, <1>1, <2>1, ChainKept, WatchKept, RunsKept DEF chainVars
  <2>7. ServiceInv'
    BY <1>0, <2>1 DEF ServiceInv
  <2> QED
    BY <2>5, <2>6, <2>7 DEF IInv
<1>8. CASE ResyncApplies(c) \/ ResyncFails(c)
  <2> PICK q : calls' = [calls EXCEPT ![c] = q] /\ q \in CallRecords
                    /\ q.st \in {"err", "lock"}
    <3>1. Retried(call) \in CallRecords /\ Retried(call).st \in {"err", "lock"}
      BY <1>2, RetriedCall
    <3> DEFINE p == [NewCall EXCEPT !.st = "err"]
    <3>2. p \in CallRecords /\ p.st = "err"
      BY FreshCall DEF CallRecords, CallStates
    <3>3. \/ calls' = [calls EXCEPT ![c] = Retried(call)]
          \/ calls' = [calls EXCEPT ![c] = p]
      BY <1>8 DEF ResyncApplies, ResyncFails
    <3> HIDE DEF p
    <3> QED
      BY <3>1, <3>2, <3>3
  <2>1. /\ phase = "up" /\ call.st = "nonce" /\ nonceLock' = NoLock
        /\ nonce' = nonce \/ nonce' = call.count
        /\ UNCHANGED <<chainVars, phase, gasPrice, watched, gasTimer, runs, odis>>
    BY <1>8 DEF ResyncApplies, ResyncFails
  <2>2. faults' \in [Faults -> Nat]
    BY <1>0, <1>8, SpendType DEF ResyncApplies, ResyncFails, Faults, ServiceInv
  <2>3. nonceLock = c /\ call.count \in 0 .. MaxNonce
    BY <1>2, <2>1 DEF CallInv, CallRecords
  <2>4. CallInv(q, c)'
    BY DEF CallInv
  <2>5. CallsInv'
    BY <1>0, <2>1, <2>3, <2>4, LockAssumption, OneCallMoves
  <2>6. ChainInv' /\ WatchInv' /\ RunsInv'
    BY <1>0, <1>1, <2>1, ChainKept, WatchKept, RunsKept DEF chainVars
  <2>7. ServiceInv'
    BY <1>0, <2>1, <2>2, <2>3 DEF ServiceInv
  <2> QED
    BY <2>5, <2>6, <2>7 DEF IInv
<1> QED
  BY <1>3, <1>4, <1>5, <1>6, <1>7, <1>8 DEF Call

\* The tasks that are started for filtered transactions.
LEMMA TasksType ==
    ASSUME BoundsAssumption, NEW S \in SUBSET Items, \A i \in S : i.cached < TopLevel
    PROVE  /\ {Task(i) : i \in S} \subseteq TaskRecords
           /\ \A k \in {Task(i) : i \in S} : TaskInv(k)
<1>1. ASSUME NEW i \in S PROVE Task(i) \in TaskRecords /\ TaskInv(Task(i))
  <2>1. i.tx \in Tx /\ i.cached \in Levels /\ 1 \in 1 .. Tries
    BY DEF Items, BoundsAssumption
  <2>2. Task(i) \in TaskRecords
    BY <2>1 DEF Task, TaskRecords, Answers
  <2>3. Task(i).cached = i.cached /\ Task(i).st = "send"
    BY DEF Task
  <2> QED
    BY <2>2, <2>3 DEF TaskInv
<1> QED
  BY <1>1

\* The dead letters of a run start.
LEMMA StartedRun ==
    ASSUME BoundsAssumption, NEW run \in RunRecords, RunInv(run),
           NEW X \in SUBSET Items, \A i \in X : i.cached < TopLevel
    PROVE  StartDeadLetters(run, X) \in RunRecords /\ RunInv(StartDeadLetters(run, X))
<1> PICK T : T = {Task(i) : i \in run.low}
  OBVIOUS
<1> PICK q : q = StartDeadLetters(run, X)
  OBVIOUS
<1>1. T \subseteq TaskRecords /\ \A k \in T : TaskInv(k)
  BY TasksType DEF RunRecords, RunInv
<1>2. q = [run EXCEPT !.st = "low", !.items = {}, !.low = {}, !.expired = X, !.tasks = T]
  BY DEF StartDeadLetters
<1>3. q \in RunRecords
  BY <1>1, <1>2 DEF RunRecords
<1>4. q.completed = run.completed /\ q.low = {} /\ q.expired = X /\ q.tasks = T
  BY <1>2 DEF RunRecords
<1> QED
  BY <1>1, <1>3, <1>4 DEF RunInv

\* A run with completed transactions awaits the balance first.
LEMMA BalanceRun ==
    ASSUME NEW run \in RunRecords, RunInv(run)
    PROVE  [run EXCEPT !.st = "balance"] \in RunRecords /\ RunInv([run EXCEPT !.st = "balance"])
  BY DEF RunRecords, RunInv

\* The transactions that may have outlived their timeout.
LEMMA ExpirableType ==
    ASSUME NEW S \in SUBSET Items, NEW X
    PROVE  /\ Expirable(S) \cap X \in SUBSET Items
           /\ \A i \in Expirable(S) \cap X : i.cached < TopLevel
  BY DEF Expirable, isExpired

\* A checkTransactions run takes a step.
LEMMA CheckKeeps == ASSUME IInv, NEW r \in Runs, CheckStep(r) PROVE IInv'
<1> USE BoundsAssumption
<1>0. ChainInv /\ ServiceInv /\ WatchInv /\ CallsInv /\ RunsInv
  BY DEF IInv
<1>1. mined \in Nat /\ MaxNonce \in Nat
  BY <1>0 DEF BoundsAssumption, ChainInv
<1> PICK run : run = runs[r]
  OBVIOUS
<1>2. run \in RunRecords /\ RunInv(run)
  BY <1>0 DEF RunsInv
<1>3. UNCHANGED <<chainVars, phase, nonce, gasPrice, nonceLock, gasTimer, calls, odis>>
  BY DEF CheckStep, CheckStarts, CheckSummaries, CheckBalance, CheckExpired, CheckFinalizes,
         CheckAborts, serviceVars
<1>4. ChainInv' /\ CallsInv'
  BY <1>0, <1>3, ChainKept, CallsKept
<1>5. ServiceInv'
  <2>1. UNCHANGED faults \/ Spend("rpc")
    BY DEF CheckStep, CheckStarts, CheckSummaries, CheckBalance, CheckExpired,
           CheckFinalizes, CheckAborts
  <2>2. faults' \in [Faults -> Nat]
    BY <1>0, <2>1, SpendType DEF Faults, ServiceInv
  <2> QED
    BY <1>0, <1>3, <2>2 DEF ServiceInv
<1>6. WatchInv'
  <2>1. CASE UNCHANGED watched
    BY <1>0, <1>3, <2>1, WatchKept
  <2>2. CASE \E ts : watched' = UnwatchIn(watched, ts)
    <3>1. PICK ts : watched' = UnwatchIn(watched, ts)
      BY <2>2
    <3>2. DOMAIN watched' \subseteq DOMAIN watched /\ watched' \in [DOMAIN watched' -> Levels]
      <4>1. DOMAIN watched \subseteq Tx /\ watched \in [DOMAIN watched -> Levels]
        BY <1>0 DEF WatchInv
      <4>2. /\ DOMAIN UnwatchIn(watched, ts) = DOMAIN watched \ ts
            /\ UnwatchIn(watched, ts) \in [DOMAIN UnwatchIn(watched, ts) -> Levels]
        BY <4>1, UnwatchInType
      <4> QED
        BY <3>1, <4>2
    <3> QED
      BY <1>0, <1>3, <3>2 DEF WatchInv
  <2> QED
    BY <2>1, <2>2 DEF CheckStep, CheckStarts, CheckSummaries, CheckBalance, CheckExpired,
                      CheckFinalizes, CheckAborts, serviceVars
<1>7. ASSUME NEW q \in RunRecords, RunInv(q), runs' = [runs EXCEPT ![r] = q] PROVE RunsInv'
  BY <1>0, <1>3, <1>7, OneRunMoves DEF chainVars
<1>8. RunsInv'
  <2>1. CASE CheckStarts(r)
    <3> PICK q : q = [Idle EXCEPT !.st = "summaries", !.items = {Item(t) : t \in DOMAIN watched}]
      OBVIOUS
    <3>1. {Item(t) : t \in DOMAIN watched} \subseteq Items
      BY <1>0 DEF WatchInv, Item, Items
    <3>2. q \in RunRecords /\ q.completed = {} /\ q.low = {} /\ q.expired = {} /\ q.tasks = {}
      <4>1. Idle \in RunRecords /\ Idle.completed = {} /\ Idle.low = {} /\ Idle.expired = {}
            /\ Idle.tasks = {}
        BY IdleRun DEF Idle
      <4> QED
        BY <3>1, <4>1 DEF RunRecords
    <3>3. RunInv(q)
      BY <3>2 DEF RunInv
    <3> QED
      BY <1>7, <2>1, <3>2, <3>3 DEF CheckStarts
  <2>2. CASE \E timedOut \in SUBSET runs[r].items : CheckSummaries(r, timedOut)
    <3>1. PICK timedOut \in SUBSET run.items : CheckSummaries(r, timedOut)
      BY <2>2
    <3> PICK unmined : unmined = {i \in run.items : i.tx \notin ledger}
      OBVIOUS
    <3> PICK p : p = [run EXCEPT !.items = unmined,
                                 !.low = {i \in unmined : hasGasTooLow(i)},
                                 !.completed = {i.tx : i \in run.items \ unmined}]
      OBVIOUS
    <3>2. runs' = [runs EXCEPT ![r] =
                        IF p.completed # {} THEN [p EXCEPT !.st = "balance"]
                        ELSE StartDeadLetters(p, Expirable(unmined) \cap timedOut)]
      BY <3>1 DEF CheckSummaries
    <3>3. unmined \subseteq Items /\ run.items \subseteq Items
      BY <1>2 DEF RunRecords
    <3>4. {i.tx : i \in run.items \ unmined} \subseteq Tx
      BY <3>3 DEF Items
    <3>5. p \in RunRecords
      BY <1>2, <3>3, <3>4 DEF RunRecords
    <3>6. /\ p.items = unmined /\ p.low = {i \in unmined : hasGasTooLow(i)}
          /\ p.completed = {i.tx : i \in run.items \ unmined}
          /\ p.expired = run.expired /\ p.tasks = run.tasks
      BY <1>2 DEF RunRecords
    <3>7. \A t \in p.completed : t.nonce < mined
      BY <1>0, <3>6 DEF ChainInv
    <3>8. \A i \in p.low : i.cached < TopLevel
      <4> SUFFICES ASSUME NEW i \in p.low PROVE i.cached < TopLevel
        OBVIOUS
      <4>1. i.cached \in Levels /\ i.cached < gasPrice /\ gasPrice \in Levels
        BY <1>0, <3>3, <3>6 DEF hasGasTooLow, Items, ServiceInv
      <4> QED
        BY <4>1 DEF Levels, BoundsAssumption
    <3>9. RunInv(p)
      BY <1>2, <3>6, <3>7, <3>8 DEF RunInv
    <3>10. CASE p.completed # {}
      <4> PICK q : q = [p EXCEPT !.st = "balance"]
        OBVIOUS
      <4>1. q \in RunRecords /\ RunInv(q)
        BY <3>5, <3>9, BalanceRun
      <4> QED
        BY <1>7, <3>2, <3>10, <4>1
    <3>11. CASE p.completed = {}
      <4> PICK X : X = Expirable(unmined) \cap timedOut
        OBVIOUS
      <4>1. X \in SUBSET Items /\ \A i \in X : i.cached < TopLevel
        BY <3>3, ExpirableType
      <4>2. StartDeadLetters(p, X) \in RunRecords /\ RunInv(StartDeadLetters(p, X))
        BY <3>5, <3>9, <4>1, StartedRun
      <4> QED
        BY <1>7, <3>2, <3>11, <4>2
    <3> QED
      BY <3>10, <3>11
  <2>3. CASE \E timedOut \in SUBSET runs[r].items : CheckBalance(r, timedOut)
    <3>1. PICK timedOut \in SUBSET run.items : CheckBalance(r, timedOut)
      BY <2>3
    <3> PICK X : X = Expirable(run.items) \cap timedOut
      OBVIOUS
    <3>2. runs' = [runs EXCEPT ![r] = StartDeadLetters(run, X)]
      BY <3>1 DEF CheckBalance
    <3>3. X \in SUBSET Items /\ \A i \in X : i.cached < TopLevel
      BY <1>2, ExpirableType DEF RunRecords
    <3>4. StartDeadLetters(run, X) \in RunRecords /\ RunInv(StartDeadLetters(run, X))
      BY <1>2, <3>3, StartedRun
    <3> QED
      BY <1>7, <3>2, <3>4
  <2>4. CASE CheckExpired(r)
    <3> PICK T : T = {Task(i) : i \in run.expired}
      OBVIOUS
    <3> PICK q : q = [run EXCEPT !.st = "expired", !.expired = {}, !.tasks = T]
      OBVIOUS
    <3>1. runs' = [runs EXCEPT ![r] = q]
      BY <2>4 DEF CheckExpired
    <3>2. T \subseteq TaskRecords /\ \A k \in T : TaskInv(k)
      BY <1>2, TasksType DEF RunRecords, RunInv
    <3>3. q \in RunRecords
      BY <1>2, <3>2 DEF RunRecords
    <3>4. q.completed = run.completed /\ q.low = run.low /\ q.expired = {} /\ q.tasks = T
      BY <1>2 DEF RunRecords
    <3>5. RunInv(q)
      BY <1>2, <3>2, <3>4 DEF RunInv
    <3> QED
      BY <1>7, <3>1, <3>3, <3>5
  <2>5. CASE CheckFinalizes(r) \/ CheckAborts(r)
    <3>1. runs' = [runs EXCEPT ![r] = Idle]
      BY <2>5 DEF CheckFinalizes, CheckAborts
    <3> QED
      BY <1>7, <3>1, IdleRun
  <2> QED
    BY <2>1, <2>2, <2>3, <2>4, <2>5 DEF CheckStep
<1> QED
  BY <1>4, <1>5, <1>6, <1>8 DEF IInv

\* One dead letter task is replaced by others.
LEMMA OneTaskMoves ==
    ASSUME RunsInv, NEW r \in Runs, NEW k, NEW new \in SUBSET TaskRecords,
           \A x \in new : TaskInv(x), runs' = ReplaceTask(r, k, new), UNCHANGED mined
    PROVE  RunsInv'
<1> PICK run : run = runs[r]
  OBVIOUS
<1> PICK T : T = (run.tasks \ {k}) \cup new
  OBVIOUS
<1> PICK q : q = [run EXCEPT !.tasks = T]
  OBVIOUS
<1>1. runs' = [runs EXCEPT ![r] = q]
  BY DEF ReplaceTask
<1>2. run \in RunRecords /\ RunInv(run)
  BY DEF RunsInv
<1>3. T \subseteq TaskRecords /\ \A x \in T : TaskInv(x)
  BY <1>2 DEF RunRecords, RunInv
<1>4. q \in RunRecords
  BY <1>2, <1>3 DEF RunRecords
<1>5. q.completed = run.completed /\ q.low = run.low /\ q.expired = run.expired /\ q.tasks = T
  BY <1>2 DEF RunRecords
<1>6. RunInv(q)
  BY <1>2, <1>3, <1>5 DEF RunInv
<1> QED
  BY <1>1, <1>4, <1>6, OneRunMoves

\* A task that is retried has the same transaction to replace.
LEMMA RetriedTaskType ==
    ASSUME BoundsAssumption, NEW k \in TaskRecords, TaskInv(k)
    PROVE  RetriedTask(k) \subseteq TaskRecords /\ \A x \in RetriedTask(k) : TaskInv(x)
<1>1. k.try \in 1 .. Tries /\ (k.try # Tries => k.try + 1 \in 1 .. Tries)
  BY DEF TaskRecords, BoundsAssumption
<1>2. CASE k.try # Tries
  <2> PICK x : x = [k EXCEPT !.st = "send", !.try = k.try + 1, !.answer = "other", !.new = NoTx]
    OBVIOUS
  <2>1. RetriedTask(k) = {x}
    BY <1>2 DEF RetriedTask
  <2>2. x \in TaskRecords
    BY <1>1, <1>2 DEF TaskRecords, Answers
  <2>3. x.cached = k.cached /\ x.st = "send"
    BY DEF TaskRecords
  <2> QED
    BY <2>1, <2>2, <2>3 DEF TaskInv
<1>3. CASE k.try = Tries
  BY <1>3 DEF RetriedTask
<1> QED
  BY <1>2, <1>3

\* A deadLetter task takes a step.
LEMMA DeadLetterKeeps == ASSUME IInv, NEW r \in Runs, DeadLetterStep(r) PROVE IInv'
<1> USE BoundsAssumption
<1>0. ChainInv /\ ServiceInv /\ WatchInv /\ CallsInv /\ RunsInv
  BY DEF IInv
<1>1. mined \in Nat /\ MaxNonce \in Nat
  BY <1>0 DEF BoundsAssumption, ChainInv
<1>2. /\ UNCHANGED <<mined, ledger, minPrice, phase, nonce, nonceLock, gasTimer, calls, odis>>
      /\ phase = "up"
  BY DEF DeadLetterStep, DeadLetterSends, DeadLetterAccepted, DeadLetterTooLate,
         DeadLetterFailed, serviceVars, chainVars
<1>3. CallsInv'
  BY <1>0, <1>2, CallsKept
<1>4. \A k \in runs[r].tasks : k \in TaskRecords /\ TaskInv(k)
  BY <1>0 DEF RunsInv, RunRecords, RunInv
<1>5. CASE DeadLetterSends(r)
  <2>1. PICK k \in runs[r].tasks, a \in Answers :
            LET t == [nonce |-> k.tx.nonce, price |-> Max({k.cached + 1, gasPrice}),
                      from |-> DeadLetter]
            IN  /\ k.st = "send" /\ Deliver(t, a)
                /\ runs' = ReplaceTask(r, k, {[k EXCEPT !.st = "reply", !.answer = a, !.new = t]})
    BY <1>5 DEF DeadLetterSends
  <2> PICK t : t = [nonce |-> k.tx.nonce, price |-> Max({k.cached + 1, gasPrice}),
                    from |-> DeadLetter]
    OBVIOUS
  <2>2. UNCHANGED <<gasPrice, watched>>
    BY <1>5 DEF DeadLetterSends, serviceVars
  <2>3. k \in TaskRecords /\ TaskInv(k)
    BY <1>4
  <2>4. t \in Tx /\ t.nonce = k.tx.nonce
    <3>1. k.cached \in Levels /\ k.cached < TopLevel /\ k.tx.nonce \in Nonces
      BY <2>3 DEF TaskRecords, TaskInv, Tx
    <3>2. k.cached + 1 \in Nat /\ gasPrice \in Nat /\ gasPrice \in Levels
      BY <1>0, <3>1 DEF ServiceInv, Levels
    <3>3. Max({k.cached + 1, gasPrice}) \in Levels
      BY <3>1, <3>2, MaxOfTwo DEF Levels, BoundsAssumption
    <3> QED
      BY <3>1, <3>3 DEF Tx
  <2>5. Deliver(t, a)
    BY <2>1
  <2>6. ChainInv' /\ faults' \in [Faults -> Nat] /\ (a = "nonce too low" => t.nonce < mined)
    BY <1>0, <1>2, <2>4, <2>5, ChainDelivers, DeliverType
  <2> PICK x : x = [k EXCEPT !.st = "reply", !.answer = a, !.new = t]
    OBVIOUS
  <2>7. x \in TaskRecords
    BY <2>3, <2>4 DEF TaskRecords
  <2>8. /\ x.st = "reply" /\ x.answer = a /\ x.new = t /\ x.tx = k.tx /\ x.cached = k.cached
    BY <2>3 DEF TaskRecords
  <2>9. TaskInv(x)
    BY <2>3, <2>4, <2>6, <2>8 DEF TaskInv
  <2>10. runs' = ReplaceTask(r, k, {x})
    BY <2>1
  <2>11. RunsInv'
    <3>1. {x} \in SUBSET TaskRecords /\ \A y \in {x} : TaskInv(y)
      BY <2>7, <2>9
    <3> QED
      BY <1>0, <1>2, <2>10, <3>1, OneTaskMoves
  <2>12. WatchInv' /\ ServiceInv'
    BY <1>0, <1>2, <2>2, <2>6, WatchKept DEF ServiceInv
  <2> QED
    BY <1>3, <2>6, <2>11, <2>12 DEF IInv
<1>6. CASE DeadLetterAccepted(r)
  <2>1. PICK k \in runs[r].tasks :
            /\ k.st = "reply" /\ k.answer = "ok"
            /\ watched' = WatchIn(UnwatchIn(watched, {k.tx}), k.new, k.new.price)
            /\ runs' = ReplaceTask(r, k, {})
    BY <1>6 DEF DeadLetterAccepted
  <2>2. UNCHANGED <<chainVars, gasPrice, faults>>
    BY <1>6 DEF DeadLetterAccepted
  <2>3. k.new \in Tx /\ k.new.price \in Levels
    BY <1>4, <2>1 DEF TaskInv, Tx
  <2>4. WatchInv'
    <3> PICK w : w = UnwatchIn(watched, {k.tx})
      OBVIOUS
    <3>1. DOMAIN watched \subseteq Tx /\ watched \in [DOMAIN watched -> Levels]
      BY <1>0 DEF WatchInv
    <3>2. DOMAIN w = DOMAIN watched \ {k.tx} /\ w \in [DOMAIN w -> Levels]
      BY <3>1, UnwatchInType
    <3>3. /\ DOMAIN WatchIn(w, k.new, k.new.price) = DOMAIN w \cup {k.new}
          /\ WatchIn(w, k.new, k.new.price) \in [DOMAIN WatchIn(w, k.new, k.new.price) -> Levels]
      BY <2>3, <3>1, <3>2, WatchInType
    <3> QED
      BY <1>2, <2>1, <2>3, <3>1, <3>2, <3>3 DEF WatchInv
  <2>5. RunsInv'
    BY <1>0, <1>2, <2>1, OneTaskMoves
  <2>6. ChainInv' /\ ServiceInv'
    BY <1>0, <1>2, <2>2, ChainKept DEF ServiceInv
  <2> QED
    BY <1>3, <2>4, <2>5, <2>6 DEF IInv
<1>7. CASE DeadLetterTooLate(r)
  <2>1. PICK k \in runs[r].tasks :
            watched' = UnwatchIn(watched, {k.tx}) /\ runs' = ReplaceTask(r, k, {})
    BY <1>7 DEF DeadLetterTooLate
  <2>2. UNCHANGED <<chainVars, gasPrice, faults>>
    BY <1>7 DEF DeadLetterTooLate
  <2>3. WatchInv'
    <3>1. DOMAIN watched \subseteq Tx /\ watched \in [DOMAIN watched -> Levels]
      BY <1>0 DEF WatchInv
    <3>2. /\ DOMAIN UnwatchIn(watched, {k.tx}) = DOMAIN watched \ {k.tx}
          /\ UnwatchIn(watched, {k.tx}) \in [DOMAIN UnwatchIn(watched, {k.tx}) -> Levels]
      BY <3>1, UnwatchInType
    <3> QED
      BY <1>2, <2>1, <3>1, <3>2 DEF WatchInv
  <2>4. RunsInv'
    BY <1>0, <1>2, <2>1, OneTaskMoves
  <2>5. ChainInv' /\ ServiceInv'
    BY <1>0, <1>2, <2>2, ChainKept DEF ServiceInv
  <2> QED
    BY <1>3, <2>3, <2>4, <2>5 DEF IInv
<1>8. CASE DeadLetterFailed(r)
  <2>1. PICK k \in runs[r].tasks :
            /\ UpdateGasPrice \/ UNCHANGED <<gasPrice, faults>>
            /\ runs' = ReplaceTask(r, k, RetriedTask(k))
    BY <1>8 DEF DeadLetterFailed
  <2>2. UNCHANGED <<chainVars, watched>>
    BY <1>8 DEF DeadLetterFailed
  <2>3. RunsInv'
    <3>1. RetriedTask(k) \in SUBSET TaskRecords /\ \A x \in RetriedTask(k) : TaskInv(x)
      BY <1>4, RetriedTaskType
    <3> QED
      BY <1>0, <1>2, <2>1, <3>1, OneTaskMoves
  <2>4. gasPrice' \in Levels /\ faults' \in [Faults -> Nat]
    BY <1>0, <2>1, UpdateGasPriceType DEF ServiceInv
  <2>5. ChainInv' /\ ServiceInv' /\ WatchInv'
    BY <1>0, <1>2, <2>2, <2>4, ChainKept, WatchKept DEF ServiceInv
  <2> QED
    BY <1>3, <2>3, <2>5 DEF IInv
<1> QED
  BY <1>5, <1>6, <1>7, <1>8 DEF DeadLetterStep

\* Every step keeps the invariant.
LEMMA NextIInv == IInv /\ [Next]_vars => IInv'
<1> SUFFICES ASSUME IInv, [Next]_vars PROVE IInv'
  OBVIOUS
<1>1. CASE Next
  BY <1>1, NodeKeeps, StartKeeps, RestartKeeps, OthersKeep, CallKeeps, CheckKeeps,
     DeadLetterKeeps DEF Next
<1>2. CASE UNCHANGED vars
  <2>0. ChainInv /\ ServiceInv /\ WatchInv /\ CallsInv /\ RunsInv
    BY DEF IInv
  <2>1. ChainInv' /\ ServiceInv' /\ WatchInv'
    BY <1>2, <2>0 DEF vars, ChainInv, ServiceInv, WatchInv
  <2>2. CallsInv'
    BY <1>2, <2>0, CallsKept DEF vars
  <2>3. RunsInv'
    BY <1>2, <2>0 DEF vars, RunsInv, RunInv, TaskInv
  <2> QED
    BY <2>1, <2>2, <2>3 DEF IInv
<1> QED
  BY <1>1, <1>2

\* The transaction service has its types, whatever the constants: no price
\* leaves the scale, no nonce the bound, no task has more tries than @retry.
THEOREM TypesHold == Spec => []TypeOK
  BY InitIInv, NextIInv, IInvTypes, PTL DEF Spec

-----------------------------------------------------------------------------
(* The watch list *)

\* Only the mining of a transaction changes the number of mined ones.
LEMMA MinedStep == ASSUME [Next]_vars, ~Mine PROVE mined' = mined
<1>1. CASE Node \/ Start \/ Restart \/ GasTimerReads \/ GasTimerApplies \/ ReplenishReads
           \/ ReplenishSends \/ UNCHANGED vars
  BY <1>1 DEF Node, Drop, MinimumChanges, Start, StartGas, StartNonce, StartPool, Restart,
              GasTimerReads, GasTimerApplies, ReplenishReads, ReplenishSends, chainVars, vars
<1>2. CASE \E c \in Calls : Call(c)
  <2>1. PICK c \in Calls : Call(c)
    BY <1>2
  <2> QED
    BY <2>1 DEF Call, Submit, SubmitSends, SubmitAccepted, SubmitFailed, ResyncReads,
                ResyncApplies, ResyncFails, chainVars
<1>3. CASE \E r \in Runs : CheckStep(r)
  <2>1. PICK r \in Runs : CheckStep(r)
    BY <1>3
  <2> QED
    BY <2>1 DEF CheckStep, CheckStarts, CheckSummaries, CheckBalance, CheckExpired,
                CheckFinalizes, CheckAborts, chainVars
<1>4. CASE \E r \in Runs : DeadLetterStep(r)
  <2>1. PICK r \in Runs : DeadLetterStep(r)
    BY <1>4
  <2> QED
    BY <2>1 DEF DeadLetterStep, DeadLetterSends, DeadLetterAccepted, DeadLetterTooLate,
                DeadLetterFailed, chainVars
<1> QED
  BY <1>1, <1>2, <1>3, <1>4 DEF Next

\* The number of mined transactions never decreases.
LEMMA MinedGrows ==
    ASSUME IInv, [Next]_vars
    PROVE  mined \in Nat /\ mined' \in Nat /\ mined =< mined'
<1>1. mined \in Nat
  BY BoundsAssumption DEF IInv, ChainInv, BoundsAssumption
<1>2. mined' = mined \/ mined' = mined + 1
  BY MinedStep DEF Mine
<1> QED
  BY <1>1, <1>2

\* A transaction leaves the list only when its nonce is used up or when
\* another transaction of that nonce enters it.
LEMMA WatchStep ==
    ASSUME IInv, [Next]_vars, phase' = "up", NEW t \in DOMAIN watched
    PROVE  t.nonce < mined' \/ \E u \in DOMAIN watched' : u.nonce = t.nonce
<1> USE BoundsAssumption
<1>0. ChainInv /\ ServiceInv /\ WatchInv /\ RunsInv
  BY DEF IInv
<1>1. DOMAIN watched \subseteq Tx /\ watched \in [DOMAIN watched -> Levels]
  BY <1>0 DEF WatchInv
<1>2. mined \in Nat /\ mined' \in Nat /\ mined =< mined' /\ t.nonce \in Nat
  BY <1>1, MinedGrows DEF Tx, Nonces, BoundsAssumption
<1>3. ASSUME UNCHANGED watched
      PROVE  t.nonce < mined' \/ \E u \in DOMAIN watched' : u.nonce = t.nonce
  BY <1>3
<1>4. ASSUME NEW ts, watched' = UnwatchIn(watched, ts), t \in ts => t.nonce < mined
      PROVE  t.nonce < mined' \/ \E u \in DOMAIN watched' : u.nonce = t.nonce
  <2>1. DOMAIN UnwatchIn(watched, ts) = DOMAIN watched \ ts
    BY <1>1, UnwatchInType
  <2> QED
    BY <1>2, <1>4, <2>1
<1>5. CASE Node \/ GasTimerReads \/ GasTimerApplies \/ ReplenishReads \/ ReplenishSends
           \/ UNCHANGED vars
  BY <1>3, <1>5 DEF Node, Mine, Drop, MinimumChanges, GasTimerReads, GasTimerApplies,
                    ReplenishReads, ReplenishSends, serviceVars, vars
<1>6. CASE Start
  BY <1>0, <1>6 DEF Start, StartGas, StartNonce, StartPool, WatchInv
<1>7. CASE Restart
  BY <1>7 DEF Restart
<1>8. CASE \E c \in Calls : Call(c)
  <2>1. PICK c \in Calls : Call(c)
    BY <1>8
  <2>2. CASE SubmitAccepted(c)
    <3>1. calls[c].tx \in Tx /\ gasPrice \in Levels
      BY <1>0, <2>2 DEF SubmitAccepted, IInv, CallsInv, CallInv, ServiceInv
    <3>2. DOMAIN WatchIn(watched, calls[c].tx, gasPrice) = DOMAIN watched \cup {calls[c].tx}
      BY <1>1, <3>1, WatchInType
    <3> QED
      BY <2>2, <3>2 DEF SubmitAccepted
  <2>3. CASE ~SubmitAccepted(c)
    BY <1>3, <2>1, <2>3 DEF Call, Submit, SubmitSends, SubmitFailed, ResyncReads,
                            ResyncApplies, ResyncFails, serviceVars
  <2> QED
    BY <2>2, <2>3
<1>9. CASE \E r \in Runs : CheckStep(r)
  <2>1. PICK r \in Runs : CheckStep(r)
    BY <1>9
  <2>2. \A u \in runs[r].completed : u.nonce < mined
    BY <1>0 DEF RunsInv, RunInv
  <2>3. CASE CheckFinalizes(r)
    <3>1. PICK ts : watched' = UnwatchIn(watched, ts) /\ ts \subseteq runs[r].completed
      BY <2>3 DEF CheckFinalizes
    <3> QED
      BY <1>4, <2>2, <3>1
  <2>4. CASE ~CheckFinalizes(r)
    BY <1>3, <2>1, <2>4 DEF CheckStep, CheckStarts, CheckSummaries, CheckBalance,
                            CheckExpired, CheckAborts, serviceVars
  <2> QED
    BY <2>3, <2>4
<1>10. CASE \E r \in Runs : DeadLetterStep(r)
  <2>1. PICK r \in Runs : DeadLetterStep(r)
    BY <1>10
  <2>2. \A k \in runs[r].tasks : TaskInv(k)
    BY <1>0 DEF RunsInv, RunInv
  <2>3. CASE DeadLetterAccepted(r)
    <3>1. PICK k \in runs[r].tasks :
            /\ k.st = "reply"
            /\ watched' = WatchIn(UnwatchIn(watched, {k.tx}), k.new, k.new.price)
      BY <2>3 DEF DeadLetterAccepted
    <3>2. k.new \in Tx /\ k.new.price \in Levels /\ k.new.nonce = k.tx.nonce
      BY <2>2, <3>1 DEF TaskInv, Tx
    <3> PICK w : w = UnwatchIn(watched, {k.tx})
      OBVIOUS
    <3>3. DOMAIN w = DOMAIN watched \ {k.tx} /\ w \in [DOMAIN w -> Levels]
      BY <1>1, UnwatchInType
    <3>4. DOMAIN WatchIn(w, k.new, k.new.price) = DOMAIN w \cup {k.new}
      BY <1>1, <3>2, <3>3, WatchInType
    <3> QED
      BY <3>1, <3>2, <3>3, <3>4
  <2>4. CASE DeadLetterTooLate(r)
    <3>1. PICK k \in runs[r].tasks :
            /\ k.st = "reply" /\ k.answer = "nonce too low"
            /\ watched' = UnwatchIn(watched, {k.tx})
      BY <2>4 DEF DeadLetterTooLate
    <3>2. k.tx.nonce < mined
      BY <2>2, <3>1 DEF TaskInv
    <3> QED
      BY <1>4, <3>1, <3>2
  <2>5. CASE DeadLetterSends(r) \/ DeadLetterFailed(r)
    BY <1>3, <2>5 DEF DeadLetterSends, DeadLetterFailed, serviceVars
  <2> QED
    BY <2>1, <2>3, <2>4, <2>5 DEF DeadLetterStep
<1> QED
  BY <1>5, <1>6, <1>7, <1>8, <1>9, <1>10 DEF Next

\* The watch list never loses a nonce, for any number of callers and of
\* overlapping check runs and under all faults of the environment.
THEOREM WatchListKeepsNonces == Spec => WatchNeverLosesNonce
<1>1. IInv /\ [Next]_vars =>
        [phase' = "up" => \A t \in DOMAIN watched : Covered(t.nonce)']_vars
  BY WatchStep DEF Covered
<1> QED
  BY <1>1, InitIInv, NextIInv, PTL DEF Spec, WatchNeverLosesNonce

-----------------------------------------------------------------------------
(* Acknowledged transactions *)

\* A fault is only ever spent.
LEMMA FaultsNeverGrow ==
    ASSUME IInv, [Next]_vars, NEW g \in Faults
    PROVE  faults'[g] \in Nat /\ faults'[g] =< faults[g]
<1>0. faults \in [Faults -> Nat]
  BY DEF IInv, ServiceInv
<1>1. ASSUME NEW f, Spend(f) PROVE faults'[g] \in Nat /\ faults'[g] =< faults[g]
  BY <1>0, <1>1 DEF Spend
<1>2. ASSUME UNCHANGED faults PROVE faults'[g] \in Nat /\ faults'[g] =< faults[g]
  BY <1>0, <1>2
<1>3. CASE Node \/ Start \/ Restart \/ GasTimerReads \/ GasTimerApplies
  BY <1>1, <1>2, <1>3 DEF Node, Mine, Drop, MinimumChanges, Start, StartGas, StartNonce,
        StartPool, UpdateGasPrice, Restart, GasTimerReads, GasTimerApplies
<1>4. CASE ReplenishReads \/ ReplenishSends
  BY <1>1, <1>2, <1>4 DEF ReplenishReads, ReplenishSends, Deliver
<1>5. CASE \E c \in Calls : Call(c)
  <2>1. PICK c \in Calls : Call(c)
    BY <1>5
  <2> QED
    BY <1>1, <1>2, <2>1 DEF Call, Submit, SubmitSends, Deliver, SubmitAccepted, SubmitFailed,
        UpdateGasPrice, ResyncReads, ResyncApplies, ResyncFails
<1>6. CASE \E r \in Runs : CheckStep(r)
  <2>1. PICK r \in Runs : CheckStep(r)
    BY <1>6
  <2> QED
    BY <1>1, <1>2, <2>1 DEF CheckStep, CheckStarts, CheckSummaries, CheckBalance,
        CheckExpired, CheckFinalizes, CheckAborts
<1>7. CASE \E r \in Runs : DeadLetterStep(r)
  <2>1. PICK r \in Runs : DeadLetterStep(r)
    BY <1>7
  <2> QED
    BY <1>1, <1>2, <2>1 DEF DeadLetterStep, DeadLetterSends, Deliver, DeadLetterAccepted,
        DeadLetterTooLate, DeadLetterFailed, UpdateGasPrice
<1>8. CASE UNCHANGED vars
  BY <1>2, <1>8 DEF vars
<1> QED
  BY <1>3, <1>4, <1>5, <1>6, <1>7, <1>8 DEF Next

BudgetInv == \A f \in Faults : faults[f] =< Budget[f]

\* No fault happens more often than its budget allows.
LEMMA NextBudget == IInv /\ BudgetInv /\ [Next]_vars => BudgetInv'
<1> SUFFICES ASSUME IInv, BudgetInv, [Next]_vars, NEW g \in Faults
             PROVE  faults'[g] =< Budget[g]
  BY DEF BudgetInv
<1>1. faults[g] \in Nat /\ Budget[g] \in Nat /\ faults[g] =< Budget[g]
  BY BoundsAssumption DEF IInv, ServiceInv, BudgetInv, BoundsAssumption
<1>2. faults'[g] \in Nat /\ faults'[g] =< faults[g]
  BY FaultsNeverGrow
<1> QED
  BY <1>1, <1>2

\* A fault that has not happened after a step had not happened before it, and
\* is not what the step did.
LEMMA SparedBefore ==
    ASSUME IInv, BudgetInv, [Next]_vars, NEW g \in Faults, Spared(g)'
    PROVE  Spared(g) /\ ~Spend(g)
<1>1. faults[g] \in Nat /\ Budget[g] \in Nat /\ faults[g] =< Budget[g] /\ faults'[g] = Budget[g]
  BY BoundsAssumption DEF IInv, ServiceInv, BudgetInv, BoundsAssumption, Spared
<1>2. faults'[g] \in Nat /\ faults'[g] =< faults[g]
  BY FaultsNeverGrow
<1>3. ASSUME Spend(g) PROVE FALSE
  <2>1. faults'[g] = faults[g] - 1
    BY <1>3 DEF Spend, IInv, ServiceInv
  <2> QED
    BY <1>1, <2>1
<1> QED
  BY <1>1, <1>2, <1>3 DEF Spared

\* A call is acknowledged only when the node has accepted its transaction.
LEMMA CallAnswered ==
    ASSUME IInv, [Next]_vars, NEW c \in Calls, calls'[c].st = "ok"
    PROVE  SubmitAccepted(c) \/ calls'[c] = calls[c]
<1>0. calls \in [Calls -> CallRecords]
  BY DEF IInv, CallsInv
<1>1. ASSUME UNCHANGED calls PROVE calls'[c] = calls[c]
  BY <1>1
<1>2. CASE Node \/ Start \/ GasTimerReads \/ GasTimerApplies \/ ReplenishReads
           \/ ReplenishSends \/ UNCHANGED vars
  BY <1>2 DEF Node, Mine, Drop, MinimumChanges, Start, StartGas, StartNonce, StartPool,
        GasTimerReads, GasTimerApplies, ReplenishReads, ReplenishSends, vars
<1>3. CASE Restart
  <2>1. NewCall \in CallRecords
    BY BoundsAssumption, FreshCall
  <2>2. [NewCall EXCEPT !.st = "gone"].st # "ok"
    BY <2>1 DEF CallRecords
  <2> QED
    BY <1>3, <2>2 DEF Restart
<1>4. CASE \E d \in Calls : Call(d)
  <2>1. PICK d \in Calls : Call(d)
    BY <1>4
  <2>2. CASE d # c
    <3>1. \E q : calls' = [calls EXCEPT ![d] = q]
      BY <1>0, <2>1 DEF Call, Submit, SubmitSends, SubmitAccepted, SubmitFailed,
                        ResyncReads, ResyncApplies, ResyncFails
    <3> QED
      BY <1>0, <2>2, <3>1
  <2>3. CASE d = c
    <3> PICK call : call = calls[c]
      OBVIOUS
    <3>1. call \in CallRecords /\ NewCall \in CallRecords
      BY <1>0, BoundsAssumption, FreshCall
    <3>2. Retried(call).st \in {"err", "lock"}
      BY <3>1, BoundsAssumption, RetriedCall
    <3>3. CASE Submit(c)
      BY <1>0, <3>3 DEF Submit
    <3>4. CASE SubmitSends(c)
      BY <1>0, <3>1, <3>4 DEF SubmitSends, CallRecords
    <3>5. CASE SubmitFailed(c)
      <4>1. [NewCall EXCEPT !.st = "resync", !.try = calls[c].try].st = "resync"
        BY <3>1 DEF CallRecords
      <4> QED
        BY <1>0, <3>2, <3>5, <4>1 DEF SubmitFailed
    <3>6. CASE ResyncReads(c)
      BY <1>0, <3>1, <3>6 DEF ResyncReads, CallRecords
    <3>7. CASE ResyncApplies(c)
      BY <1>0, <3>2, <3>7 DEF ResyncApplies
    <3>8. CASE ResyncFails(c)
      <4>1. [NewCall EXCEPT !.st = "err"].st = "err"
        BY <3>1 DEF CallRecords
      <4> QED
        BY <1>0, <3>8, <4>1 DEF ResyncFails
    <3> QED
      BY <2>1, <2>3, <3>3, <3>4, <3>5, <3>6, <3>7, <3>8 DEF Call
  <2> QED
    BY <2>2, <2>3
<1>5. CASE \E r \in Runs : CheckStep(r) \/ DeadLetterStep(r)
  <2>1. PICK r \in Runs : CheckStep(r) \/ DeadLetterStep(r)
    BY <1>5
  <2>2. UNCHANGED calls
    BY <2>1 DEF CheckStep, CheckStarts, CheckSummaries, CheckBalance, CheckExpired,
        CheckFinalizes, CheckAborts, DeadLetterStep, DeadLetterSends, DeadLetterAccepted,
        DeadLetterTooLate, DeadLetterFailed
  <2> QED
    BY <2>2
<1> QED
  BY <1>2, <1>3, <1>4, <1>5 DEF Next

-----------------------------------------------------------------------------
(***************************************************************************)
(* The nonces of acknowledged transactions are distinct, for any number of *)
(* callers, with lost and refused answers, failed reads, restarts, foreign *)
(* transactions of the same account and overlapping dead letters, as long  *)
(* as the node does not forget a pooled transaction.                       *)
(*                                                                         *)
(* The argument: what the node has accepted stays placed (mined or pooled, *)
(* by itself or by a replacement of the same nonce).  All nonces up to an  *)
(* acknowledged one are placed, so that the node's pending count, the only *)
(* other source of this.nonce, is above every acknowledged nonce.  The     *)
(* lock keeps that true between reading the count and using it.            *)
(***************************************************************************)
Placed(n) == n < mined \/ Pooled(n)

\* Every nonce below n is placed.
PlacedBelow(n) == \A m \in 0 .. (n - 1) : Placed(m)

\* n is above every acknowledged nonce.
AboveAcknowledged(n) == \A c \in Calls : calls[c].st = "ok" => calls[c].tx.nonce < n

\* The nonce a transaction was acknowledged with and those below are placed.
AcknowledgedPlaced ==
    \A c \in Calls : calls[c].st = "ok" => PlacedBelow(calls[c].tx.nonce + 1)

\* this.nonce, once it has been read from the node.
NonceInv == phase \in {"pool", "up"} => PlacedBelow(nonce) /\ AboveAcknowledged(nonce)

\* A call that waits for the lock to be released by itself.
HolderInv(c) ==
    /\ calls[c].st = "reply" /\ calls[c].answer = "ok" => Placed(nonce)
    /\ calls[c].st = "nonce" => PlacedBelow(calls[c].count) /\ AboveAcknowledged(calls[c].count)

PlacementInv ==
    /\ AcknowledgedPlaced /\ NonceInv /\ \A c \in Calls : HolderInv(c)
    /\ AcknowledgedNoncesDistinct

-----------------------------------------------------------------------------

\* An accepted transaction only replaces one of the same nonce.
LEMMA DeliverPlaces ==
    ASSUME NEW t, NEW a, Deliver(t, a)
    PROVE  /\ \A n : Pooled(n) => Pooled(n)'
           /\ a = "ok" => Pooled(t.nonce)'
  BY DEF Deliver, Accept, Pooled, NodeAnswer

\* What is placed stays placed, unless the node forgets it.
LEMMA PlacedStays ==
    ASSUME IInv, [Next]_vars, ~Drop, NEW n \in Nat, Placed(n)
    PROVE  Placed(n)'
<1>0. mined \in Nat /\ mined' \in Nat /\ mined =< mined'
  BY MinedGrows
<1>1. CASE n < mined
  BY <1>0, <1>1 DEF Placed
<1>2. CASE Pooled(n)
  <2>1. CASE Mine
    <3>1. PICK t \in pool : t.nonce = mined /\ pool' = pool \ {t}
      BY <2>1 DEF Mine
    <3>2. mined' = mined + 1
      BY <2>1 DEF Mine
    <3> QED
      BY <1>0, <1>2, <3>1, <3>2 DEF Placed, Pooled
  <2>2. CASE Drop
    BY <2>2
  <2>3. ASSUME NEW t, NEW a, Deliver(t, a) PROVE Placed(n)'
    BY <1>2, <2>3, DeliverPlaces DEF Placed
  <2>4. ASSUME UNCHANGED pool PROVE Placed(n)'
    BY <1>2, <2>4 DEF Placed, Pooled
  <2>5. CASE MinimumChanges \/ Start \/ Restart \/ GasTimerReads \/ GasTimerApplies
             \/ ReplenishReads \/ UNCHANGED vars
    BY <2>4, <2>5 DEF MinimumChanges, Start, StartGas, StartNonce, StartPool, Restart,
            GasTimerReads, GasTimerApplies, ReplenishReads, chainVars, vars
  <2>6. CASE ReplenishSends
    BY <2>3, <2>6 DEF ReplenishSends
  <2>7. CASE \E c \in Calls : Call(c)
    <3>1. PICK c \in Calls : Call(c)
      BY <2>7
    <3> QED
      BY <2>3, <2>4, <3>1 DEF Call, Submit, SubmitSends, SubmitAccepted, SubmitFailed,
            ResyncReads, ResyncApplies, ResyncFails, chainVars
  <2>8. CASE \E r \in Runs : CheckStep(r)
    <3>1. PICK r \in Runs : CheckStep(r)
      BY <2>8
    <3> QED
      BY <2>4, <3>1 DEF CheckStep, CheckStarts, CheckSummaries, CheckBalance, CheckExpired,
            CheckFinalizes, CheckAborts, chainVars
  <2>9. CASE \E r \in Runs : DeadLetterStep(r)
    <3>1. PICK r \in Runs : DeadLetterStep(r)
      BY <2>9
    <3>2. CASE DeadLetterSends(r)
      BY <2>3, <3>2 DEF DeadLetterSends
    <3>3. CASE ~DeadLetterSends(r)
      BY <2>4, <3>1, <3>3 DEF DeadLetterStep, DeadLetterAccepted, DeadLetterTooLate,
            DeadLetterFailed, chainVars
    <3> QED
      BY <3>2, <3>3
  <2> QED
    BY <2>1, <2>2, <2>5, <2>6, <2>7, <2>8, <2>9 DEF Next, Node
<1> QED
  BY <1>1, <1>2 DEF Placed

\* The same for all nonces below a number.
LEMMA PlacedBelowStays ==
    ASSUME IInv, [Next]_vars, ~Drop, NEW n \in Nat, PlacedBelow(n)
    PROVE  PlacedBelow(n)'
  BY PlacedStays DEF PlacedBelow

\* The node's pending count is above all acknowledged nonces.
LEMMA PendingAboveAcknowledged ==
    ASSUME IInv, AcknowledgedPlaced
    PROVE  PlacedBelow(PendingNonce) /\ AboveAcknowledged(PendingNonce)
<1>0. ChainInv /\ mined \in Nat /\ MaxNonce \in Nat
  BY BoundsAssumption DEF IInv, ChainInv, BoundsAssumption
<1>1. /\ PendingNonce \in mined .. MaxNonce /\ ~Pooled(PendingNonce)
      /\ \A n \in mined .. MaxNonce : n < PendingNonce => Pooled(n)
  BY <1>0, BoundsAssumption, PendingNonceIsFirst
<1>2. PlacedBelow(PendingNonce)
  BY <1>0, <1>1 DEF PlacedBelow, Placed
<1>3. ASSUME NEW c \in Calls, calls[c].st = "ok" PROVE calls[c].tx.nonce < PendingNonce
  <2>1. calls[c].tx \in Tx
    BY <1>3 DEF IInv, CallsInv, CallInv
  <2>2. calls[c].tx.nonce \in Nat
    BY <1>0, <2>1 DEF Tx, Nonces
  <2>3. PlacedBelow(calls[c].tx.nonce + 1)
    BY <1>3 DEF AcknowledgedPlaced
  <2> QED
    BY <1>0, <1>1, <2>2, <2>3 DEF PlacedBelow, Placed
<1> QED
  BY <1>2, <1>3 DEF AboveAcknowledged

\* this.nonce comes from an accepted transaction or from the node's count.
LEMMA NonceSource ==
    ASSUME IInv, [Next]_vars, phase' \in {"pool", "up"}
    PROVE  \/ nonce' = nonce /\ phase \in {"pool", "up"}
           \/ StartNonce
           \/ \E c \in Calls : SubmitAccepted(c) \/ ResyncApplies(c)
<1>1. CASE Node \/ Restart \/ GasTimerReads \/ GasTimerApplies \/ ReplenishReads
           \/ ReplenishSends \/ UNCHANGED vars
  BY <1>1 DEF Node, Mine, Drop, MinimumChanges, Restart, GasTimerReads, GasTimerApplies,
              ReplenishReads, ReplenishSends, serviceVars, vars
<1>2. CASE Start
  BY <1>2 DEF Start, StartGas, StartPool
<1>3. CASE \E c \in Calls : Call(c)
  <2>1. PICK c \in Calls : Call(c)
    BY <1>3
  <2> QED
    BY <2>1 DEF Call, Submit, SubmitSends, SubmitFailed, ResyncReads, ResyncFails, serviceVars
<1>4. CASE \E r \in Runs : CheckStep(r)
  <2>1. PICK r \in Runs : CheckStep(r)
    BY <1>4
  <2> QED
    BY <2>1 DEF CheckStep, CheckStarts, CheckSummaries, CheckBalance, CheckExpired,
                CheckFinalizes, CheckAborts, serviceVars
<1>5. CASE \E r \in Runs : DeadLetterStep(r)
  <2>1. PICK r \in Runs : DeadLetterStep(r)
    BY <1>5
  <2> QED
    BY <2>1 DEF DeadLetterStep, DeadLetterSends, DeadLetterAccepted, DeadLetterTooLate,
                DeadLetterFailed, serviceVars
<1> QED
  BY <1>1, <1>2, <1>3, <1>4, <1>5 DEF Next

\* How a call comes to hold the lock, and that this.nonce does not change
\* while it does.
LEMMA HolderStep ==
    ASSUME IInv, [Next]_vars, NEW c \in Calls
    PROVE  /\ calls'[c].st = "reply" =>
                SubmitSends(c) \/ (calls'[c] = calls[c] /\ nonce' = nonce)
           /\ calls'[c].st = "nonce" => ResyncReads(c) \/ calls'[c] = calls[c]
<1>0. calls \in [Calls -> CallRecords] /\ NewCall \in CallRecords
  BY BoundsAssumption, FreshCall DEF IInv, CallsInv
<1>1. CallInv(calls[c], c)
  BY DEF IInv, CallsInv
<1>2. ASSUME UNCHANGED <<calls, nonce>>
      PROVE  calls'[c] = calls[c] /\ nonce' = nonce
  BY <1>2
<1>3. CASE Node \/ GasTimerReads \/ GasTimerApplies \/ ReplenishReads \/ ReplenishSends
           \/ UNCHANGED vars
  BY <1>3 DEF Node, Mine, Drop, MinimumChanges, GasTimerReads, GasTimerApplies,
              ReplenishReads, ReplenishSends, serviceVars, vars
<1>4. CASE Start
  <2>1. phase # "up" /\ UNCHANGED calls
    BY <1>4 DEF Start, StartGas, StartNonce, StartPool
  <2> QED
    BY <1>1, <2>1 DEF CallInv
<1>5. CASE Restart
  <2>1. [NewCall EXCEPT !.st = "gone"].st = "gone"
    BY <1>0 DEF CallRecords
  <2>2. calls'[c].st \notin {"reply", "nonce"}
    BY <1>5, <2>1 DEF Restart, InProgress
  <2> QED
    BY <2>2
<1>6. CASE \E d \in Calls : Call(d)
  <2>1. PICK d \in Calls : Call(d)
    BY <1>6
  <2>2. CASE d # c
    <3>1. \E q : calls' = [calls EXCEPT ![d] = q]
      BY <1>0, <2>1 DEF Call, Submit, SubmitSends, SubmitAccepted, SubmitFailed,
                        ResyncReads, ResyncApplies, ResyncFails
    <3>2. calls'[c] = calls[c]
      BY <1>0, <2>2, <3>1
    <3>3. CASE SubmitAccepted(d) \/ ResyncApplies(d)
      <4>1. nonceLock = d
        BY <3>3 DEF SubmitAccepted, ResyncApplies, IInv, CallsInv, CallInv
      <4>2. calls[c].st # "reply"
        BY <1>1, <2>2, <4>1 DEF CallInv
      <4> QED
        BY <3>2, <4>2
    <3>4. CASE ~SubmitAccepted(d) /\ ~ResyncApplies(d)
      <4>1. nonce' = nonce
        BY <2>1, <3>4 DEF Call, Submit, SubmitSends, SubmitFailed, ResyncReads, ResyncFails,
                          serviceVars
      <4> QED
        BY <3>2, <4>1
    <3> QED
      BY <3>3, <3>4
  <2>3. CASE d = c
    <3> PICK call : call = calls[c]
      OBVIOUS
    <3>1. call \in CallRecords
      BY <1>0
    <3>2. Retried(call).st \in {"err", "lock"}
      BY <3>1, BoundsAssumption, RetriedCall
    <3>3. CASE Submit(c)
      BY <1>0, <3>3 DEF Submit
    <3>4. CASE SubmitSends(c)
      <4>1. calls'[c].st = "reply"
        BY <1>0, <3>4 DEF SubmitSends, CallRecords
      <4> QED
        BY <3>4, <4>1
    <3>5. CASE SubmitAccepted(c)
      <4>1. [NewCall EXCEPT !.st = "ok", !.tx = calls[c].tx].st = "ok"
        BY <1>0 DEF CallRecords
      <4> QED
        BY <1>0, <3>5, <4>1 DEF SubmitAccepted
    <3>6. CASE SubmitFailed(c)
      <4>1. [NewCall EXCEPT !.st = "resync", !.try = calls[c].try].st = "resync"
        BY <1>0 DEF CallRecords
      <4> QED
        BY <1>0, <3>2, <3>6, <4>1 DEF SubmitFailed
    <3>7. CASE ResyncReads(c)
      <4>1. calls'[c].st = "nonce"
        BY <1>0, <3>7 DEF ResyncReads, CallRecords
      <4> QED
        BY <3>7, <4>1
    <3>8. CASE ResyncApplies(c)
      BY <1>0, <3>2, <3>8 DEF ResyncApplies
    <3>9. CASE ResyncFails(c)
      <4>1. [NewCall EXCEPT !.st = "err"].st = "err"
        BY <1>0 DEF CallRecords
      <4> QED
        BY <1>0, <3>9, <4>1 DEF ResyncFails
    <3> QED
      BY <2>1, <2>3, <3>3, <3>4, <3>5, <3>6, <3>7, <3>8, <3>9 DEF Call
  <2> QED
    BY <2>2, <2>3
<1>7. CASE \E r \in Runs : CheckStep(r) \/ DeadLetterStep(r)
  <2>1. PICK r \in Runs : CheckStep(r) \/ DeadLetterStep(r)
    BY <1>7
  <2>2. UNCHANGED <<calls, nonce>>
    BY <2>1 DEF CheckStep, CheckStarts, CheckSummaries, CheckBalance, CheckExpired,
        CheckFinalizes, CheckAborts, DeadLetterStep, DeadLetterSends, DeadLetterAccepted,
        DeadLetterTooLate, DeadLetterFailed, serviceVars
  <2> QED
    BY <1>2, <2>2
<1> QED
  BY <1>3, <1>4, <1>5, <1>6, <1>7 DEF Next

-----------------------------------------------------------------------------

\* The acknowledgement itself: the nonce that is used up is placed and above
\* all nonces acknowledged before.
LEMMA AcceptedKeeps ==
    ASSUME IInv, PlacementInv, [Next]_vars, ~Drop, NEW c \in Calls, SubmitAccepted(c)
    PROVE  PlacementInv'
<1>0. calls \in [Calls -> CallRecords] /\ NewCall \in CallRecords /\ nonce \in Nat
  BY BoundsAssumption, FreshCall DEF IInv, CallsInv, ServiceInv, BoundsAssumption
<1>1. /\ phase = "up" /\ calls[c].st = "reply" /\ calls[c].answer = "ok" /\ nonce' = nonce + 1
      /\ calls' = [calls EXCEPT ![c] = [NewCall EXCEPT !.st = "ok", !.tx = calls[c].tx]]
  BY DEF SubmitAccepted
<1>2. nonceLock = c /\ calls[c].tx.nonce = nonce
  BY <1>1 DEF IInv, CallsInv, CallInv
<1>3. calls'[c].st = "ok" /\ calls'[c].tx.nonce = nonce
  BY <1>0, <1>1, <1>2 DEF CallRecords
<1>4. \A d \in Calls \ {c} : calls'[d] = calls[d] /\ calls[d].st \notin {"reply", "nonce"}
  BY <1>0, <1>1, <1>2 DEF IInv, CallsInv, CallInv
<1>5. PlacedBelow(nonce) /\ AboveAcknowledged(nonce) /\ Placed(nonce)
  BY <1>1 DEF PlacementInv, NonceInv, HolderInv
<1>6. \A d \in Calls \ {c} : calls[d].st = "ok" =>
            calls[d].tx.nonce \in Nat /\ calls[d].tx.nonce < nonce
  <2> SUFFICES ASSUME NEW d \in Calls, calls[d].st = "ok"
               PROVE  calls[d].tx.nonce \in Nat /\ calls[d].tx.nonce < nonce
    OBVIOUS
  <2>1. calls[d].tx \in Tx
    BY DEF IInv, CallsInv, CallInv
  <2> QED
    BY <1>5, <2>1, BoundsAssumption DEF AboveAcknowledged, Tx, Nonces, BoundsAssumption
<1> PICK n : n = nonce
  OBVIOUS
<1>7. PlacedBelow(n + 1)'
  <2>1. PlacedBelow(n + 1)
    BY <1>0, <1>5 DEF PlacedBelow
  <2> QED
    BY <1>0, <1>5, <2>1, PlacedBelowStays
<1>8. AcknowledgedPlaced'
  <2> SUFFICES ASSUME NEW d \in Calls, calls'[d].st = "ok"
               PROVE  PlacedBelow(calls[d].tx.nonce + 1)'
    BY DEF AcknowledgedPlaced
  <2> PICK m : m = calls'[d].tx.nonce
    OBVIOUS
  <2>1. m \in Nat /\ m =< n
    BY <1>0, <1>3, <1>4, <1>6
  <2>2. PlacedBelow(m + 1)'
    BY <1>0, <1>7, <2>1 DEF PlacedBelow
  <2> QED
    BY <2>2
<1>9. NonceInv'
  <2>1. \A d \in Calls : calls'[d].st = "ok" => calls'[d].tx.nonce < n + 1
    BY <1>0, <1>3, <1>4, <1>6
  <2>2. AboveAcknowledged(n + 1)'
    BY <2>1 DEF AboveAcknowledged
  <2>3. nonce' = n + 1
    BY <1>1
  <2> QED
    BY <1>7, <2>2, <2>3 DEF NonceInv
<1>10. \A d \in Calls : HolderInv(d)'
  BY <1>3, <1>4 DEF HolderInv
<1>11. AcknowledgedNoncesDistinct'
  <2> SUFFICES ASSUME NEW d \in Calls, NEW e \in Calls, d # e,
                      calls'[d].st = "ok", calls'[e].st = "ok",
                      calls'[d].tx.nonce = calls'[e].tx.nonce
               PROVE  FALSE
    BY DEF AcknowledgedNoncesDistinct
  <2>1. CASE d # c /\ e # c
    BY <1>4, <2>1 DEF PlacementInv, AcknowledgedNoncesDistinct
  <2>2. CASE d = c \/ e = c
    BY <1>0, <1>3, <1>4, <1>6, <2>2
  <2> QED
    BY <2>1, <2>2
<1> QED
  BY <1>8, <1>9, <1>10, <1>11 DEF PlacementInv

\* Every other step: nobody is acknowledged, and a new value of this.nonce or
\* of a count is the pending nonce of the node, now or since the lock is held.
LEMMA OtherStepsKeep ==
    ASSUME IInv, PlacementInv, [Next]_vars, ~Drop, \A c \in Calls : ~SubmitAccepted(c)
    PROVE  PlacementInv'
<1>0. nonce \in Nat /\ AcknowledgedPlaced
  BY BoundsAssumption DEF PlacementInv, IInv, ServiceInv, BoundsAssumption
<1>1. \A c \in Calls : calls'[c].st = "ok" => calls'[c] = calls[c]
  BY CallAnswered
<1>2. ASSUME NEW n \in Nat, PlacedBelow(n), AboveAcknowledged(n)
      PROVE  PlacedBelow(n)' /\ AboveAcknowledged(n)'
  <2>1. PlacedBelow(n)'
    BY <1>0, <1>2, PlacedBelowStays
  <2>2. AboveAcknowledged(n)'
    BY <1>1, <1>2 DEF AboveAcknowledged
  <2> QED
    BY <2>1, <2>2
<1>3. PlacedBelow(PendingNonce) /\ AboveAcknowledged(PendingNonce) /\ PendingNonce \in Nat
  <2>1. PendingNonce \in mined .. MaxNonce /\ mined \in Nat /\ MaxNonce \in Nat
    BY BoundsAssumption, PendingNonceIsFirst DEF IInv, ChainInv, BoundsAssumption
  <2> QED
    BY <1>0, <2>1, PendingAboveAcknowledged
<1>4. AcknowledgedPlaced'
  <2> SUFFICES ASSUME NEW c \in Calls, calls'[c].st = "ok"
               PROVE  PlacedBelow(calls[c].tx.nonce + 1)'
    BY DEF AcknowledgedPlaced
  <2> PICK m : m = calls[c].tx.nonce
    OBVIOUS
  <2>1. calls'[c] = calls[c] /\ calls[c].st = "ok" /\ calls[c].tx \in Tx
    BY <1>1 DEF IInv, CallsInv, CallInv
  <2>2. m + 1 \in Nat /\ PlacedBelow(m + 1)
    BY <1>0, <2>1, BoundsAssumption DEF AcknowledgedPlaced, Tx, Nonces, BoundsAssumption
  <2>3. PlacedBelow(m + 1)'
    BY <1>0, <2>2, PlacedBelowStays
  <2> QED
    BY <2>1, <2>3
<1>5. NonceInv'
  <2> SUFFICES ASSUME phase' \in {"pool", "up"}
               PROVE  PlacedBelow(nonce)' /\ AboveAcknowledged(nonce)'
    BY DEF NonceInv
  <2>1. PICK n \in Nat : nonce' = n /\ PlacedBelow(n) /\ AboveAcknowledged(n)
    <3>1. CASE nonce' = nonce /\ phase \in {"pool", "up"}
      BY <1>0, <3>1 DEF PlacementInv, NonceInv
    <3>2. CASE StartNonce
      BY <1>3, <3>2 DEF StartNonce
    <3>3. CASE \E c \in Calls : ResyncApplies(c)
      <4>1. PICK c \in Calls : ResyncApplies(c)
        BY <3>3
      <4>2. calls[c].st = "nonce" /\ nonce' = calls[c].count
        BY <4>1 DEF ResyncApplies
      <4>3. calls[c].count \in Nat
        BY BoundsAssumption DEF IInv, CallsInv, CallRecords, BoundsAssumption
      <4> QED
        BY <4>2, <4>3 DEF PlacementInv, HolderInv
    <3> QED
      BY <3>1, <3>2, <3>3, NonceSource
  <2>2. PlacedBelow(n)' /\ AboveAcknowledged(n)'
    BY <1>2, <2>1
  <2> QED
    BY <2>1, <2>2
<1>6. ASSUME NEW c \in Calls PROVE HolderInv(c)'
  <2>1. ASSUME calls'[c].st = "reply", calls'[c].answer = "ok" PROVE Placed(nonce)'
    <3>1. CASE SubmitSends(c)
      <4> PICK t : t = [nonce |-> nonce, price |-> gasPrice, from |-> c]
        OBVIOUS
      <4>1. PICK a \in Answers :
                /\ Deliver(t, a)
                /\ calls' = [calls EXCEPT ![c] =
                                [calls[c] EXCEPT !.st = "reply", !.tx = t, !.answer = a]]
        BY <3>1 DEF SubmitSends
      <4>2. calls \in [Calls -> CallRecords]
        BY DEF IInv, CallsInv
      <4>3. calls'[c].answer = a
        BY <4>1, <4>2 DEF CallRecords
      <4>4. Pooled(t.nonce)'
        BY <2>1, <4>1, <4>3, DeliverPlaces
      <4>5. t.nonce = nonce'
        BY <3>1 DEF SubmitSends
      <4> QED
        BY <4>4, <4>5 DEF Placed
    <3>2. CASE calls'[c] = calls[c] /\ nonce' = nonce
      <4> PICK n : n = nonce
        OBVIOUS
      <4>1. Placed(n)
        BY <2>1, <3>2 DEF PlacementInv, HolderInv
      <4>2. Placed(n)'
        BY <1>0, <4>1, PlacedStays
      <4> QED
        BY <3>2, <4>2
    <3> QED
      BY <2>1, <3>1, <3>2, HolderStep
  <2>2. ASSUME calls'[c].st = "nonce"
        PROVE  PlacedBelow(calls[c].count)' /\ AboveAcknowledged(calls[c].count)'
    <3>1. PICK n \in Nat : calls'[c].count = n /\ PlacedBelow(n) /\ AboveAcknowledged(n)
      <4>1. CASE ResyncReads(c)
        <5>1. calls \in [Calls -> CallRecords]
          BY DEF IInv, CallsInv
        <5>2. calls'[c].count = PendingNonce
          BY <4>1, <5>1 DEF ResyncReads, CallRecords
        <5> QED
          BY <1>3, <5>2
      <4>2. CASE calls'[c] = calls[c]
        <5>1. calls[c].count \in Nat
          BY BoundsAssumption DEF IInv, CallsInv, CallRecords, BoundsAssumption
        <5> QED
          BY <2>2, <4>2, <5>1 DEF PlacementInv, HolderInv
      <4> QED
        BY <2>2, <4>1, <4>2, HolderStep
    <3>2. PlacedBelow(n)' /\ AboveAcknowledged(n)'
      BY <1>2, <3>1
    <3> QED
      BY <3>1, <3>2
  <2> QED
    BY <2>1, <2>2 DEF HolderInv
<1>7. AcknowledgedNoncesDistinct'
  BY <1>1 DEF PlacementInv, AcknowledgedNoncesDistinct
<1> QED
  BY <1>4, <1>5, <1>6, <1>7 DEF PlacementInv

NoDropInv == Spared("drop") => PlacementInv

\* What the node has not forgotten yet keeps its place.
LEMMA NextNoDrop == IInv /\ BudgetInv /\ NoDropInv /\ [Next]_vars => NoDropInv'
<1> SUFFICES ASSUME IInv, BudgetInv, NoDropInv, [Next]_vars, Spared("drop")'
             PROVE  PlacementInv'
  BY DEF NoDropInv
<1>1. Spared("drop") /\ ~Drop
  BY SparedBefore DEF Drop, Faults
<1> QED
  BY <1>1, AcceptedKeeps, OtherStepsKeep DEF NoDropInv

\* At the start nothing has happened.
LEMMA InitNoDrop == Init => BudgetInv /\ NoDropInv
<1> SUFFICES ASSUME Init PROVE BudgetInv /\ NoDropInv
  OBVIOUS
<1>1. \A c \in Calls : calls[c].st = "new"
  BY DEF Init, NewCall
<1>2. \A f \in Faults : Budget[f] \in Nat
  BY BoundsAssumption DEF BoundsAssumption
<1> QED
  BY <1>1, <1>2 DEF Init, BudgetInv, NoDropInv, PlacementInv, AcknowledgedPlaced, NonceInv,
                    HolderInv, AcknowledgedNoncesDistinct

\* Two callers of submitTransaction are never told that their transactions
\* went out under one nonce, if the node forgets no pooled transaction.
THEOREM NoncesAreDistinct ==
    ASSUME Budget["drop"] = 0
    PROVE  Spec => []AcknowledgedNoncesDistinct
<1>1. IInv /\ BudgetInv /\ NoDropInv => AcknowledgedNoncesDistinct
  <2> SUFFICES ASSUME IInv, BudgetInv, NoDropInv PROVE AcknowledgedNoncesDistinct
    OBVIOUS
  <2>1. faults["drop"] \in Nat /\ faults["drop"] =< Budget["drop"]
    BY DEF IInv, ServiceInv, BudgetInv, Faults
  <2> QED
    BY <2>1 DEF Spared, NoDropInv, PlacementInv
<1> QED
  BY <1>1, InitIInv, NextIInv, InitNoDrop, NextBudget, NextNoDrop, PTL DEF Spec
-----------------------------------------------------------------------------
(***************************************************************************)
(* What the watch list covers: every acknowledged transaction, and every   *)
(* nonce below this.nonce.                                                 *)
(*                                                                         *)
(* The argument: while the service is up nothing leaves the list before    *)
(* its nonce is used up, and whatever enters the pool carries the nonce of *)
(* a call that holds the lock, or one that a check run took from the list. *)
(* A restart forgets the list, and rebuilds it from the part of the pool   *)
(* without gaps: all of it, because every nonce the service or the ODIS    *)
(* transfers ever use has only placed nonces below it.                     *)
(***************************************************************************)

\* The transactions a check run has taken from the watch list.
RunTxs(run) ==
    {i.tx : i \in run.items \cup run.low \cup run.expired} \cup {k.tx : k \in run.tasks}

\* Their nonces stay covered while the run awaits other things.
ChecksInv == \A r \in Runs : \A t \in RunTxs(runs[r]) : phase = "up" /\ Covered(t.nonce)

\* ODIS transfers are only under way while the service is up.
OdisInv == odis # NoNonce => phase = "up" /\ ~Spared("odis")

\* Before the first start nothing has been sent.
FreshInv ==
    Spared("crash") /\ phase # "up" =>
        /\ \A c \in Calls : calls[c].st # "ok"
        /\ pool = {} /\ mined = 0 /\ nonce = 0

\* The nonces of transactions somebody may still send, replace or watch.
Known(n) ==
    \/ Pooled(n)
    \/ \E t \in DOMAIN watched : t.nonce = n
    \/ \E r \in Runs : \E t \in RunTxs(runs[r]) : t.nonce = n
    \/ odis = n

\* The account's transactions have no gap below them.
GaplessInv == Spared("drop") => \A n \in Nonces : Known(n) => PlacedBelow(n)

\* A call that has yet to watch the transaction the node has accepted.
InFlight(n) ==
    \E c \in Calls : calls[c].st = "reply" /\ calls[c].answer = "ok" /\ calls[c].tx.nonce = n

AcknowledgedInv ==
    phase = "up" /\ Recoverable =>
        \A c \in Calls : calls[c].st = "ok" => Covered(calls[c].tx.nonce)

\* What is pooled is watched, or will be by the call that sent it.
CoverInv ==
    phase = "up" /\ Recoverable /\ Spared("lost") /\ Spared("odis") =>
        /\ \A n \in 0 .. (nonce - 1) : Covered(n)
        /\ \A t \in pool : Covered(t.nonce) \/ InFlight(t.nonce)
        /\ \A c \in Calls : calls[c].st = "nonce" =>
                \A n \in 0 .. (calls[c].count - 1) : Covered(n)

-----------------------------------------------------------------------------

\* The service goes down only in a restart.
LEMMA UpStays == ASSUME [Next]_vars, phase = "up", ~Restart PROVE phase' = "up"
<1>1. ~Start
  BY DEF Start, StartGas, StartNonce, StartPool
<1>2. CASE \E d \in Calls : Call(d)
  BY <1>2 DEF Call, Submit, SubmitSends, SubmitAccepted, SubmitFailed,
              ResyncReads, ResyncApplies, ResyncFails, serviceVars
<1>3. CASE \E r \in Runs : CheckStep(r)
  BY <1>3 DEF CheckStep, CheckStarts, CheckSummaries, CheckBalance, CheckExpired,
              CheckFinalizes, CheckAborts, serviceVars
<1>4. CASE \E r \in Runs : DeadLetterStep(r)
  BY <1>4 DEF DeadLetterStep, DeadLetterSends, DeadLetterAccepted, DeadLetterTooLate,
              DeadLetterFailed, serviceVars
<1>5. CASE Node \/ GasTimerReads \/ GasTimerApplies \/ ReplenishReads
           \/ ReplenishSends \/ UNCHANGED vars
  BY <1>5 DEF Node, Mine, Drop, MinimumChanges, GasTimerReads, GasTimerApplies,
              ReplenishReads, ReplenishSends, serviceVars, vars
<1> QED
  BY <1>1, <1>2, <1>3, <1>4, <1>5 DEF Next

\* Before it is up it only starts, and the chain goes on.
LEMMA DownSteps ==
    ASSUME [Next]_vars, phase # "up", ~Restart
    PROVE  Node \/ Start \/ UNCHANGED vars
<1>1. \A c \in Calls : ~Call(c)
  BY DEF Call, Submit, SubmitSends, SubmitAccepted, SubmitFailed,
         ResyncReads, ResyncApplies, ResyncFails
<1>2. \A r \in Runs : ~CheckStep(r)
  BY DEF CheckStep, CheckStarts, CheckSummaries, CheckBalance, CheckExpired,
         CheckFinalizes, CheckAborts
<1>3. \A r \in Runs : ~DeadLetterStep(r)
  BY DEF DeadLetterStep, DeadLetterSends, DeadLetterAccepted, DeadLetterTooLate,
         DeadLetterFailed
<1>4. ~GasTimerReads /\ ~GasTimerApplies /\ ~ReplenishReads /\ ~ReplenishSends
  BY DEF GasTimerReads, GasTimerApplies, ReplenishReads, ReplenishSends
<1> QED
  BY <1>1, <1>2, <1>3, <1>4 DEF Next

LEMMA UpSource ==
    ASSUME [Next]_vars, phase' = "up"
    PROVE  phase = "up" \/ StartPool
<1> SUFFICES ASSUME phase # "up" PROVE StartPool
  OBVIOUS
<1>1. ~Restart
  BY DEF Restart
<1>2. Node \/ Start \/ UNCHANGED vars
  BY <1>1, DownSteps
<1> QED
  BY <1>2 DEF Node, Mine, Drop, MinimumChanges, Start, StartGas, StartNonce, serviceVars, vars

\* A nonce stays covered as long as the service is up.
LEMMA CoveredStays ==
    ASSUME IInv, [Next]_vars, phase' = "up", NEW n \in Nat, Covered(n)
    PROVE  Covered(n)'
<1>1. CASE n < mined
  BY <1>1, MinedGrows DEF Covered
<1>2. CASE \E t \in DOMAIN watched : t.nonce = n
  BY <1>2, WatchStep DEF Covered
<1> QED
  BY <1>1, <1>2 DEF Covered

\* The transactions of a run, one by one.
LEMMA RunTxsOf ==
    ASSUME NEW q, NEW t
    PROVE  t \in RunTxs(q) <=> \/ \E i \in q.items : t = i.tx
                               \/ \E i \in q.low : t = i.tx
                               \/ \E i \in q.expired : t = i.tx
                               \/ \E k \in q.tasks : t = k.tx
  BY DEF RunTxs

\* They are transactions.
LEMMA RunTxsType ==
    ASSUME IInv, NEW r \in Runs, NEW t \in RunTxs(runs[r])
    PROVE  t \in Tx /\ t.nonce \in Nat
<1>1. runs[r] \in RunRecords
  BY DEF IInv, RunsInv
<1>2. t \in Tx
  BY <1>1, RunTxsOf DEF RunRecords, Items, TaskRecords
<1> QED
  BY <1>2, BoundsAssumption DEF Tx, Nonces, BoundsAssumption

\* The dead letters that start are those of the given transactions.
LEMMA StartedTxs ==
    ASSUME NEW run \in RunRecords, NEW X, NEW t \in RunTxs(StartDeadLetters(run, X))
    PROVE  (\E i \in run.low : t = i.tx) \/ (\E i \in X : t = i.tx)
<1> PICK T : T = {Task(i) : i \in run.low}
  OBVIOUS
<1> PICK q : q = StartDeadLetters(run, X)
  OBVIOUS
<1>1. q = [run EXCEPT !.st = "low", !.items = {}, !.low = {}, !.expired = X, !.tasks = T]
  BY DEF StartDeadLetters
<1>2. q.items = {} /\ q.low = {} /\ q.expired = X /\ q.tasks = T
  BY <1>1 DEF RunRecords
<1>3. (\E i \in X : t = i.tx) \/ (\E k \in T : t = k.tx)
  BY <1>2, RunTxsOf
<1>4. \A k \in T : \E i \in run.low : k.tx = i.tx
  BY DEF Task
<1> QED
  BY <1>3, <1>4

\* A check run works on what it knew before, or on what it takes from the list.
LEMMA CheckSource ==
    ASSUME IInv, NEW r \in Runs, CheckStep(r), NEW t \in RunTxs(runs'[r])
    PROVE  t \in RunTxs(runs[r]) \/ t \in DOMAIN watched
<1>0. runs \in [Runs -> RunRecords]
  BY DEF IInv, RunsInv
<1> PICK run : run = runs[r]
  OBVIOUS
<1> PICK q : q = runs'[r]
  OBVIOUS
<1>1. run \in RunRecords /\ t \in RunTxs(q)
  BY <1>0
<1>2. CASE CheckStarts(r)
  <2> PICK I : I = {Item(u) : u \in DOMAIN watched}
    OBVIOUS
  <2>1. q = [Idle EXCEPT !.st = "summaries", !.items = I]
    BY <1>0, <1>2 DEF CheckStarts
  <2>2. q.items = I /\ q.low = {} /\ q.expired = {} /\ q.tasks = {}
    BY <2>1 DEF Idle
  <2>3. \E i \in I : t = i.tx
    BY <1>1, <2>2, RunTxsOf
  <2> QED
    BY <2>3 DEF Item
<1>3. CASE CheckFinalizes(r) \/ CheckAborts(r)
  <2>1. q = Idle
    BY <1>0, <1>3 DEF CheckFinalizes, CheckAborts
  <2>2. q.items = {} /\ q.low = {} /\ q.expired = {} /\ q.tasks = {}
    BY <2>1 DEF Idle
  <2> QED
    BY <1>1, <2>2, RunTxsOf
<1>4. CASE CheckExpired(r)
  <2> PICK T : T = {Task(i) : i \in run.expired}
    OBVIOUS
  <2>1. q = [run EXCEPT !.st = "expired", !.expired = {}, !.tasks = T]
    BY <1>0, <1>4 DEF CheckExpired
  <2>2. q.items = run.items /\ q.low = run.low /\ q.expired = {} /\ q.tasks = T
    BY <1>1, <2>1 DEF RunRecords
  <2>3. \A k \in T : \E i \in run.expired : k.tx = i.tx
    BY DEF Task
  <2>4. \/ \E i \in run.items : t = i.tx
        \/ \E i \in run.low : t = i.tx
        \/ \E k \in T : t = k.tx
    BY <1>1, <2>2, RunTxsOf
  <2> QED
    BY <2>3, <2>4, RunTxsOf
<1>5. ASSUME NEW timedOut, CheckBalance(r, timedOut) PROVE t \in RunTxs(run)
  <2> PICK X : X = Expirable(run.items) \cap timedOut
    OBVIOUS
  <2>1. q = StartDeadLetters(run, X)
    BY <1>0, <1>5 DEF CheckBalance
  <2>2. X \subseteq run.items
    BY DEF Expirable
  <2>3. (\E i \in run.low : t = i.tx) \/ (\E i \in X : t = i.tx)
    BY <1>1, <2>1, StartedTxs
  <2> QED
    BY <2>2, <2>3, RunTxsOf
<1>6. ASSUME NEW timedOut, CheckSummaries(r, timedOut) PROVE t \in RunTxs(run)
  <2> PICK unmined : unmined = {i \in run.items : i.tx \notin ledger}
    OBVIOUS
  <2> PICK low : low = {i \in unmined : hasGasTooLow(i)}
    OBVIOUS
  <2> PICK done : done = {i.tx : i \in run.items \ unmined}
    OBVIOUS
  <2> PICK X : X = Expirable(unmined) \cap timedOut
    OBVIOUS
  <2> PICK p : p = [run EXCEPT !.items = unmined, !.low = low, !.completed = done]
    OBVIOUS
  <2>1. q = [p EXCEPT !.st = "balance"] \/ q = StartDeadLetters(p, X)
    BY <1>0, <1>6 DEF CheckSummaries
  <2>2. unmined \subseteq run.items /\ low \subseteq unmined /\ X \subseteq unmined
    BY DEF Expirable
  <2>3. done \subseteq Tx
    BY <1>1 DEF RunRecords, Items
  <2>4. /\ p \in RunRecords /\ p.items = unmined /\ p.low = low
        /\ p.expired = run.expired /\ p.tasks = run.tasks
    BY <1>1, <2>2, <2>3 DEF RunRecords
  <2>5. CASE q = [p EXCEPT !.st = "balance"]
    <3>1. q.items = unmined /\ q.low = low /\ q.expired = run.expired /\ q.tasks = run.tasks
      BY ONLY <2>4, <2>5 DEF RunRecords
    <3> QED
      BY <1>1, <2>2, <3>1, RunTxsOf
  <2>6. CASE q = StartDeadLetters(p, X)
    <3>1. (\E i \in p.low : t = i.tx) \/ (\E i \in X : t = i.tx)
      BY ONLY <1>1, <2>4, <2>6, StartedTxs
    <3> QED
      BY <2>2, <2>4, <3>1, RunTxsOf
  <2> QED
    BY <2>1, <2>5, <2>6
<1> QED
  BY <1>2, <1>3, <1>4, <1>5, <1>6 DEF CheckStep

\* The tasks of dead letters are retried with the same transaction.
LEMMA DeadLetterSource ==
    ASSUME IInv, NEW r \in Runs, DeadLetterStep(r), NEW t \in RunTxs(runs'[r])
    PROVE  t \in RunTxs(runs[r])
<1>0. runs \in [Runs -> RunRecords]
  BY DEF IInv, RunsInv
<1> PICK run : run = runs[r]
  OBVIOUS
<1>1. run \in RunRecords /\ \A k \in run.tasks : k \in TaskRecords
  BY <1>0 DEF RunRecords
<1>2. PICK k, new : /\ k \in run.tasks /\ runs' = ReplaceTask(r, k, new)
                    /\ \A x \in new : x.tx = k.tx
  <2>1. CASE DeadLetterSends(r)
    <3>1. PICK k, a, u :
            /\ k \in run.tasks
            /\ runs' = ReplaceTask(r, k, {[k EXCEPT !.st = "reply", !.answer = a, !.new = u]})
      BY <2>1 DEF DeadLetterSends
    <3> PICK x : x = [k EXCEPT !.st = "reply", !.answer = a, !.new = u]
      OBVIOUS
    <3>2. x.tx = k.tx
      BY <1>1, <3>1 DEF TaskRecords
    <3> PICK new : new = {x}
      OBVIOUS
    <3>3. k \in run.tasks /\ runs' = ReplaceTask(r, k, new) /\ \A y \in new : y.tx = k.tx
      BY <3>1, <3>2
    <3> QED
      BY ONLY <3>3, Zenon
  <2>2. CASE DeadLetterAccepted(r) \/ DeadLetterTooLate(r)
    <3>1. PICK k \in run.tasks : runs' = ReplaceTask(r, k, {})
      BY <2>2 DEF DeadLetterAccepted, DeadLetterTooLate
    <3> QED
      BY <3>1
  <2>3. CASE DeadLetterFailed(r)
    <3>1. PICK k \in run.tasks : runs' = ReplaceTask(r, k, RetriedTask(k))
      BY <2>3 DEF DeadLetterFailed
    <3>2. \A x \in RetriedTask(k) : x.tx = k.tx
      BY <1>1 DEF RetriedTask, TaskRecords
    <3> QED
      BY <3>1, <3>2
  <2> QED
    BY <2>1, <2>2, <2>3 DEF DeadLetterStep
<1> PICK T : T = (run.tasks \ {k}) \cup new
  OBVIOUS
<1> PICK q : q = runs'[r]
  OBVIOUS
<1>3. q = [run EXCEPT !.tasks = T]
  BY <1>0, <1>2 DEF ReplaceTask
<1>4. q.items = run.items /\ q.low = run.low /\ q.expired = run.expired /\ q.tasks = T
  BY <1>1, <1>3 DEF RunRecords
<1>5. \A x \in T : \E y \in run.tasks : x.tx = y.tx
  BY <1>2
<1> QED
  BY <1>4, <1>5, RunTxsOf

\* The same for a step of the system.
LEMMA RunSource ==
    ASSUME IInv, [Next]_vars, NEW r \in Runs, NEW t \in RunTxs(runs'[r])
    PROVE  ~Restart /\ (t \in RunTxs(runs[r]) \/ t \in DOMAIN watched)
<1>0. runs \in [Runs -> RunRecords]
  BY DEF IInv, RunsInv
<1>1. ~Restart
  <2> SUFFICES ASSUME Restart PROVE FALSE
    OBVIOUS
  <2>1. runs'[r] = Idle
    BY DEF Restart
  <2>2. Idle.items = {} /\ Idle.low = {} /\ Idle.expired = {} /\ Idle.tasks = {}
    BY DEF Idle
  <2> QED
    BY <2>1, <2>2, RunTxsOf
<1>2. ASSUME runs'[r] = runs[r] PROVE t \in RunTxs(runs[r])
  BY <1>2
<1>3. CASE Node \/ Start \/ GasTimerReads \/ GasTimerApplies \/ ReplenishReads
           \/ ReplenishSends \/ UNCHANGED vars
  <2>1. UNCHANGED runs
    BY <1>3 DEF Node, Mine, Drop, MinimumChanges, Start, StartGas, StartNonce, StartPool,
        GasTimerReads, GasTimerApplies, ReplenishReads, ReplenishSends, vars
  <2> QED
    BY <1>1, <1>2, <2>1
<1>4. CASE \E c \in Calls : Call(c)
  <2>1. UNCHANGED runs
    BY <1>4 DEF Call, Submit, SubmitSends, SubmitAccepted, SubmitFailed,
                ResyncReads, ResyncApplies, ResyncFails
  <2> QED
    BY <1>1, <1>2, <2>1
<1>5. CASE \E s \in Runs : CheckStep(s) \/ DeadLetterStep(s)
  <2>1. PICK s \in Runs : CheckStep(s) \/ DeadLetterStep(s)
    BY <1>5
  <2>2. CASE s = r
    BY <1>1, <2>1, <2>2, CheckSource, DeadLetterSource
  <2>3. CASE s # r
    <3>1. PICK q : runs' = [runs EXCEPT ![s] = q]
      <4>1. CASE CheckStep(s)
        BY <4>1 DEF CheckStep, CheckStarts, CheckSummaries, CheckBalance, CheckExpired,
                    CheckFinalizes, CheckAborts
      <4>2. CASE DeadLetterStep(s)
        BY <4>2 DEF DeadLetterStep, DeadLetterSends, DeadLetterAccepted, DeadLetterTooLate,
                    DeadLetterFailed, ReplaceTask
      <4> QED
        BY <2>1, <4>1, <4>2
    <3>2. runs'[r] = runs[r]
      BY <1>0, <2>3, <3>1
    <3> QED
      BY <1>1, <1>2, <3>2
  <2> QED
    BY <1>1, <2>2, <2>3
<1> QED
  BY <1>1, <1>3, <1>4, <1>5 DEF Next
\* What a check run works on stays covered.
LEMMA NextChecks == IInv /\ ChecksInv /\ [Next]_vars => ChecksInv'
<1> SUFFICES ASSUME IInv, ChecksInv, [Next]_vars, NEW r \in Runs, NEW t \in RunTxs(runs'[r])
             PROVE  phase' = "up" /\ Covered(t.nonce)'
  BY DEF ChecksInv
<1>1. ~Restart /\ (t \in RunTxs(runs[r]) \/ t \in DOMAIN watched)
  BY RunSource
<1>2. phase = "up" /\ Covered(t.nonce)
  BY <1>1 DEF ChecksInv, Covered, IInv, WatchInv
<1>3. phase' = "up"
  BY <1>1, <1>2, UpStays
<1>4. t.nonce \in Nat
  <2>1. CASE t \in DOMAIN watched
    BY <2>1, BoundsAssumption DEF IInv, WatchInv, Tx, Nonces, BoundsAssumption
  <2>2. CASE t \in RunTxs(runs[r])
    BY <2>2, RunTxsType
  <2> QED
    BY <1>1, <2>1, <2>2
<1> PICK n : n = t.nonce
  OBVIOUS
<1>5. Covered(n)'
  BY <1>2, <1>3, <1>4, CoveredStays
<1> QED
  BY <1>3, <1>5

\* ODIS transfers are numbered by the node.
LEMMA OdisSource ==
    ASSUME IInv, [Next]_vars, odis' # NoNonce
    PROVE  ~Restart /\ (odis' = odis \/ ReplenishReads)
<1>1. ~Restart
  BY DEF Restart
<1>2. CASE Node \/ Start \/ GasTimerReads \/ GasTimerApplies \/ ReplenishReads
           \/ ReplenishSends \/ UNCHANGED vars
  BY <1>1, <1>2 DEF Node, Mine, Drop, MinimumChanges, Start, StartGas, StartNonce, StartPool,
        GasTimerReads, GasTimerApplies, ReplenishSends, vars
<1>3. CASE \E c \in Calls : Call(c)
  BY <1>1, <1>3 DEF Call, Submit, SubmitSends, SubmitAccepted, SubmitFailed,
                ResyncReads, ResyncApplies, ResyncFails
<1>4. CASE \E r \in Runs : CheckStep(r)
  BY <1>1, <1>4 DEF CheckStep, CheckStarts, CheckSummaries, CheckBalance, CheckExpired,
                CheckFinalizes, CheckAborts
<1>5. CASE \E r \in Runs : DeadLetterStep(r)
  BY <1>1, <1>5 DEF DeadLetterStep, DeadLetterSends, DeadLetterAccepted, DeadLetterTooLate,
                DeadLetterFailed
<1> QED
  BY <1>1, <1>2, <1>3, <1>4, <1>5 DEF Next

LEMMA NextOdis == IInv /\ BudgetInv /\ OdisInv /\ [Next]_vars => OdisInv'
<1> SUFFICES ASSUME IInv, BudgetInv, OdisInv, [Next]_vars, odis' # NoNonce
             PROVE  phase' = "up" /\ ~Spared("odis")'
  BY DEF OdisInv
<1>1. ~Restart /\ (odis' = odis \/ ReplenishReads)
  BY OdisSource
<1>2. phase = "up"
  BY <1>1 DEF OdisInv, ReplenishReads
<1>3. ASSUME Spared("odis")' PROVE FALSE
  <2>1. Spared("odis") /\ ~Spend("odis")
    BY <1>3, SparedBefore DEF Faults
  <2> QED
    BY <1>1, <2>1 DEF OdisInv, ReplenishReads
<1> QED
  BY <1>1, <1>2, <1>3, UpStays

\* The node adds to its pool what it receives.
LEMMA DeliverSource ==
    ASSUME NEW t, NEW a, Deliver(t, a), NEW p \in pool'
    PROVE  p \in pool \/ (p = t /\ (a = "ok" \/ Spend("lost")))
  BY DEF Deliver, Accept

\* Whose transactions enter the pool.
LEMMA PoolSource ==
    ASSUME IInv, [Next]_vars, NEW t \in pool'
    PROVE  \/ t \in pool
           \/ /\ t.nonce = nonce /\ phase = "up"
              /\ Spend("lost") \/ InFlight(t.nonce)'
           \/ \E r \in Runs : \E u \in RunTxs(runs[r]) : u.nonce = t.nonce
           \/ phase = "up" /\ odis # NoNonce /\ t.nonce = odis
<1>1. ASSUME UNCHANGED pool PROVE t \in pool
  BY <1>1
<1>2. CASE Node \/ Start \/ Restart \/ GasTimerReads \/ GasTimerApplies \/ ReplenishReads
           \/ UNCHANGED vars
  BY <1>1, <1>2 DEF Node, Mine, Drop, MinimumChanges, Start, StartGas, StartNonce, StartPool,
        Restart, GasTimerReads, GasTimerApplies, ReplenishReads, chainVars, vars
<1>3. CASE ReplenishSends
  <2> PICK u : u = [nonce |-> odis, price |-> minPrice, from |-> Odis]
    OBVIOUS
  <2>1. PICK a : phase = "up" /\ odis # NoNonce /\ Deliver(u, a)
    BY <1>3 DEF ReplenishSends
  <2>2. t \in pool \/ t = u
    BY <2>1, DeliverSource
  <2> QED
    BY <2>1, <2>2
<1>4. CASE \E c \in Calls : Call(c)
  <2>1. PICK c \in Calls : Call(c)
    BY <1>4
  <2>2. CASE SubmitSends(c)
    <3> PICK u : u = [nonce |-> nonce, price |-> gasPrice, from |-> c]
      OBVIOUS
    <3>1. PICK a \in Answers :
              /\ Deliver(u, a)
              /\ calls' = [calls EXCEPT ![c] =
                              [calls[c] EXCEPT !.st = "reply", !.tx = u, !.answer = a]]
      BY <2>2 DEF SubmitSends
    <3>2. t \in pool \/ (t = u /\ (a = "ok" \/ Spend("lost")))
      BY <3>1, DeliverSource
    <3>3. calls \in [Calls -> CallRecords]
      BY DEF IInv, CallsInv
    <3>4. calls'[c].st = "reply" /\ calls'[c].answer = a /\ calls'[c].tx = u
      BY <3>1, <3>3 DEF CallRecords
    <3>5. a = "ok" => InFlight(u.nonce)'
      BY <3>4 DEF InFlight
    <3>6. phase = "up" /\ u.nonce = nonce
      BY <2>2 DEF SubmitSends
    <3> QED
      BY <3>2, <3>5, <3>6
  <2>3. CASE ~SubmitSends(c)
    BY <1>1, <2>1, <2>3 DEF Call, Submit, SubmitAccepted, SubmitFailed,
                ResyncReads, ResyncApplies, ResyncFails, chainVars
  <2> QED
    BY <2>2, <2>3
<1>5. CASE \E r \in Runs : CheckStep(r)
  <2>1. PICK r \in Runs : CheckStep(r)
    BY <1>5
  <2> QED
    BY <1>1, <2>1 DEF CheckStep, CheckStarts, CheckSummaries, CheckBalance, CheckExpired,
                CheckFinalizes, CheckAborts, chainVars
<1>6. CASE \E r \in Runs : DeadLetterStep(r)
  <2>1. PICK r \in Runs : DeadLetterStep(r)
    BY <1>6
  <2>2. CASE DeadLetterSends(r)
    <3>1. PICK k \in runs[r].tasks : \E u, a : u.nonce = k.tx.nonce /\ Deliver(u, a)
      BY <2>2 DEF DeadLetterSends
    <3>2. PICK u, a : u.nonce = k.tx.nonce /\ Deliver(u, a)
      BY <3>1
    <3>3. t \in pool \/ t = u
      BY <3>2, DeliverSource
    <3>4. k.tx \in RunTxs(runs[r])
      BY RunTxsOf
    <3> QED
      BY <3>2, <3>3, <3>4
  <2>3. CASE ~DeadLetterSends(r)
    BY <1>1, <2>1, <2>3 DEF DeadLetterStep, DeadLetterAccepted, DeadLetterTooLate,
                DeadLetterFailed, chainVars
  <2> QED
    BY <2>2, <2>3
<1> QED
  BY <1>2, <1>3, <1>4, <1>5, <1>6 DEF Next

\* Whose transactions enter the watch list.
LEMMA WatchSource ==
    ASSUME IInv, [Next]_vars, NEW t \in DOMAIN watched'
    PROVE  \/ t \in DOMAIN watched
           \/ t.nonce = nonce /\ phase = "up"
           \/ \E r \in Runs : \E u \in RunTxs(runs[r]) : u.nonce = t.nonce
           \/ t \in pool
<1>0. WatchInv /\ RunsInv
  BY DEF IInv
<1>1. DOMAIN watched \subseteq Tx /\ watched \in [DOMAIN watched -> Levels]
  BY <1>0 DEF WatchInv
<1>2. ASSUME UNCHANGED watched PROVE t \in DOMAIN watched
  BY <1>2
<1>3. ASSUME NEW ts, watched' = UnwatchIn(watched, ts) PROVE t \in DOMAIN watched
  <2>1. DOMAIN UnwatchIn(watched, ts) = DOMAIN watched \ ts
    BY <1>1, UnwatchInType
  <2> QED
    BY <1>3, <2>1
<1>4. CASE Node \/ GasTimerReads \/ GasTimerApplies \/ ReplenishReads \/ ReplenishSends
           \/ StartGas \/ StartNonce \/ UNCHANGED vars
  BY <1>2, <1>4 DEF Node, Mine, Drop, MinimumChanges, GasTimerReads, GasTimerApplies,
          ReplenishReads, ReplenishSends, StartGas, StartNonce, serviceVars, vars
<1>5. CASE StartPool
  BY <1>5 DEF StartPool
<1>6. CASE Restart
  BY <1>6 DEF Restart
<1>7. CASE \E c \in Calls : Call(c)
  <2>1. PICK c \in Calls : Call(c)
    BY <1>7
  <2>2. CASE SubmitAccepted(c)
    <3>1. /\ phase = "up" /\ calls[c].st = "reply"
          /\ watched' = WatchIn(watched, calls[c].tx, gasPrice)
      BY <2>2 DEF SubmitAccepted
    <3>2. calls[c].tx.nonce = nonce /\ calls[c].tx \in Tx /\ gasPrice \in Levels
      BY <3>1 DEF IInv, CallsInv, CallInv, ServiceInv
    <3>3. DOMAIN watched' = DOMAIN watched \cup {calls[c].tx}
      BY <1>1, <3>1, <3>2, WatchInType
    <3> QED
      BY <3>1, <3>2, <3>3
  <2>3. CASE ~SubmitAccepted(c)
    BY <1>2, <2>1, <2>3 DEF Call, Submit, SubmitSends, SubmitFailed, ResyncReads,
                            ResyncApplies, ResyncFails, serviceVars
  <2> QED
    BY <2>2, <2>3
<1>8. CASE \E r \in Runs : CheckStep(r)
  <2>1. PICK r \in Runs : CheckStep(r)
    BY <1>8
  <2>2. CASE CheckFinalizes(r)
    BY <1>3, <2>2 DEF CheckFinalizes
  <2>3. CASE ~CheckFinalizes(r)
    BY <1>2, <2>1, <2>3 DEF CheckStep, CheckStarts, CheckSummaries, CheckBalance,
                            CheckExpired, CheckAborts, serviceVars
  <2> QED
    BY <2>2, <2>3
<1>9. CASE \E r \in Runs : DeadLetterStep(r)
  <2>1. PICK r \in Runs : DeadLetterStep(r)
    BY <1>9
  <2>2. CASE DeadLetterAccepted(r)
    <3>1. PICK k \in runs[r].tasks :
            /\ k.st = "reply"
            /\ watched' = WatchIn(UnwatchIn(watched, {k.tx}), k.new, k.new.price)
      BY <2>2 DEF DeadLetterAccepted
    <3>2. k.new \in Tx /\ k.new.price \in Levels /\ k.new.nonce = k.tx.nonce
      BY <1>0, <3>1 DEF RunsInv, RunInv, TaskInv, Tx
    <3> PICK w : w = UnwatchIn(watched, {k.tx})
      OBVIOUS
    <3>3. DOMAIN w = DOMAIN watched \ {k.tx} /\ w \in [DOMAIN w -> Levels]
      BY <1>1, UnwatchInType
    <3>4. DOMAIN WatchIn(w, k.new, k.new.price) = DOMAIN w \cup {k.new}
      BY <1>1, <3>2, <3>3, WatchInType
    <3>5. k.tx \in RunTxs(runs[r])
      BY RunTxsOf
    <3> QED
      BY <3>1, <3>2, <3>3, <3>4, <3>5
  <2>3. CASE DeadLetterTooLate(r)
    BY <1>3, <2>3 DEF DeadLetterTooLate
  <2>4. CASE DeadLetterSends(r) \/ DeadLetterFailed(r)
    BY <1>2, <2>4 DEF DeadLetterSends, DeadLetterFailed, serviceVars
  <2> QED
    BY <2>1, <2>2, <2>3, <2>4 DEF DeadLetterStep
<1> QED
  BY <1>4, <1>5, <1>6, <1>7, <1>8, <1>9 DEF Next, Start
\* A new nonce is this.nonce, or the one the node would hand out.
LEMMA KnownSource ==
    ASSUME IInv, [Next]_vars, NEW n \in Nonces, Known(n)'
    PROVE  Known(n) \/ (phase = "up" /\ n = nonce) \/ n = PendingNonce
<1>1. CASE Pooled(n)'
  <2>1. PICK t \in pool' : t.nonce = n
    BY <1>1 DEF Pooled
  <2> QED
    BY <2>1, PoolSource DEF Known, Pooled
<1>2. CASE \E t \in DOMAIN watched' : t.nonce = n
  <2>1. PICK t \in DOMAIN watched' : t.nonce = n
    BY <1>2
  <2> QED
    BY <2>1, WatchSource DEF Known, Pooled
<1>3. CASE \E r \in Runs : \E t \in RunTxs(runs'[r]) : t.nonce = n
  <2>1. PICK r \in Runs : \E t \in RunTxs(runs'[r]) : t.nonce = n
    BY <1>3
  <2>2. PICK t \in RunTxs(runs'[r]) : t.nonce = n
    BY <2>1
  <2>3. t \in RunTxs(runs[r]) \/ t \in DOMAIN watched
    BY RunSource
  <2> QED
    BY <2>2, <2>3 DEF Known
<1>4. CASE odis' = n
  <2>1. odis' # NoNonce
    BY <1>4, BoundsAssumption DEF Nonces, NoNonce, BoundsAssumption
  <2>2. odis' = odis \/ ReplenishReads
    BY <2>1, OdisSource
  <2> QED
    BY <1>4, <2>2 DEF Known, ReplenishReads
<1> QED
  BY <1>1, <1>2, <1>3, <1>4 DEF Known

\* No gap appears below a nonce, unless the node forgets a transaction.
LEMMA NextGapless ==
    IInv /\ BudgetInv /\ NoDropInv /\ GaplessInv /\ [Next]_vars => GaplessInv'
<1> SUFFICES ASSUME IInv, BudgetInv, NoDropInv, GaplessInv, [Next]_vars, Spared("drop")',
                    NEW n \in Nonces, Known(n)'
             PROVE  PlacedBelow(n)'
  BY DEF GaplessInv
<1>1. Spared("drop") /\ ~Drop
  BY SparedBefore DEF Drop, Faults
<1>2. PlacementInv
  BY <1>1 DEF NoDropInv
<1>3. Known(n) \/ (phase = "up" /\ n = nonce) \/ n = PendingNonce
  BY KnownSource
<1>4. PlacedBelow(n)
  <2>1. CASE Known(n)
    BY <1>1, <2>1 DEF GaplessInv
  <2>2. CASE phase = "up" /\ n = nonce
    BY <1>2, <2>2 DEF PlacementInv, NonceInv
  <2>3. CASE n = PendingNonce
    BY <1>2, <2>3, PendingAboveAcknowledged DEF PlacementInv
  <2> QED
    BY <1>3, <2>1, <2>2, <2>3
<1>5. n \in Nat
  BY BoundsAssumption DEF Nonces, BoundsAssumption
<1> QED
  BY <1>1, <1>4, <1>5, PlacedBelowStays

\* A service that starts on an empty pool has nothing to recover.
LEMMA NextFresh == IInv /\ BudgetInv /\ FreshInv /\ [Next]_vars => FreshInv'
<1> SUFFICES ASSUME IInv, BudgetInv, FreshInv, [Next]_vars, Spared("crash")', phase' # "up"
             PROVE  /\ \A c \in Calls : calls'[c].st # "ok"
                    /\ pool' = {} /\ mined' = 0 /\ nonce' = 0
  BY DEF FreshInv
<1>1. Spared("crash") /\ ~Restart
  BY SparedBefore DEF Restart, Faults
<1>2. phase # "up"
  BY <1>1, UpStays
<1>3. (\A c \in Calls : calls[c].st # "ok") /\ pool = {} /\ mined = 0 /\ nonce = 0
  BY <1>1, <1>2 DEF FreshInv
<1>4. Node \/ Start \/ UNCHANGED vars
  BY <1>1, <1>2, DownSteps
<1>5. CASE Node \/ UNCHANGED vars
  BY <1>3, <1>5 DEF Node, Mine, Drop, MinimumChanges, serviceVars, vars
<1>6. CASE Start
  <2>1. PendingNonce = 0
    <3>1. /\ PendingNonce \in mined .. MaxNonce /\ MaxNonce \in Nat
          /\ \A n \in mined .. MaxNonce : n < PendingNonce => Pooled(n)
      BY BoundsAssumption, PendingNonceIsFirst DEF IInv, BoundsAssumption
    <3>2. \A n : ~Pooled(n)
      BY <1>3 DEF Pooled
    <3> QED
      BY <1>3, <3>1, <3>2
  <2> QED
    BY <1>3, <1>6, <2>1 DEF Start, StartGas, StartNonce, StartPool, chainVars
<1> QED
  BY <1>4, <1>5, <1>6

\* A placed nonce without gaps below it is below the node's pending count.
LEMMA PendingAbovePlaced ==
    ASSUME IInv, NEW n \in Nat, PlacedBelow(n), Placed(n)
    PROVE  n < PendingNonce
<1>0. ChainInv /\ mined \in Nat /\ MaxNonce \in Nat
  BY BoundsAssumption DEF IInv, ChainInv, BoundsAssumption
<1>1. PendingNonce \in mined .. MaxNonce /\ ~Pooled(PendingNonce)
  BY <1>0, BoundsAssumption, PendingNonceIsFirst
<1> QED
  BY <1>0, <1>1 DEF PlacedBelow, Placed

\* The pool can be relied on when the service starts: it is empty, or the list
\* is rebuilt from it.
LEMMA StartWatches ==
    ASSUME IInv, BudgetInv, NoDropInv, FreshInv, [Next]_vars, StartPool, Recoverable',
           NEW n \in Nat, PlacedBelow(n), Placed(n)
    PROVE  Covered(n)'
<1>1. CASE n < mined
  BY <1>1, MinedGrows DEF Covered
<1>2. CASE Pooled(n)
  <2>1. PICK t \in pool : t.nonce = n
    BY <1>2 DEF Pooled
  <2>2. n < PendingNonce
    BY <2>1, PendingAbovePlaced
  <2>3. Spared("lookup")'
    <3>1. CASE Spared("crash")'
      <4>1. Spared("crash") /\ phase # "up"
        BY <3>1, SparedBefore DEF Faults, StartPool
      <4> QED
        BY <2>1, <4>1 DEF FreshInv
    <3> QED
      BY <3>1 DEF Recoverable
  <2>4. ~Spend("lookup")
    BY <2>3, SparedBefore DEF Faults
  <2>5. t \in DOMAIN watched'
    BY <2>1, <2>2, <2>4 DEF StartPool
  <2> QED
    BY <2>1, <2>5 DEF Covered
<1> QED
  BY <1>1, <1>2 DEF Placed
\* What was recoverable after a step was so before it; and when the service
\* comes up, either nothing was ever sent or the pool has kept everything.
LEMMA RecoverableBefore ==
    ASSUME IInv, BudgetInv, NoDropInv, FreshInv, GaplessInv, [Next]_vars, Recoverable'
    PROVE  /\ Recoverable
           /\ phase # "up" =>
                \/ (\A c \in Calls : calls[c].st # "ok") /\ pool = {} /\ nonce = 0
                \/ PlacementInv /\ \A n \in Nonces : Known(n) => PlacedBelow(n)
<1>1. CASE Spared("crash")'
  <2>1. Spared("crash")
    BY <1>1, SparedBefore DEF Faults
  <2> QED
    BY <2>1 DEF Recoverable, FreshInv
<1>2. CASE Spared("lookup")' /\ Spared("drop")'
  <2>1. Spared("lookup") /\ Spared("drop")
    BY <1>2, SparedBefore DEF Faults
  <2> QED
    BY <2>1 DEF Recoverable, NoDropInv, GaplessInv
<1> QED
  BY <1>1, <1>2 DEF Recoverable

\* An acknowledged transaction is watched at once, and found again later.
LEMMA NextAcknowledged ==
    ASSUME IInv, BudgetInv, NoDropInv, FreshInv, GaplessInv, AcknowledgedInv, [Next]_vars
    PROVE  AcknowledgedInv'
<1> SUFFICES ASSUME phase' = "up", Recoverable', NEW c \in Calls, calls'[c].st = "ok"
             PROVE  Covered(calls[c].tx.nonce)'
  BY DEF AcknowledgedInv
<1>1. SubmitAccepted(c) \/ calls'[c] = calls[c]
  BY CallAnswered
<1>2. CASE SubmitAccepted(c)
  <2>1. /\ calls' = [calls EXCEPT ![c] = [NewCall EXCEPT !.st = "ok", !.tx = calls[c].tx]]
        /\ watched' = WatchIn(watched, calls[c].tx, gasPrice)
    BY <1>2 DEF SubmitAccepted
  <2>2. NewCall \in CallRecords /\ calls \in [Calls -> CallRecords]
    BY BoundsAssumption, FreshCall DEF IInv, CallsInv
  <2>3. calls'[c].tx = calls[c].tx
    BY <2>1, <2>2 DEF CallRecords
  <2>4. calls[c].tx \in DOMAIN watched'
    BY <2>1 DEF WatchIn
  <2> QED
    BY <2>3, <2>4 DEF Covered
<1>3. CASE calls'[c] = calls[c]
  <2> PICK n : n = calls[c].tx.nonce
    OBVIOUS
  <2>1. calls[c].st = "ok" /\ calls[c].tx \in Tx
    BY <1>3 DEF IInv, CallsInv, CallInv
  <2>2. n \in Nat
    BY <2>1, BoundsAssumption DEF Tx, Nonces, BoundsAssumption
  <2>3. Covered(n)'
    <3>1. CASE phase = "up"
      <4>1. Covered(n)
        BY <2>1, <3>1, RecoverableBefore DEF AcknowledgedInv
      <4> QED
        BY <2>2, <4>1, CoveredStays
    <3>2. CASE phase # "up"
      <4>1. StartPool
        BY <3>2, UpSource
      <4>2. PlacedBelow(n + 1)
        BY <2>1, <3>2, RecoverableBefore DEF PlacementInv, AcknowledgedPlaced
      <4>3. PlacedBelow(n) /\ Placed(n)
        BY <2>2, <4>2 DEF PlacedBelow
      <4> QED
        BY <2>2, <4>1, <4>3, StartWatches
    <3> QED
      BY <3>1, <3>2
  <2> QED
    BY <1>3, <2>3
<1> QED
  BY <1>1, <1>2, <1>3

\* A call whose transaction was accepted goes on to watch it.
LEMMA InFlightStep ==
    ASSUME IInv, [Next]_vars, phase' = "up", NEW n, InFlight(n)
    PROVE  InFlight(n)' \/ Covered(n)'
<1>0. calls \in [Calls -> CallRecords]
  BY DEF IInv, CallsInv
<1>1. PICK c \in Calls : calls[c].st = "reply" /\ calls[c].answer = "ok" /\ calls[c].tx.nonce = n
  BY DEF InFlight
<1>2. CallInv(calls[c], c) /\ ~Restart
  BY DEF IInv, CallsInv, Restart
<1>3. ~Start
  BY <1>1, <1>2 DEF CallInv, Start, StartGas, StartNonce, StartPool
<1>4. ASSUME calls'[c] = calls[c] PROVE InFlight(n)'
  BY <1>1, <1>4 DEF InFlight
<1>5. CASE Node \/ GasTimerReads \/ GasTimerApplies \/ ReplenishReads \/ ReplenishSends
           \/ UNCHANGED vars
  BY <1>4, <1>5 DEF Node, Mine, Drop, MinimumChanges, GasTimerReads, GasTimerApplies,
              ReplenishReads, ReplenishSends, vars
<1>6. CASE \E d \in Calls : Call(d)
  <2>1. PICK d \in Calls : Call(d)
    BY <1>6
  <2>2. CASE d # c
    <3>1. \E q : calls' = [calls EXCEPT ![d] = q]
      BY <1>0, <2>1 DEF Call, Submit, SubmitSends, SubmitAccepted, SubmitFailed,
                        ResyncReads, ResyncApplies, ResyncFails
    <3> QED
      BY <1>0, <1>4, <2>2, <3>1
  <2>3. CASE d = c
    <3>1. SubmitAccepted(c)
      BY <1>1, <2>1, <2>3 DEF Call, Submit, SubmitSends, SubmitFailed,
                        ResyncReads, ResyncApplies, ResyncFails
    <3>2. calls[c].tx \in DOMAIN watched'
      BY <3>1 DEF SubmitAccepted, WatchIn
    <3> QED
      BY <1>1, <3>2 DEF Covered
  <2> QED
    BY <2>2, <2>3
<1>7. CASE \E r \in Runs : CheckStep(r)
  <2>1. UNCHANGED calls
    BY <1>7 DEF CheckStep, CheckStarts, CheckSummaries, CheckBalance, CheckExpired,
                CheckFinalizes, CheckAborts
  <2> QED
    BY <1>4, <2>1
<1>8. CASE \E r \in Runs : DeadLetterStep(r)
  <2>1. UNCHANGED calls
    BY <1>8 DEF DeadLetterStep, DeadLetterSends, DeadLetterAccepted, DeadLetterTooLate,
                DeadLetterFailed
  <2> QED
    BY <1>4, <2>1
<1> QED
  BY <1>2, <1>3, <1>5, <1>6, <1>7, <1>8 DEF Next

\* The first steps of a service that has just come up.
LEMMA StartCovers ==
    ASSUME IInv, BudgetInv, NoDropInv, FreshInv, GaplessInv, [Next]_vars,
           phase # "up", phase' = "up", Recoverable'
    PROVE  CoverInv'
<1>1. StartPool
  BY UpSource
<1>2. /\ phase = "pool" /\ nonce' = nonce /\ pool' = pool /\ calls' = calls
  BY <1>1 DEF StartPool, chainVars
<1>3. nonce \in Nat
  BY BoundsAssumption DEF IInv, ServiceInv, BoundsAssumption
<1>4. ASSUME NEW n \in Nat, n < nonce PROVE Covered(n)'
  <2>1. PlacementInv
    BY <1>2, <1>4, RecoverableBefore
  <2>2. PlacedBelow(nonce)
    BY <1>2, <2>1 DEF PlacementInv, NonceInv
  <2>3. PlacedBelow(n) /\ Placed(n)
    BY <1>3, <1>4, <2>2 DEF PlacedBelow
  <2> QED
    BY <1>1, <2>3, StartWatches
<1>5. ASSUME NEW t \in pool PROVE Covered(t.nonce)'
  <2> PICK n : n = t.nonce
    OBVIOUS
  <2>1. n \in Nonces /\ n \in Nat
    BY BoundsAssumption DEF IInv, ChainInv, Tx, Nonces, BoundsAssumption
  <2>2. Pooled(n)
    BY DEF Pooled
  <2>3. PlacedBelow(n) /\ Placed(n)
    BY <1>2, <2>1, <2>2, RecoverableBefore DEF Known, Placed
  <2>4. Covered(n)'
    BY <1>1, <2>1, <2>3, StartWatches
  <2> QED
    BY <2>4
<1>6. \A c \in Calls : calls'[c].st # "nonce"
  BY <1>2 DEF IInv, CallsInv, CallInv
<1>7. \A n \in 0 .. (nonce' - 1) : Covered(n)'
  BY <1>2, <1>3, <1>4
<1>8. \A t \in pool' : Covered(t.nonce)'
  BY <1>2, <1>5
<1> QED
  BY <1>6, <1>7, <1>8 DEF CoverInv

\* The steps of a service that is up.
LEMMA UpCovers ==
    ASSUME IInv, BudgetInv, NoDropInv, FreshInv, GaplessInv, ChecksInv, OdisInv, CoverInv,
           [Next]_vars, phase = "up", phase' = "up",
           Recoverable', Spared("lost")', Spared("odis")'
    PROVE  CoverInv'
<1>1. Spared("lost") /\ ~Spend("lost") /\ Spared("odis") /\ Recoverable
  BY SparedBefore, RecoverableBefore DEF Faults
<1>2. odis = NoNonce
  BY <1>1 DEF OdisInv
<1>3. /\ \A n \in 0 .. (nonce - 1) : Covered(n)
      /\ \A t \in pool : Covered(t.nonce) \/ InFlight(t.nonce)
      /\ \A c \in Calls : calls[c].st = "nonce" =>
              \A n \in 0 .. (calls[c].count - 1) : Covered(n)
  BY <1>1 DEF CoverInv
<1>4. nonce \in Nat
  BY BoundsAssumption DEF IInv, ServiceInv, BoundsAssumption
<1>5. ASSUME NEW n \in Nat, n < nonce' PROVE Covered(n)'
  <2>1. CASE nonce' = nonce
    BY <1>3, <1>4, <1>5, <2>1, CoveredStays
  <2>2. CASE \E c \in Calls : SubmitAccepted(c)
    <3>1. PICK c \in Calls : SubmitAccepted(c)
      BY <2>2
    <3>2. nonce' = nonce + 1 /\ calls[c].tx.nonce = nonce
      BY <3>1 DEF SubmitAccepted, IInv, CallsInv, CallInv
    <3>3. CASE n < nonce
      BY <1>3, <1>4, <3>3, CoveredStays
    <3>4. CASE n = nonce
      <4>1. calls[c].tx \in DOMAIN watched'
        BY <3>1 DEF SubmitAccepted, WatchIn
      <4> QED
        BY <3>2, <3>4, <4>1 DEF Covered
    <3> QED
      BY <1>4, <1>5, <3>2, <3>3, <3>4
  <2>3. CASE \E c \in Calls : ResyncApplies(c)
    <3>1. PICK c \in Calls : ResyncApplies(c)
      BY <2>3
    <3>2. calls[c].st = "nonce" /\ nonce' = calls[c].count
      BY <3>1 DEF ResyncApplies
    <3>3. calls[c].count \in Nat
      BY BoundsAssumption DEF IInv, CallsInv, CallRecords, BoundsAssumption
    <3>4. Covered(n)
      BY <1>3, <1>5, <3>2, <3>3
    <3> QED
      BY <3>4, CoveredStays
  <2> QED
    BY <2>1, <2>2, <2>3, NonceSource DEF StartNonce
<1>6. ASSUME NEW t \in pool' PROVE Covered(t.nonce)' \/ InFlight(t.nonce)'
  <2> PICK n : n = t.nonce
    OBVIOUS
  <2>1. n \in Nat
    BY NextIInv, BoundsAssumption DEF IInv, ChainInv, Tx, Nonces, BoundsAssumption
  <2>2. Covered(n) => Covered(n)'
    BY <2>1, CoveredStays
  <2>3. InFlight(n) => Covered(n)' \/ InFlight(n)'
    BY InFlightStep
  <2>4. t \in pool => Covered(n) \/ InFlight(n)
    BY <1>3
  <2>5. (\E r \in Runs : \E u \in RunTxs(runs[r]) : u.nonce = n) => Covered(n)
    BY DEF ChecksInv
  <2>6. InFlight(t.nonce)' => InFlight(n)'
    OBVIOUS
  <2>7. Covered(n)' \/ InFlight(n)'
    BY <1>1, <1>2, <2>2, <2>3, <2>4, <2>5, <2>6, PoolSource
  <2> QED
    BY <2>7
<1>7. ASSUME NEW c \in Calls, calls'[c].st = "nonce", NEW n \in Nat, n < calls'[c].count
      PROVE  Covered(n)'
  <2>1. Covered(n)
    <3>1. CASE ResyncReads(c)
      <4>1. calls \in [Calls -> CallRecords]
        BY DEF IInv, CallsInv
      <4>2. calls'[c].count = PendingNonce /\ nonceLock = NoLock
        BY <3>1, <4>1 DEF ResyncReads, CallRecords
      <4>3. \A m : ~InFlight(m)
        BY <4>2, LockAssumption DEF InFlight, IInv, CallsInv, CallInv
      <4>4. /\ PendingNonce \in mined .. MaxNonce /\ MaxNonce \in Nat /\ mined \in Nat
            /\ \A m \in mined .. MaxNonce : m < PendingNonce => Pooled(m)
        BY BoundsAssumption, PendingNonceIsFirst DEF IInv, ChainInv, BoundsAssumption
      <4>5. n < mined \/ Pooled(n)
        BY <1>7, <4>2, <4>4
      <4> QED
        BY <1>3, <4>3, <4>5 DEF Covered, Pooled
    <3>2. CASE calls'[c] = calls[c]
      <4>1. calls[c].count \in Nat
        BY BoundsAssumption DEF IInv, CallsInv, CallRecords, BoundsAssumption
      <4> QED
        BY <1>3, <1>7, <3>2, <4>1
    <3> QED
      BY <1>7, <3>1, <3>2, HolderStep
  <2> QED
    BY <2>1, CoveredStays
<1>8. nonce' \in Nat /\ \A c \in Calls : calls'[c].count \in Nat
  BY NextIInv, BoundsAssumption DEF IInv, ServiceInv, CallsInv, CallRecords, BoundsAssumption
<1>9. \A n \in 0 .. (nonce' - 1) : Covered(n)'
  <2> PICK top : top = nonce'
    OBVIOUS
  <2>1. top \in Nat
    BY <1>8
  <2>2. \A n \in 0 .. (top - 1) : n \in Nat /\ n < top
    BY ONLY <2>1
  <2>3. \A n \in 0 .. (top - 1) : Covered(n)'
    BY <1>5, <2>2
  <2> QED
    BY <2>3
<1>10. \A c \in Calls : calls'[c].st = "nonce" =>
            \A n \in 0 .. (calls'[c].count - 1) : Covered(n)'
  BY <1>7, <1>8
<1> QED
  BY <1>6, <1>9, <1>10 DEF CoverInv

-----------------------------------------------------------------------------

\* The conjunction is inductive.
RecoveryInv ==
    /\ BudgetInv /\ NoDropInv /\ FreshInv /\ GaplessInv /\ ChecksInv /\ OdisInv
    /\ AcknowledgedInv /\ CoverInv

LEMMA InitRecovery == Init => RecoveryInv
<1> SUFFICES ASSUME Init PROVE RecoveryInv
  OBVIOUS
<1>1. \A c \in Calls : calls[c].st = "new"
  BY DEF Init, NewCall
<1>2. BudgetInv /\ NoDropInv
  BY InitNoDrop
<1>3. FreshInv /\ OdisInv /\ AcknowledgedInv /\ CoverInv
  BY <1>1 DEF Init, FreshInv, OdisInv, AcknowledgedInv, CoverInv
<1>4. \A r \in Runs : RunTxs(runs[r]) = {}
  BY DEF Init, Idle, RunTxs
<1>5. ChecksInv
  BY <1>4 DEF ChecksInv
<1>6. \A n \in Nonces : ~Known(n)
  BY <1>4, BoundsAssumption DEF Init, Known, Pooled, NoNonce, Nonces, BoundsAssumption
<1>7. GaplessInv
  BY <1>6 DEF GaplessInv
<1> QED
  BY <1>2, <1>3, <1>5, <1>7 DEF RecoveryInv

LEMMA NextRecovery == IInv /\ RecoveryInv /\ [Next]_vars => RecoveryInv'
<1> SUFFICES ASSUME IInv, RecoveryInv, [Next]_vars PROVE RecoveryInv'
  OBVIOUS
<1>1. BudgetInv' /\ NoDropInv' /\ FreshInv' /\ GaplessInv' /\ ChecksInv' /\ OdisInv'
  BY NextBudget, NextNoDrop, NextFresh, NextGapless, NextChecks, NextOdis DEF RecoveryInv
<1>2. AcknowledgedInv'
  BY NextAcknowledged DEF RecoveryInv
<1>3. CoverInv'
  <2> SUFFICES ASSUME phase' = "up", Recoverable', Spared("lost")', Spared("odis")'
               PROVE  CoverInv'
    BY DEF CoverInv
  <2> QED
    BY StartCovers, UpCovers DEF RecoveryInv
<1> QED
  BY <1>1, <1>2, <1>3 DEF RecoveryInv

\* A transaction acknowledged by submitTransaction is mined or its nonce is
\* watched, whatever the node loses or drops and however check runs overlap;
\* and across restarts, as long as the pool can be looked up and has forgotten
\* nothing.
THEOREM AcknowledgedStaysCovered == Spec => []AcknowledgedIsCovered
<1>1. RecoveryInv => AcknowledgedIsCovered
  BY DEF RecoveryInv, AcknowledgedInv, AcknowledgedIsCovered
<1> QED
  BY <1>1, InitIInv, NextIInv, InitRecovery, NextRecovery, PTL DEF Spec

\* Below this.nonce every nonce is mined or watched, for any callers, check
\* runs and prices, while no answer is lost and no ODIS transfer is made: no
\* step of submitTransaction, updateNonce or onModuleInit leaves one behind.
THEOREM NoNonceIsStranded == Spec => []NoStrandedNonce
<1>1. RecoveryInv => NoStrandedNonce
  BY DEF RecoveryInv, CoverInv, NoStrandedNonce
<1> QED
  BY <1>1, InitIInv, NextIInv, InitRecovery, NextRecovery, PTL DEF Spec

-----------------------------------------------------------------------------
(***************************************************************************)
(* The account as its callers see it (RelayerAccount).                     *)
(*                                                                         *)
(* The argument: the node's pending count is the number of nonces used.    *)
(* The account's transactions have no gap, so that a transaction that      *)
(* enters the pool is at the pending count or below it, and moves the      *)
(* count by at most one; mining moves nothing.  A call is acknowledged     *)
(* with a nonce that is placed, below the count and above all nonces       *)
(* acknowledged before.                                                    *)
(***************************************************************************)

\* The smallest element of a set of naturals.
LEMMA MinIs ==
    ASSUME NEW T, T \subseteq Nat, NEW p \in T, \A y \in T : p =< y
    PROVE  Min(T) = p
<1>1. Min(T) \in T /\ \A y \in T : Min(T) =< y
  BY MinOfNaturals
<1>2. Min(T) \in Nat /\ p \in Nat /\ Min(T) =< p /\ p =< Min(T)
  BY <1>1
<1> PICK m : m = Min(T)
  OBVIOUS
<1> QED
  BY <1>2

\* An answer, once it is given, is not taken back.
LEMMA OkStays ==
    ASSUME IInv, [Next]_vars, NEW c \in Calls, calls[c].st = "ok"
    PROVE  calls'[c] = calls[c]
<1>0. calls \in [Calls -> CallRecords]
  BY DEF IInv, CallsInv
<1>1. CASE Node \/ Start \/ GasTimerReads \/ GasTimerApplies \/ ReplenishReads
           \/ ReplenishSends \/ UNCHANGED vars
  BY <1>1 DEF Node, Mine, Drop, MinimumChanges, Start, StartGas, StartNonce, StartPool,
        GasTimerReads, GasTimerApplies, ReplenishReads, ReplenishSends, vars
<1>2. CASE Restart
  BY <1>2 DEF Restart, InProgress
<1>3. CASE \E d \in Calls : Call(d)
  <2>1. PICK d \in Calls : Call(d)
    BY <1>3
  <2>2. d # c
    BY <2>1 DEF Call, Submit, SubmitSends, SubmitAccepted, SubmitFailed, ResyncReads,
                ResyncApplies, ResyncFails
  <2>3. \E q : calls' = [calls EXCEPT ![d] = q]
    BY <1>0, <2>1 DEF Call, Submit, SubmitSends, SubmitAccepted, SubmitFailed,
                      ResyncReads, ResyncApplies, ResyncFails
  <2> QED
    BY <1>0, <2>2, <2>3
<1>4. CASE \E r \in Runs : CheckStep(r) \/ DeadLetterStep(r)
  <2>1. PICK r \in Runs : CheckStep(r) \/ DeadLetterStep(r)
    BY <1>4
  <2> QED
    BY <2>1 DEF CheckStep, CheckStarts, CheckSummaries, CheckBalance, CheckExpired,
        CheckFinalizes, CheckAborts, DeadLetterStep, DeadLetterSends, DeadLetterAccepted,
        DeadLetterTooLate, DeadLetterFailed
<1> QED
  BY <1>1, <1>2, <1>3, <1>4 DEF Next

\* A transaction that is received adds at most its own nonce to the pool.
LEMMA DeliverAdds ==
    ASSUME NEW t, NEW a, Deliver(t, a)
    PROVE  \E m : \A n : Pooled(n)' => Pooled(n) \/ n = m
<1>1. \A n : Pooled(n)' => Pooled(n) \/ n = t.nonce
  <2> SUFFICES ASSUME NEW n, NEW p \in pool', p.nonce = n PROVE Pooled(n) \/ n = t.nonce
    BY DEF Pooled
  <2>1. p \in pool \/ p = t
    BY DeliverSource
  <2> QED
    BY <2>1 DEF Pooled
<1> QED
  BY <1>1

\* A step adds at most one nonce to the pool.
LEMMA PoolStep ==
    ASSUME [Next]_vars
    PROVE  \E m : \A n : Pooled(n)' => Pooled(n) \/ n = m
<1>1. ASSUME pool' \subseteq pool PROVE \A n : Pooled(n)' => Pooled(n)
  BY <1>1 DEF Pooled
<1>2. CASE Node \/ Start \/ Restart \/ GasTimerReads \/ GasTimerApplies \/ ReplenishReads
           \/ UNCHANGED vars
  <2>1. pool' \subseteq pool
    BY <1>2 DEF Node, Mine, Drop, MinimumChanges, Start, StartGas, StartNonce, StartPool,
          Restart, GasTimerReads, GasTimerApplies, ReplenishReads, chainVars, vars
  <2> QED
    BY <1>1, <2>1
<1>3. CASE ReplenishSends
  <2>1. \E t, a : Deliver(t, a)
    BY <1>3 DEF ReplenishSends
  <2> QED
    BY <2>1, DeliverAdds
<1>4. CASE \E c \in Calls : Call(c)
  <2>1. PICK c \in Calls : Call(c)
    BY <1>4
  <2>2. CASE SubmitSends(c)
    <3>1. \E t, a : Deliver(t, a)
      BY <2>2 DEF SubmitSends
    <3> QED
      BY <3>1, DeliverAdds
  <2>3. CASE ~SubmitSends(c)
    <3>1. pool' \subseteq pool
      BY <2>1, <2>3 DEF Call, Submit, SubmitAccepted, SubmitFailed, ResyncReads,
                        ResyncApplies, ResyncFails, chainVars
    <3> QED
      BY <1>1, <3>1
  <2> QED
    BY <2>2, <2>3
<1>5. CASE \E r \in Runs : CheckStep(r) \/ DeadLetterStep(r)
  <2>1. PICK r \in Runs : CheckStep(r) \/ DeadLetterStep(r)
    BY <1>5
  <2>2. CASE DeadLetterSends(r)
    <3>1. \E t, a : Deliver(t, a)
      BY <2>2 DEF DeadLetterSends
    <3> QED
      BY <3>1, DeliverAdds
  <2>3. CASE ~DeadLetterSends(r)
    <3>1. pool' \subseteq pool
      BY <2>1, <2>3 DEF CheckStep, CheckStarts, CheckSummaries, CheckBalance, CheckExpired,
            CheckFinalizes, CheckAborts, DeadLetterStep, DeadLetterAccepted,
            DeadLetterTooLate, DeadLetterFailed, chainVars
    <3> QED
      BY <1>1, <3>1
  <2> QED
    BY <2>2, <2>3
<1> QED
  BY <1>2, <1>3, <1>4, <1>5 DEF Next

\* The pending count moves by at most one, and not when a transaction is mined.
LEMMA PendingStep ==
    ASSUME IInv, RecoveryInv, [Next]_vars, Spared("drop"), Spared("drop")'
    PROVE  \/ PendingNonce' = PendingNonce
           \/ PendingNonce' = PendingNonce + 1 /\ mined' = mined
<1> PICK p : p = PendingNonce
  OBVIOUS
<1> DEFINE T == {n \in mined' .. MaxNonce : ~Pooled(n)'}
<1>0. /\ IInv' /\ ~Drop /\ ChainInv /\ ChainInv' /\ MaxNonce \in Nat
      /\ mined \in Nat /\ mined' \in Nat /\ mined =< mined'
  <2>1. ~Drop
    BY SparedBefore DEF Drop, Faults, RecoveryInv
  <2>2. IInv'
    BY NextIInv
  <2> QED
    BY <2>1, <2>2, MinedGrows, BoundsAssumption DEF IInv, BoundsAssumption
<1>1. /\ p \in mined .. MaxNonce /\ ~Pooled(p)
      /\ \A n \in mined .. MaxNonce : n < p => Pooled(n)
  BY <1>0, BoundsAssumption, PendingNonceIsFirst
<1>2. PendingNonce' = Min(T) /\ T \subseteq Nat
  BY <1>0 DEF PendingNonce
<1>3. PlacedBelow(p)
  BY <1>0, <1>1 DEF PlacedBelow, Placed
<1>4. \A n \in mined' .. MaxNonce : n < p => Pooled(n)'
  <2>1. PlacedBelow(p)'
    BY <1>0, <1>1, <1>3, PlacedBelowStays
  <2> QED
    BY <1>0, <1>1, <2>1 DEF PlacedBelow, Placed
<1>5. CASE p \in T
  <2>1. \A y \in T : p =< y
    BY <1>0, <1>1, <1>4
  <2> HIDE DEF T
  <2>2. Min(T) = p
    BY <1>2, <1>5, <2>1, MinIs
  <2> QED
    BY <1>2, <2>2
<1>6. CASE mined' = mined /\ Pooled(p)'
  <2>1. PICK t \in pool' : t.nonce = p
    BY <1>6 DEF Pooled
  <2>2. p \in Nonces
    BY <1>0, <2>1 DEF ChainInv, Tx
  <2>3. p \in Nat /\ p + 1 =< MaxNonce
    BY <1>0, <2>2 DEF Nonces
  <2>4. PICK m : \A n : Pooled(n)' => Pooled(n) \/ n = m
    BY PoolStep
  <2>5. m = p
    BY <1>1, <1>6, <2>4
  <2>6. ~Pooled(p + 1)'
    <3> SUFFICES ASSUME Pooled(p + 1)' PROVE FALSE
      OBVIOUS
    <3>1. Pooled(p + 1) \/ p + 1 = m
      BY <2>4
    <3>2. Pooled(p + 1)
      BY <2>3, <2>5, <3>1
    <3>3. PICK u \in pool : u.nonce = p + 1
      BY <3>2 DEF Pooled
    <3>4. p + 1 \in Nonces
      BY <1>0, <3>3 DEF ChainInv, Tx
    <3>5. Known(p + 1)
      BY <3>2 DEF Known
    <3>6. PlacedBelow(p + 1)
      BY <3>4, <3>5 DEF RecoveryInv, GaplessInv
    <3> QED
      BY <1>0, <1>1, <2>3, <3>6 DEF PlacedBelow, Placed
  <2>7. p + 1 \in T
    BY <1>0, <1>1, <1>6, <2>3, <2>6
  <2>8. \A y \in T : p + 1 =< y
    BY <1>0, <1>1, <1>4, <1>6, <2>3
  <2> HIDE DEF T
  <2>9. Min(T) = p + 1
    BY <1>2, <2>7, <2>8, MinIs
  <2> QED
    BY <1>2, <1>6, <2>9
<1>7. CASE Mine
  <2>1. PICK t \in pool : t.nonce = mined /\ pool' = pool \ {t}
    BY <1>7 DEF Mine
  <2>2. mined' = mined + 1
    BY <1>7 DEF Mine
  <2>3. Pooled(mined) /\ ~Pooled(p)'
    BY <1>1, <2>1 DEF Pooled
  <2>4. p # mined
    BY <1>1, <2>3
  <2>5. p \in T
    BY <1>0, <1>1, <2>2, <2>3, <2>4
  <2> QED
    BY <1>5, <2>5
<1>8. CASE ~Mine
  <2>1. mined' = mined
    BY <1>8, MinedStep
  <2>2. p \in T \/ Pooled(p)'
    BY <1>1, <2>1
  <2> QED
    BY <1>5, <1>6, <2>1, <2>2
<1> QED
  BY <1>7, <1>8

\* What the callers have been told.
Told == [c \in Acknowledged |-> calls[c].tx.nonce]

\* The caller is told a nonce of its own: it is placed, below the pending
\* count, and above every nonce told before.
LEMMA AcceptedTells ==
    ASSUME IInv, PlacementInv, [Next]_vars, NEW c \in Calls, SubmitAccepted(c)
    PROVE  /\ c \notin DOMAIN Told
           /\ \E n \in 0 .. (PendingNonce - 1) :
                /\ \A d \in DOMAIN Told : Told[d] < n
                /\ Told' = [d \in DOMAIN Told \cup {c} |-> IF d = c THEN n ELSE Told[d]]
           /\ PendingNonce' = PendingNonce /\ mined' = mined
<1>0. calls \in [Calls -> CallRecords] /\ NewCall \in CallRecords /\ nonce \in Nat
  BY BoundsAssumption, FreshCall DEF IInv, CallsInv, ServiceInv, BoundsAssumption
<1>1. /\ phase = "up" /\ calls[c].st = "reply" /\ calls[c].answer = "ok" /\ UNCHANGED chainVars
      /\ calls' = [calls EXCEPT ![c] = [NewCall EXCEPT !.st = "ok", !.tx = calls[c].tx]]
  BY DEF SubmitAccepted
<1>2. calls[c].tx.nonce = nonce
  BY <1>1 DEF IInv, CallsInv, CallInv
<1>3. calls'[c].st = "ok" /\ calls'[c].tx = calls[c].tx
  BY <1>0, <1>1 DEF CallRecords
<1>4. \A d \in Calls \ {c} : calls'[d] = calls[d]
  BY <1>0, <1>1
<1>5. PlacedBelow(nonce) /\ AboveAcknowledged(nonce) /\ Placed(nonce)
  BY <1>1 DEF PlacementInv, NonceInv, HolderInv
<1>6. nonce \in 0 .. (PendingNonce - 1)
  <2>1. nonce < PendingNonce
    BY <1>0, <1>5, PendingAbovePlaced
  <2>2. PendingNonce \in Nat
    BY BoundsAssumption, PendingNonceIsFirst DEF IInv, ChainInv, BoundsAssumption
  <2> QED
    BY <1>0, <2>1, <2>2
<1>7. Acknowledged' = Acknowledged \cup {c} /\ c \notin Acknowledged /\ Acknowledged \subseteq Calls
  BY <1>1, <1>3, <1>4 DEF Acknowledged
<1>8. \A d \in DOMAIN Told : Told[d] < nonce
  BY <1>5 DEF Told, Acknowledged, AboveAcknowledged
<1>9. Told' = [d \in DOMAIN Told \cup {c} |-> IF d = c THEN nonce ELSE Told[d]]
  <2>1. Told' = [d \in Acknowledged \cup {c} |-> calls'[d].tx.nonce]
    BY <1>7 DEF Told
  <2>2. \A d \in Acknowledged \cup {c} :
            calls'[d].tx.nonce = IF d = c THEN nonce ELSE Told[d]
    BY <1>2, <1>3, <1>4, <1>7 DEF Told
  <2>3. DOMAIN Told = Acknowledged
    BY DEF Told
  <2> QED
    BY <2>1, <2>2, <2>3
<1>10. PendingNonce' = PendingNonce /\ mined' = mined
  BY <1>1 DEF chainVars, PendingNonce, Pooled
<1>11. c \notin DOMAIN Told
  BY <1>7 DEF Told
<1> QED
  BY <1>6, <1>8, <1>9, <1>10, <1>11

\* Nothing else tells a caller anything.
LEMMA OthersAreSilent ==
    ASSUME IInv, [Next]_vars, \A c \in Calls : ~SubmitAccepted(c)
    PROVE  Told' = Told
<1>1. \A c \in Calls : calls'[c].st = "ok" <=> calls[c].st = "ok"
  BY CallAnswered, OkStays
<1>2. Acknowledged' = Acknowledged
  BY <1>1 DEF Acknowledged
<1>3. \A c \in Acknowledged : calls'[c] = calls[c]
  BY OkStays DEF Acknowledged
<1> QED
  BY <1>2, <1>3 DEF Told

\* Every step is a step of the abstract account, or none of its business.
LEMMA StepIsAccounted ==
    ASSUME IInv, RecoveryInv, [Next]_vars, Spared("drop"), Spared("drop")'
    PROVE  [Account!Next]_<<PendingNonce, mined, Told>>
<1>1. CASE \E c \in Calls : SubmitAccepted(c)
  <2>1. PICK c \in Calls : SubmitAccepted(c)
    BY <1>1
  <2>2. PlacementInv
    BY DEF RecoveryInv, NoDropInv
  <2>3. Account!Tell(c)
    BY <2>1, <2>2, AcceptedTells DEF Account!Tell, Told
  <2> QED
    BY <2>3 DEF Account!Next
<1>2. CASE \A c \in Calls : ~SubmitAccepted(c)
  <2>1. Told' = Told
    BY <1>2, OthersAreSilent
  <2>2. CASE Mine
    <3>1. PendingNonce' = PendingNonce /\ mined' = mined + 1 /\ mined < PendingNonce
      <4>1. PICK t \in pool : t.nonce = mined
        BY <2>2 DEF Mine
      <4>2. Pooled(mined)
        BY <4>1 DEF Pooled
      <4>3. PendingNonce \in mined .. MaxNonce /\ ~Pooled(PendingNonce)
        BY BoundsAssumption, PendingNonceIsFirst DEF IInv
      <4>4. mined \in Nat /\ MaxNonce \in Nat /\ mined' = mined + 1
        BY <2>2, MinedGrows, BoundsAssumption DEF Mine, BoundsAssumption
      <4>5. PendingNonce # mined
        BY <4>2, <4>3
      <4>6. PendingNonce' = PendingNonce
        BY <4>4, PendingStep
      <4> QED
        BY <4>3, <4>4, <4>5, <4>6
    <3>2. Account!Settle
      BY <2>1, <3>1 DEF Account!Settle, Told
    <3> QED
      BY <3>2 DEF Account!Next
  <2>3. CASE ~Mine
    <3>1. mined' = mined
      BY <2>3, MinedStep
    <3>2. CASE PendingNonce' = PendingNonce
      BY <2>1, <3>1, <3>2
    <3>3. CASE PendingNonce' = PendingNonce + 1
      <4>1. Account!Use
        BY <2>1, <3>1, <3>3 DEF Account!Use, Told
      <4> QED
        BY <4>1 DEF Account!Next
    <3> QED
      BY <3>2, <3>3, PendingStep
  <2> QED
    BY <2>2, <2>3
<1> QED
  BY <1>1, <1>2

LEMMA InitAccount == Init => Account!Init
<1> SUFFICES ASSUME Init PROVE Account!Init
  OBVIOUS
<1>1. IInv /\ pool = {} /\ mined = 0
  BY InitIInv DEF Init
<1>2. \A c \in Calls : calls[c].st = "new"
  BY DEF Init, NewCall
<1>3. Acknowledged = {}
  BY <1>2 DEF Acknowledged
<1>4. PendingNonce = 0
  <2>1. /\ PendingNonce \in mined .. MaxNonce /\ MaxNonce \in Nat
        /\ \A n \in mined .. MaxNonce : n < PendingNonce => Pooled(n)
    BY <1>1, BoundsAssumption, PendingNonceIsFirst DEF IInv, BoundsAssumption
  <2>2. \A n : ~Pooled(n)
    BY <1>1 DEF Pooled
  <2> QED
    BY <1>1, <2>1, <2>2
<1> QED
  BY <1>1, <1>3, <1>4 DEF Account!Init

\* relayer/README.md:8 "Enforce sequential nonce with parallel access": until
\* the node forgets a transaction, every step of the account seen through
\* submitTransaction is one of the abstract account, for any callers, check
\* runs, prices, lost and refused answers, restarts and ODIS transfers.  Its
\* nonces are used one after the other, and callers are told distinct ones in
\* increasing order.
THEOREM AccountIsImplemented == Spec => ImplementsAccount
<1>1. ASSUME IInv, RecoveryInv, [Next]_vars, Spared("drop")'
      PROVE  Account!Step
  <2>1. Spared("drop")
    BY <1>1, SparedBefore DEF RecoveryInv, Faults
  <2>2. [Account!Next]_<<PendingNonce, mined, Told>>
    BY <1>1, <2>1, StepIsAccounted
  <2> QED
    BY <2>2 DEF Account!Step, Account!vars, Told
<1>2. IInv /\ RecoveryInv /\ [Next]_vars => (Spared("drop")' => Account!Step)
  BY <1>1
<1> QED
  BY <1>2, InitAccount, InitIInv, NextIInv, InitRecovery, NextRecovery, PTL
  DEF Spec, ImplementsAccount

\* Where the node forgets nothing at all, the service implements the abstract
\* account.
THEOREM AccountWithoutDrops ==
    ASSUME Budget["drop"] = 0
    PROVE  Spec => Account!Spec
<1>1. IInv /\ RecoveryInv => Spared("drop")
  <2> SUFFICES ASSUME IInv, RecoveryInv PROVE Spared("drop")
    OBVIOUS
  <2>1. faults["drop"] \in Nat /\ faults["drop"] =< Budget["drop"]
    BY DEF IInv, ServiceInv, RecoveryInv, BudgetInv, Faults
  <2> QED
    BY <2>1 DEF Spared
<1>2. /\ IInv /\ RecoveryInv /\ Spared("drop") /\ Spared("drop")' /\ [Next]_vars
      => [Account!Next]_Account!vars
  BY StepIsAccounted DEF Account!vars, Told
<1> QED
  BY <1>1, <1>2, InitAccount, InitIInv, NextIInv, InitRecovery, NextRecovery, PTL
  DEF Spec, Account!Spec
=============================================================================
