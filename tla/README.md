# Komenci in TLA+

Komenci pays the transaction fees of users who verify a phone number on Celo
before they own anything. This directory holds TLA+ models of its services, the
TLC configurations that check them on small instances, and theorems about them
that TLAPS has checked.

* [The system](#the-system)
* [Modules](#modules)
* [What the runs check](#what-the-runs-check)
* [What is proved](#what-is-proved)
* [Where code and documents disagree](#where-code-and-documents-disagree)
* [What is not modelled](#what-is-not-modelled)
* [Plan](#plan)

## The system

Paths are below `src/packages`.

| Component | State | Operations | Talks to |
|---|---|---|---|
| **api** (`apps/api`) | rows of `session`: account, call counts, last wallet deployment; throttler records | `startSession`, `checkSession`, `deployWallet`, `distributedBlindedPepper`, `requestSubsidisedAttestations`, `submitMetaTransaction` | the mobile client over HTTP; the relayer over RPC with a timeout; a database; the node |
| **relayer** (`apps/relayer`) | in memory: next nonce, gas price, watch list, nonce mutex | `submitTransaction(Batch)`, the check timer, the gas price timer, dead letters, ODIS queries and quota replenishing | api and rewards over RPC; the node; ODIS |
| **rewards** (`apps/rewards`) | rows of `invite_reward`, `notified_block`, attestations and address mappings; in memory: the transfers being watched | event polling, reward creation, first send, `checkWatchedInvites`, `checkFailedInvites` | the node; the relayer over RPC with a timeout; a database shared by several processes |
| **komencikit** (`libs/komencikit`) | a session token | the client's flows, with retries inside retries | the api; the node |
| **libraries** (`libs/*`) | throttler records, none otherwise | throttling, funding, logging, analytics, configuration | |
| **cli** (`apps/cli`) | none | operator commands: fund relayers, manage the deployer | the node |

What is hard in each, and what makes it correct:

* **relayer, transaction service.** Callers submit in parallel from one account
  whose nonces must be consecutive. The next nonce lives in memory and is
  corrected from the node when the node disagrees; the watch list lives in
  memory and is rebuilt from the node's pool after a restart; check runs overlap
  because their timer does not wait for the previous one; answers of the node
  get lost; the ODIS service sends from the same account behind the service's
  back. Correct means: no nonce is handed out twice, no nonce is forgotten,
  and everything watched gets through.
* **rewards, reward sender.** A row is written after a remote call that may have
  succeeded without an answer; two jobs, in several processes, follow the same
  rows, one under row locks and the other not. Correct means: paid at most
  once, `Completed` only if paid, settled in the end.
* **rewards, event polling.** Several processes move one cursor. Correct means:
  no event is skipped, the cursor never moves back, every event is handled.
* **rewards, invite reward service.** Several processes check the conditions of
  one reward at the same time, on rows that other polls are still storing; the
  weekly limit is counted before the row is inserted; errors of the insertion
  are swallowed. Correct means: one reward per invitee and phone number, only
  deserved ones, the limit overrun by a bounded number, no withdrawal lost.
* **api, sessions.** Every request works on a copy of its session's row that it
  read when it authenticated, and in the end writes the whole copy back. Correct
  means: the quota bounds what a session gets, nobody is charged for what was
  not done, one wallet deployment at a time.
* **api, front door.** `ready` and `startSession` share a throttle whose record
  is read in one await and added in another; the gateway runs its rules in
  parallel, and one of them uses up a captcha; meta-transactions nest, and their
  batches are cut by lengths the client sends. Correct means: the limit holds
  per period, `ready` keeps its promise, only verified requests get sessions,
  what is let through executes nothing but what the filter allows, and nothing
  else is refused.
* **relayer, ODIS service.** Queries race a timeout but go on when it wins, and
  share a quota that each of them replenishes on its own. Correct means: only
  competition or a timeout makes a call fail for lack of quota.
* **komencikit.** A call retries requests inside a method that is retried, over
  a network that loses requests and answers and transactions that are mined
  late. Correct means: every call returns, a signature is executed once however
  often it is sent, `Ok` means executed, an `Unauthorised` answer ends it.

`PROJECT.json` lists the hazards one by one, at the line where each bites.

## Modules

| Module | Models | Composed of |
|---|---|---|
| `TransactionService` | the relayer's transaction service, the node it talks to and ODIS' transfer | |
| `RelayerAccount` | abstract: nonces are used without a gap, each caller is told one of its own, above all told before | implemented by `TransactionService` |
| `RewardSender` | reward creation, first send and both cron jobs of several rewards processes | |
| `RewardPayment` | abstract: one attempt to pay a reward at a time, none after it is paid | implemented by `RewardSender` |
| `EventPolling` | the shared cursor and the polling loop of several rewards processes | |
| `Session` | sessions, quota and wallet deployment of the api | |
| `InviteReward` | several processes that handle withdrawals, check the conditions and create rewards | its rows feed `RewardSender` |
| `RewardLedger` | abstract: a grant is final, one per invitee and per phone number | implemented by `InviteReward` |
| `FrontDoor` | throttler, gateway rules, the endpoints without session state | `MetaTransaction`, `Odis` |
| `MetaTransaction` | decoding, filters and what the wallet contract executes, as operators | |
| `Odis` | the relayer's query for a pepper and the quota of its account | |
| `KomenciKit` | the client's flow, with api, node and contracts as its environment | |
| `MC...` | the same for TLC: budgets and quotas as numbers, symmetry | each extends its module |
| `NaturalsLemmas` | what `Min` and `Max` of two numbers are; induction over the naturals and what a recursive function over a segment of them is | |
| `TransactionServiceProofs`, `RewardSenderProofs`, `EventPollingProofs`, `SessionProofs`, `InviteRewardProofs`, `FrontDoorProofs`, `KomenciKitProofs` | theorems | each extends its module |

Common conventions. An action is what a handler does between two awaits; the
state `st` of a call, run, task, request or transaction names the await it is
in. Things the code reads before an await and uses after it are fields of that
record. `Budget` bounds how often each fault happens; nothing obliges a fault to
happen. Definitions whose comment says "Mutant of the next definition" are not
part of the specification: each shows that some property notices a plausible
mistake in the definition that follows it.

### TransactionService and RelayerAccount

`nonce`, `gasPrice`, `nonceLock` and `watched` are the members of the service
(`watchedTransactions` and `transactions` always change together and are one
function from transaction to cached price). `phase` is the await of
`onModuleInit`. A call goes through `Submit`, `SubmitSends` (lock taken, node
receives), `SubmitAccepted` or `SubmitFailed`, and `ResyncReads`,
`ResyncApplies`, `ResyncFails` for `updateNonce`; `Retried` is the `@retry`
decorator. A check run goes through `CheckStarts`, `CheckSummaries`,
`CheckBalance` (only if something completed), `CheckExpired`, `CheckFinalizes`
or `CheckAborts`; its dead letters are tasks with `DeadLetterSends` and one
action per answer. `Restart` loses everything in memory.

Abstractions. A transaction is its nonce, price and author, and stands for its
hash: signing is deterministic. Prices are levels of a logarithmic scale: one
level is the factor 1.4 a dead letter adds. Whether a transaction has outlived
its timeout is a free choice per check. The node keeps at most one transaction
per nonce, replaces it by a better paid one, answers with the strings the code
matches, and mines in the order of nonces. `Drop` and `isExpired` leave
transactions of the highest level alone: in the model nothing could outbid them.

`RelayerAccount` is what the relayer's README promises, "Enforce sequential nonce
with parallel access". Its `used` is the node's pending count, its `settled` is
`mined`, and `told` gives each acknowledged caller the nonce of its transaction.
A retry, a dead letter, a restart and whatever a check run does are stutters of
it; a submission, an ODIS transfer or one whose answer is lost is a `Use`.

### RewardSender and RewardPayment

The k-th transfer asked of the relayer for a reward stands for its hash, 0 is the
null hash. A call that times out leaves an `Abandoned` transfer: the timeout only
wins a race, and `LateTransfer` is the relayer sending it at any later time, if
ever. `rows` and `lock` are the database; `first` is the send fired by
`handleWithdrawalEvent`, which nobody awaits; `watched` and `checking` belong to
`checkWatchedInvites`, `retrying` to the transaction of `checkFailedInvites`.
`NOWAIT` makes the whole query fail when another process holds a selected row.
Updates outside the transaction wait for the row lock. `Ages` happens only after
the first send is over: the relayer call is cut after seconds, rows are selected
after 30 minutes. `RetryRollsBack` ends the transaction of `checkFailedInvites` at
any moment, and the run with it: a database that frees the locks while the run
still sends is not modelled.

`RewardPayment` has the attempts to pay a reward, one at a time. A reward is
`underway` while a transfer for it has neither completed nor failed, and `paid`
when one has completed: `PaymentState` reads that from the transfers there are,
not from the rows, so that the refinement says that the rows, copies and watchers
of the code are enough to know it.

### EventPolling

`polls[n]` is the run of process n; its states are the awaits of
`runUsingLastNotifiedBlock` and `fetchAndProcessEvents`. `PollFails` is any
rejected call or handler, or a restart: all of them end the run and leave the
cursor. `start` is a ghost: the block the cursor was created with.

### Session

`requests[r].meta` is the copy of the row; `incrementUsage` and `RecordDeploy`
write it back with one field changed. `served`, `lost` and `overlapped` are
ghosts: what the relayer executed, the part of it whose usage was never written
(a timeout, a failed update), and the sessions that ever had two requests open
at once. An address is spelled with or without capitals, because `create` stores
`normalizeAddress` of it and `findLastForAccount` compares with `trimLeading0x`.
`careless` is a ghost too: a client did not wait for an answer, or spelled its
address with capitals. A request whose relayer call timed out has answered its
client and is `abandoned`; `LateExecution` is the relayer executing it at any later
time, if ever, when the client may have sent it again already. Validation of wallets and transactions, errors of the relayer and the node's
`null` for an unknown deployment are all `Rejected`: the handler ends without
having written anything.

### InviteReward and RewardLedger

`handling[n]` is process n's run of `handleWithdrawalEvent`; the four conditions
are checked in parallel, so their answers come in any order, and
`isAddressVerified` itself is three awaits (mappings, attestations, chain) of
which the last is one per candidate. A scenario fixes which events the three
contracts emit; when an attestation is verified, stored or revoked is free.
`NotConsumed` ends a poll anywhere: the next one starts behind the shared
cursor, which `EventPolling` shows to be no further than the handled events.
`fired` is the sequence of rewards whose sending was started by the handler, so
that the same one started twice is there twice; a row whose
process dies before that, or whose insertion succeeded with a lost answer, is sent
by `checkFailedInvites`, which is `RewardSender`. A week is the value of `date_trunc('week', current_date)`.

`RewardLedger` has one action, `Grant`, which appends a reward that clashes with
none before: neither its invitee nor its phone number has been granted one.
`InviteReward` implements it with `granted <- fired`: what the database promises
about rows carries over to sendings only because no process fires a row it has not
inserted, and fires the one it has inserted once.

### FrontDoor, MetaTransaction and Odis

`load` fixes what each request asks for. A throttler record is its expiry time.
Every record has a timer, and a timer that fires takes away the first record:
`Tick` removes as many from the front as are due. A request between
`ReadRecords` and `AddRecord` has passed the check and is not counted yet: `peak`,
a ghost, is the most requests that were there at once.
Every rule is an action of its own; a token is `spent` when the captcha service
accepted it, whatever became of the answer. An error of the device's rule answers
the request at once (`Rejected`), while that of the captcha still goes on.

A raw transaction is its target, method, whether its data decodes, and one child
that is a call, or a batch. A batch is what `executeTransactions` carries:
destinations (which stand for the values too), data and a sequence of lengths. The
selector of a call is one unit of the data instead of four bytes. `parse` is the
code's walk, which cuts the data at offsets. The lengths are declared as `number[]`
in `decode-txs.ts:38`, but `ethereum-input-data-decoder` (0.3.2 in `yarn.lock`)
delivers a `uint256[]` as big-number objects, as line 59 takes into account for the
values, which are of the same type. So `dataLength === 0` never holds, and
`offset + dataLength` is a string: `Concat` puts the digits of the length behind
those of the offset. `Executed` is what the wallet contract makes of the same data,
taking each call from the front of what is left (`Rest`), and `Reverts` when the
contract refuses it.

`Odis` is one call of `getPhoneNumberSignature` per request: a query that loses
the race against the timeout is counted in `late` and may still be charged.
`FrontDoor` adds the api's side: the answer, or the timeout of the RPC, after
which the relayer goes on alone. With the default values the api gives up (5 s)
before the relayer's query does (10 s).

### KomenciKit

`flow` is a sequence of calls as the example makes them; `call` is the one in
progress, with the number of the method's try and of the request's try. A
request may fail before it reaches the api, or its answer may be lost after the
api has acted. A submitted transaction carries the nonce it was signed with, and
the contract executes a signature only if its nonce is the wallet's. Each call's
receipt is awaited in `awaited`; transactions whose caller no longer waits are
`others`, and are mined all the same.

## What the runs check

| Run | Properties | Instance |
|---|---|---|
| `tx_nonce` | `AcknowledgedNoncesDistinct`, `NoStrandedNonce`, `ImplementsAccount` | two callers, two tries, a lost and a refused answer, a failed read, a restart, an ODIS transfer |
| `tx_watch` | `TypeOK`, `AcknowledgedIsCovered`, `WatchNeverLosesNonce` | two overlapping check runs, a dropped transaction, a lost answer, a changing minimum, a failed read, a restart at any moment whose pool lookup may fail |
| `tx_live` | `WatchedGetsThrough` | one caller with the code's three tries, three nonces, one check run, a changing minimum, a dropped transaction, a lost answer, an ODIS transfer |
| `tx_stall` | `ExecutionDoesNotStall` (violated) | a restart whose pool lookup fails |
| `reward_faults` | `TypeOK`, `CompletedIsPaid`, `ResendOnlyAfterFailure`, `DoubleRewardNeedsLoss`, `ImplementsPayment` | two processes, three transfers, one fault of each kind; what timed out may be sent later |
| `reward_settles` | `RewardIsSettled` | one process, three rewards, a query that takes two of them, two transfers each; one reward was stuck before the start, one more transfer may be replaced |
| `reward_timeout` | `NoDoubleReward` (violated) | one timeout |
| `polling` | `TypeOK`, `NoEventSkipped`, `CursorNeverMovesBack`, `EventsAreHandled` | two processes, five blocks, batches of two, a failed run |
| `session_quota` | `TypeOK`, `NeverOvercharged`, `QuotaIsEnforced`, `OneSessionWithQuota`, `WalletIsReported`, `OneDeployAtATime` | four requests, two sessions, two deployments, two implementations; what timed out may be executed later |
| `kit_flow` | `TypeOK`, `CallsReturn`, `UnauthorisedStops`, `ExecutedOncePerTry`, `OkMeansExecuted` | the calls of the example's flow, two tries of a request in each of two tries of a method |
| `invite_reward` | `TypeOK`, `RewardsAreDeserved`, `WeeklyLimitOverrun`, `ConsumedIsAccountedFor`, `ImplementsLedger` | two processes, a limit of one; four scenarios of two to four withdrawals, among them one phone number of two invitees and one invitee with two phone numbers, with a new week, a failed reward, a crash, failing lookups, insertions that fail or whose answer is lost, a revocation |
| `api_front` | `TypeOK`, `LimitPerPeriod`, `ReadyIsKept`, `SessionsAreVerified`, `OnlyAllowedIsExecuted`, `AllowedIsLetThrough`, `OutOfQuotaOnlyIfDisturbed` | a rush of four requests at a limit of two per period; every pair of logins; every transaction with a batch of up to two calls, and batches of three; two pepper queries with a quota of one |

Why the bounds are enough. The nonce lock, the row locks and the cursor are
contended by two actors, and a third would only repeat what the second does; the
theorems below confirm that for every number of them where they apply. Two tries
show a retry after each kind of error. Three price levels let a dead letter
outbid a transaction and a second one outbid the first. Three transfers are one
more than the code intends. `polling` starts its cursor at the latest block,
which in the model may be any block from the first one on, so it covers a start
at genesis too. Four requests are one to start the session and three to use it:
enough for a lost update, for the quota of two to be overrun by the last
request, and for a deployment, another request that has to carry it over, and a
second deployment. In `tx_live` the three tries and three nonces are what it takes
for a watched nonce to end up behind one that nobody watches: a lost answer for the
first, an ODIS transfer for the second, and the third is the caller's. (With a
failed read as well, 562,358 states, and with two callers of one try each instead
of the lost answer and the transfer, 414,814 states, `WatchedGetsThrough` holds
too; these take longer than a run may.) In `reward_settles` a query takes two of
three rewards: one place in it is taken for ever by the reward that was stuck
before, and when the second transfer is replaced the third reward starves, which
the property allows from then on. Without that condition, and without the one on
the stuck rewards themselves, TLC finds both. Two processes racing for a row are
in `reward_faults`. `invite_reward` has a limit of one, so that the second process
overruns it, and a third withdrawal that would overrun it again. A batch of two
calls is the shortest in which one call's length can move into the data of the
other, one of three the shortest whose offsets come out wrong. Two pepper queries with a quota of one are a queue for it. In `kit_flow`
two tries inside two tries show a retry of each kind and its end, and the flow is
the whole flow of the example. Faults appear once each: the second of a kind meets the same
states as the first.

Fairness. `TransactionService` is weakly fair for the node's mining, timers and
every continuation of a promise. It is strongly fair for the mutex, which queues
its waiters, and for the expiry check: a transaction that stays unmined is found
to have outlived its timeout by some run, because time passes. `RewardSender` is
weakly fair for cron jobs, node and relayer, and strongly fair for updates that
wait for a row lock, since the database queues the waiters. `EventPolling` is
weakly fair for the chain and the cron jobs. Callers, faults and price changes
are never fair. `KomenciKit` is weakly fair for the client alone: its requests
are answered or fail, and its polling for a receipt has a timeout, so that a call
returns although nothing obliges the chain to mine. `Session`, `InviteReward` and
`FrontDoor` state no fairness: their properties are about what may not happen.

Deadlock is checked for `TransactionService` and `EventPolling`, whose timers
always run. The others may stop: when every reward is settled, every request
of the bounded set answered, every withdrawal of the scenario handled or the flow
finished, nothing is left to do, so their configurations say
`CHECK_DEADLOCK FALSE`.

Some properties depend on what does not happen, and say so in their definition.
`AcknowledgedIsCovered` is claimed after a restart only if the pool could be
looked up and the node had dropped nothing (`Recoverable`); otherwise there is
nothing the watch list could be rebuilt from. `NoStrandedNonce` needs in addition
that no answer was lost and ODIS sent nothing: the node counts such a transaction
and nobody watches it. `AcknowledgedNoncesDistinct` is violated when the node
drops a transaction and the service then restarts: the pending count falls back
below a nonce that was acknowledged; `tx_nonce` has no drops. For the same
reason `ImplementsAccount` says that the account is implemented step by step
until something is dropped, and `ImplementsPayment` that the payment is until an
answer or a write is lost (`Lossless`), which is what `reward_timeout` loses.
`tx_nonce` has no check runs: that dead letters leave the abstract account alone
is shown by the theorem, not by the run.
`WatchedGetsThrough` says that a watched nonce is mined unless, from some time on,
a nonce below it is always missing that nobody watches (`Blocked`): the code
watches what it was told the hash of, and nothing else.
`RewardIsSettled` leaves out rewards with a replaced transfer (`Stuck`), which is
asked for for ever, and all rewards as soon as these fill a query.
`OnlyAllowedIsExecuted` and `AllowedIsLetThrough` are about transactions that are
not a batch, or a batch of at most two calls (`TwoCallsAtMost`), the first one also
without a call of length 0 behind one that has data (`DataInOrder`): of these the
parser cuts the data where the wallet does. What it does with the others is below.
`LimitPerPeriod` adds `peak` to the limit: requests that are between reading and
adding a record at once pass on the same count, so the limit is kept when they
come one by one and overrun by one for each further request that races.

`QuotaIsEnforced`, `OneDeployAtATime`, `OneSessionWithQuota` and `WalletIsReported`
are about sessions whose requests do not overlap. For overlapping ones they do not
hold: two requests pass the quota check on the same counts, and a request that
finishes later writes back a row without the other's usage or deployment.
`OneDeployAtATime` is about the last deployment the client was told of, and about
requests it waits for: the relayer may still come to a request that has timed out
when the client's second one has been deployed and recorded (`ForAbandoned`), and
without that condition TLC finds the two deployments. Quota is also per session, not per
account: `startSession` creates a new one as soon as one action is used up.

## What is proved

All type invariants, all safety invariants the passing runs check, all five
action properties, and the refinements of `RelayerAccount`, `RewardPayment` and
`RewardLedger`, for all values of the constants. Each theorem has the form `Spec => []Inv`, from an inductive
invariant that TLC has checked on the instance of the run first. The assumptions
are the named ones the modules declare. They say that bounds are natural numbers,
that prices in the configuration are levels, that markers such as the free lock
or "no instance" are not members of the sets they are added to, and:

* `SenderAssumption`, `RewardAssumption`: finitely many rewards and processes; a
  scenario's withdrawals are a sequence, its mappings pairs of account and wallet;
* `KitAssumption`: a flow is a sequence of calls that is not empty;
* `FrontAssumption`: there are finitely many requests, each with a known endpoint,
  device and set of rules; what the decoder makes of a batch (`IsBatch`) are
  sequences of destinations, data and lengths, whose values are natural numbers;
* `OdisAssumption`: the query is tried at least twice. With one try a call ends
  out of quota after its own transfer; the code's decorator says two.

| Module | Theorem | Property |
|---|---|---|
| `TransactionServiceProofs` | `TypesHold` | `TypeOK` |
| | `WatchListKeepsNonces` | `WatchNeverLosesNonce` |
| | `NoncesAreDistinct` | `AcknowledgedNoncesDistinct`, if the node drops nothing |
| | `AcknowledgedStaysCovered` | `AcknowledgedIsCovered` |
| | `NoNonceIsStranded` | `NoStrandedNonce` |
| | `AccountIsImplemented` | `ImplementsAccount` |
| | `AccountWithoutDrops` | `RelayerAccount` is implemented, if the node drops nothing |
| `RewardSenderProofs` | `TypeCorrect` | `TypeOK` |
| | `CompletedWasPaid` | `CompletedIsPaid` |
| | `PaidOnceWithoutLoss` | `DoubleRewardNeedsLoss` |
| | `ResendsAfterFailure` | `ResendOnlyAfterFailure` |
| | `PaymentIsImplemented` | `ImplementsPayment` |
| | `PaymentWithoutLoss` | `RewardPayment` is implemented, if no fault but a replaced transfer happens |
| `EventPollingProofs` | `TypesHold` | `TypeOK` |
| | `NothingIsSkipped` | `NoEventSkipped` |
| | `CursorIsMonotonic` | `CursorNeverMovesBack` |
| `SessionProofs` | `TypeCorrect` | `TypeOK` |
| | `ChargedWhatWasServed` | `NeverOvercharged` |
| | `QuotaHolds` | `QuotaIsEnforced` |
| | `OneUsableSession` | `OneSessionWithQuota` |
| | `WalletReported` | `WalletIsReported` |
| | `DeploysOneAtATime` | `OneDeployAtATime` |
| `InviteRewardProofs` | `TypeCorrect` | `TypeOK` |
| | `EveryRowIsDeserved` | `RewardsAreDeserved` |
| | `LimitIsNearlyKept` | `WeeklyLimitOverrun` |
| | `NothingDisappears` | `ConsumedIsAccountedFor` |
| | `LedgerIsImplemented` | `ImplementsLedger` |
| `FrontDoorProofs` | `TypeCorrect` | `TypeOK` |
| | `LimitIsKept` | `LimitPerPeriod` |
| | `ReadyIsATruePromise` | `ReadyIsKept` |
| | `OnlyVerifiedSessions` | `SessionsAreVerified` |
| | `TransferIsNotInVain` | `OutOfQuotaOnlyIfDisturbed` |
| | `WalletExecutesAllowed` | `OnlyAllowedIsExecuted` (batches of at most two calls, any lengths and data) |
| | `NothingElseIsRefused` | `AllowedIsLetThrough` (the same) |
| `KomenciKitProofs` | `TypeCorrect` | `TypeOK` |
| | `OkWasExecuted` | `OkMeansExecuted` |
| | `OneExecutionPerTry` | `ExecutedOncePerTry` |
| | `UnauthorisedEnds` | `UnauthorisedStops` |

The arguments:

* **`TransactionServiceProofs`.** `IInv` holds under all faults and says what
  every record in flight may rely on after its awaits: mined transactions have
  nonces below `mined` (`ChainInv`); a call that waits for the node holds the
  lock, and `this.nonce` is the nonce it sent (`CallsInv`); the nonces of a run's
  completed transactions are mined, a dead letter has the nonce of the
  transaction it replaces, and an answer "nonce too low" is still true when it is
  acted on (`RunsInv`). So whatever a stale run takes off the list is mined or
  has just been replaced on it.

  `NoDropInv` holds until the node drops a transaction: an accepted transaction's
  nonce stays taken, mined or in the pool, so that the pending count never falls
  back to an acknowledged nonce; with the lock this makes `this.nonce` exceed all
  of them, across restarts, lost answers and foreign transactions.

  `RecoveryInv` is about the watch list. While the service is up, whatever enters
  the pool carries the nonce of a call that holds the lock (`InFlight`), or one
  that a check run took from the list and that stays covered (`ChecksInv`).
  A restart forgets the list. Until then nothing was sent before the first start
  (`FreshInv`); afterwards the list is rebuilt from the pool, but only from the
  transactions the node counts as pending, those without a gap below them.
  `GaplessInv` shows that these are all: every nonce that anybody may still send,
  replace or watch has only taken nonces below it.

  The refinement of `RelayerAccount` needs both, along a run in which nothing is
  dropped. As the pool has no gap (`GaplessInv`), an accepted transaction moves the
  pending count by one or, being a replacement, not at all (`DeliverAdds`,
  `PendingStep`), and mining moves only `settled`. A step acknowledges one caller
  at most, and its nonce is taken and above all that were acknowledged before
  (`AcceptedTells`).
* **`RewardSenderProofs`.** What rows, copies, the first send and the watchers
  remember was really sent, and what they have learned about it is so
  (`KnowledgeInv`). Up to its send the retrying transaction's copy is the row; from
  the send to the commit it is ahead of it, and the lock keeps others from sending
  (`LockInv`). As long as no answer is lost, the row, the copy or the first send
  names the last transfer there is, and all transfers before it have failed
  (`LastIsKnown`). So whoever is about to send has seen that all transfers of the
  reward have failed, and no other process can have sent since: in terms of
  `RewardPayment` the reward is due, which is all that its refinement needs.
* **`EventPollingProofs`.** `NoEventSkipped` is not inductive: what a run will
  save depends on what it has fetched. The invariant adds, for every run, that
  the events between the start and the block its batch begins at are handled
  (`RunInv`): behind its first block because the cursor it read was safe, from
  there on because it handled them; and, for a run that has fetched, that the
  events of the batch are either handled or still to do. Other processes only add
  to `handled` and move the cursor forward, so they cannot disturb it.
* **`SessionProofs`.** A handler works on a copy of its session's row. For a
  session that never had two requests open the copy is the row (`CopyInv`), and
  the row and the open request together account for all that was executed
  (`LedgerInv`); a request has passed the quota check on that copy (`GuardInv`).
  For the other sessions a copy is a row there once was, never ahead of what was
  executed (`ChargeInv`). `AccountInv` says that a session about to be created is
  the only usable one of its account; `DeploymentInv` and `WalletInv` tie the
  deployment in the row to the last one the client was told about. A request that
  has timed out counts for none of this: what the relayer executes for it later is
  `lost`, as if it had been executed before the timeout.
* **`InviteRewardProofs`.** The ledger compares the rewards whose sending was
  started; the code compares rows. `LInv` says that the people of the rows differ
  in both columns (`RowsInv`), that whoever was rewarded has a row, and that a
  process about to start a sending does it for a row that no other process is
  about to use and that nobody has been rewarded for (`FiringInv`). The conditions
  that were checked before do not occur in it: the unique columns alone keep that
  promise. `IInv` is about those conditions: `RunsInv` says what a run has found
  so far, and that it stays true of the attestations there ever were; `WeekInv`
  counts, for each inviter, the rows and the processes that have passed the limit
  together; their sum exceeds the limit by at most the number of the other
  processes.
* **`FrontDoorProofs`.** The records are the last admissions, in their order and a
  `ttl` later, and every admission without a record is over (`RecordsInv`); the
  records and the requests about to add one are together fewer than the limit and
  `peak`, because each of them found room for it when it read (`LimitInv`). What a request has been found to satisfy stays so, and each
  captcha token was spent by the request that passed with it (`RulesInv`). A query
  that nobody has disturbed finds the quota its own transfer has added
  (`OdisInv`). What was relayed was let through and what was refused was not
  (`RelayInv`); the rest is about the operators of `MetaTransaction`. The first two
  offsets of a batch are 0 and the first length, because digits put behind a zero
  are a number (`ConcatBounds`), and what is put behind a length is no less than it.
  So in a batch of two calls the code and the contract see the same method in
  each, as long as no length exceeds what is left (`MethodOfPart`, `CallAgrees`).
  When one does, the contract reverts and nothing executes. When the second length
  is 0 the code sees the method of what lies behind, and an allowed one has data
  (`AllowedHasData`).
* **`KomenciKitProofs`.** A signature whose nonce is the wallet's belongs to a try
  of its step that has not been executed yet (`NonceInv`), because a try signs
  with the nonce of the moment and the wallet's nonce only grows: executing one
  makes every copy of it stale. `PlaceInv` says where a call is while it awaits,
  and that an awaited receipt of success is that of the step the client is at.

Only model-checked:

* `WatchedGetsThrough`, `RewardIsSettled`, `EventsAreHandled`, `CallsReturn`:
  liveness. The prover has no support for fairness and `ENABLED`.

`NaturalsLemmas` states induction for a set of naturals instead of an operator,
which the installed provers cannot instantiate, and `Recursion` shows that a
function defined by recursion over a segment of them exists, so that its equation
can be used.

## Where code and documents disagree

1. `tx_stall`. The relayer's README: "Dead-letter transactions to ensure
   execution doesn't stall". When `txpool_content` fails at start,
   `getPendingTransactions` returns nothing: pending transactions of the previous
   process are not watched, and one below the minimum blocks the account. It takes
   no restart: the transfer of the ODIS service, and a transaction whose answer was
   lost, are watched by nobody either. Dropped by the node, or below a minimum that
   has risen, such a one blocks the watched nonces behind it, whose dead letters
   cannot be mined. `ExecutionDoesNotStall` fails in the instance of `tx_live`, too;
   `WatchedGetsThrough` is what holds there.
2. `reward_timeout`. The rewards README: "recorded in a database to avoid double
   spending". A relayer call that times out after the relayer sent leaves no
   hash; `checkFailedInvites` takes that for a failure and pays again.

Observed while modelling, without a run of their own:

* A batch of three calls is read at a wrong offset from the third call on: lengths
  68, 68 and 68 give the offset 6868. An allowed batch is refused then, although the
  client library is there to "submit arbitrary allowed meta transactions via
  Komenci" (`komencikit/README.md:14`); and what the parser reads and what the
  wallet executes may differ, as they may when a call of length 0 follows one with
  data. The tests have batches of two calls with data
  (`tx-parser.service.spec.ts:150` and `:168`), which come out right.
* More than one retry of a reward, when `checkFailedInvites` meets a failed retry
  before `checkWatchedInvites` does, or after a restart
  (`rewardSender.service.ts:28` says "we retry only once").
* The watcher of an earlier, failed transfer updates the row by id and can turn
  `Completed` into `DeadLettered` (`rewardSender.service.ts:102`). The reward has
  been paid once all the same.
* A transfer the relayer dead-lettered never has a receipt, so its reward stays
  `Submitted`, and keeps its place in the limited query.
* `checkSession` returns a wallet "if one was deployed during the session"
  (`kit.ts:101`), but only until the deadline of the deployment
  (`wallet.service.ts:143`); `WalletIsReported` is about the time before it.
* `startSession` with an address that contains capitals never finds the open
  session. Quota is per session: an exhausted one is replaced at once.
* The weekly limit is counted before the row is inserted and does not count
  failed rewards, which are sent again: it can be overrun
  (`inviteReward.service.ts:243`; `WeeklyLimitOverrun` bounds by how much).
* A submission whose receipt timed out may still be executed; the retry of it
  then ends in `Revert`, so that an error does not mean "not executed"
  (`kit.ts:450`).
* A rejected `replenishQuota` leaves the retry loop, because the decorator only
  looks at results; and with the default timeouts the api has given up before the
  relayer's first query does.
* `device-check.service.ts:39` accepts a device when the service does not answer
  200.

## What is not modelled

* The calls to ODIS, captcha and device services, the node and the contracts are
  external: their answers are free choices, restricted to what they promise.
* The operator commands (`fund`, the deployer) and the funding service: one pass
  without shared state, retry or recovery.
* Logger, analytics, configuration, DTO validation and contract artefacts: no
  state, or pure output. The load test is a driver.
* In `MetaTransaction`, destinations and values that differ in number.
* A library's or node's misbehaviour beyond what the modules name: the database
  connection lost under a `checkFailedInvites` that goes on sending, an HTTP request
  of the client that neither returns nor fails.
* Some steps are coarser or finer than the code, where that allows at least what the
  code does or the difference is not seen: a price is read and assigned in one step by a
  caller that waits for it (`UpdateGasPrice`; the timer's two are apart), the nonce
  lock is released with the answer, the throttler compares when it reads
  (`ReadRecords`) and adds in a step of its own, requested attestations are whole
  numbers.
* `signPersonalMessage` of the relayer, which the api's controller never calls.

`PROJECT.json` lists every component with its status.

## Plan

A relayer whose dead letters replace transfers, composed with `RewardSender`: today
`TransferReplaced` may take any pending transfer, while in `TransactionService` a
dead letter needs a transaction that has outlived its timeout. The reward that
stays `Submitted` would then be a consequence of the two modules together.
