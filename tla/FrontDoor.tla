------------------------------ MODULE FrontDoor ------------------------------
(***************************************************************************)
(* What the API lets in: the throttler and the gateway's rules in front of *)
(* startSession, the parser in front of the relayer, and the query for a   *)
(* pepper, which the relayer passes on to ODIS.                            *)
(*   packages/libs/throttler/src/komenci-throttler.guard.ts                *)
(*   packages/apps/api/src/gateway/gateway.service.ts and rules/           *)
(*   packages/apps/api/src/app.controller.ts                               *)
(*   packages/apps/api/src/relayer/relayer_proxy.service.ts                *)
(*                                                                         *)
(* One process of the API.  The records of the throttler are in its        *)
(* memory; a record is removed when its ttl is over.  The third parties    *)
(* that verify captchas and devices are external.                          *)
(***************************************************************************)
EXTENDS MetaTransaction, Odis

CONSTANTS
    Loads,        \* what clients send: request |-> endpoint and its parameters
    Limit,        \* throttleConfig.limit
    Ttl,          \* throttleConfig.ttl
    EnabledFor(_), \* rulesConfig: sets of rules that may be enabled for a load
    BypassToken,  \* the captcha token that is always accepted
    Transactions, \* raw transactions clients may send to submitMetaTransaction
    Subsidised,   \* and to requestSubsidisedAttestations
    MaxTime       \* bound

Rules == {"DAILY_CAP", "CAPTCHA", "DEVICE_ATTESTATION", "SIGNATURE"}
Endpoints == {"ready", "startSession", "submitMetaTransaction", "requestSubsidisedAttestations",
              "distributedBlindedPepper"}
Devices == {"android", "ios", "none"}

ASSUME FrontAssumption ==
    /\ Limit \in Nat \ {0} /\ Ttl \in Nat \ {0} /\ MaxTime \in Nat
    /\ \A l \in Loads :
        /\ IsFiniteSet(DOMAIN l)
        /\ EnabledFor(l) \subseteq SUBSET Rules
        /\ \A r \in DOMAIN l : l[r].endpoint \in Endpoints /\ l[r].device \in Devices
    /\ \A tx \in Transactions \cup Subsidised :
        isCallTo(tx.child, "executeTransactions") /\ tx.child.decodes => IsBatch(tx.child.batch)

VARIABLES
    load,      \* request |-> its endpoint, captcha token, device and signature
    enabled,   \* the enabled rules
    requests,  \* request |-> its progress
    now,       \* the clock, in units of ttl
    records,   \* expiry times of the records of 'start-session'
    spent,     \* captcha tokens the captcha service has accepted (external)
    relayed,   \* transactions the relayer was asked to send
    refused,   \* ghost: transactions that submitMetaTransaction has refused
    admitted,  \* ghost: when startSession requests passed the throttler
    promised,  \* ghost: ready was answered, and nothing admitted since
    peak       \* ghost: the most requests so far between reading and adding a record

gateVars == <<load, enabled, odisVars>>
doorVars == <<load, enabled, now, records, spent, relayed, refused, admitted, promised, peak>>
vars == <<doorVars, requests, odisVars>>

New == [st |-> "new", pending |-> {}, ok |-> TRUE]

Set(r, q) == requests' = [requests EXCEPT ![r] = q]
Answer(r, st) == requests' = [requests EXCEPT ![r] = [New EXCEPT !.st = st]]

-----------------------------------------------------------------------------
(* ThrottlerGuard *)

\* Mutant of the next definition: the limit is checked after it is exceeded.
ThrottledLate(length) == length > Limit

Throttled(length) == length >= Limit

\* Mutant of the next definition: every endpoint counts.
checkOnlyNever(endpoint) == FALSE

checkOnly(endpoint) == endpoint = "ready"

\* The requests that have read the records and are about to add one.
Adding == {r \in DOMAIN load : requests[r].st = "add"}

\* getRecord, and the comparison.  A request is admitted once its record is
\* added, an await later; ready adds none.
ReadRecords(r) ==
    /\ requests[r].st = "new" /\ load[r].endpoint \in {"ready", "startSession"}
    /\ IF Throttled(Len(records)) THEN Answer(r, "429")
       ELSE IF checkOnly(load[r].endpoint) THEN Answer(r, "200") ELSE Set(r, [New EXCEPT !.st = "add"])
    /\ promised' = (promised \/ (load[r].endpoint = "ready" /\ ~Throttled(Len(records))))
    /\ UNCHANGED <<gateVars, now, records, spent, relayed, refused, admitted>>
    /\ peak' = IF Cardinality(Adding') > peak THEN Cardinality(Adding') ELSE peak

\* addRecord, and the gateway starts all enabled rules.
AddRecord(r) ==
    /\ requests[r].st = "add"
    /\ records' = Append(records, now + Ttl)
    /\ IF load[r].endpoint = "ready" THEN Answer(r, "200") /\ UNCHANGED <<admitted, promised>>
       ELSE /\ admitted' = Append(admitted, now) /\ promised' = FALSE
            /\ Set(r, [New EXCEPT !.st = "rules", !.pending = enabled])
    /\ UNCHANGED <<gateVars, now, spent, relayed, refused, peak>>

\* Mutant of the next definition: a record is kept for ever.
TickKeepsRecords ==
    /\ now < MaxTime /\ now' = now + 1
    /\ UNCHANGED <<gateVars, requests, records, spent, relayed, refused, admitted, promised, peak>>

\* A unit of time passes; the timeout of every record that is due fires, and
\* takes away the first record.
Tick ==
    /\ now < MaxTime /\ now' = now + 1
    /\ LET due == {k \in DOMAIN records : records[k] =< now + 1}
       IN records' = SubSeq(records, Cardinality(due) + 1, Len(records))
    /\ UNCHANGED <<gateVars, requests, spent, relayed, refused, admitted, promised, peak>>

-----------------------------------------------------------------------------
(* GatewayService.verify: the rules run in parallel *)

Verifying(r, rule) == requests[r].st \in {"rules", "500"} /\ rule \in requests[r].pending

Verdict(r, rule, ok) ==
    Set(r, [requests[r] EXCEPT !.pending = @ \ {rule}, !.ok = @ /\ ok])

DailyCapRule(r) ==
    /\ Verifying(r, "DAILY_CAP") /\ Verdict(r, "DAILY_CAP", TRUE)
    /\ UNCHANGED <<gateVars, now, records, spent, relayed, refused, admitted, promised, peak>>

\* The bypass, or the captcha service: it accepts a token once, and every
\* error of it is a failure of the rule.
CaptchaRule(r) ==
    /\ Verifying(r, "CAPTCHA")
    /\ \/ load[r].token = BypassToken /\ Verdict(r, "CAPTCHA", TRUE) /\ UNCHANGED spent
       \/ /\ load[r].token \notin spent \cup {BypassToken}
          /\ spent' = spent \cup {load[r].token}
          /\ Verdict(r, "CAPTCHA", TRUE) \/ Verdict(r, "CAPTCHA", FALSE)
       \/ load[r].token # BypassToken /\ Verdict(r, "CAPTCHA", FALSE) /\ UNCHANGED spent
    /\ UNCHANGED <<gateVars, now, records, relayed, refused, admitted, promised, peak>>

\* An error of a rule rejects, and with it the whole of verify.  The other
\* rules go on: that of the captcha may still spend the token.
Rejected(r) == [requests[r] EXCEPT !.st = "500", !.pending = @ \cap {"CAPTCHA"}]

\* The verdict of the device's service, which may fail; an unknown device is a
\* failure of the rule.
DeviceAttestationRule(r) ==
    /\ Verifying(r, "DEVICE_ATTESTATION")
    /\ \/ load[r].device # "none" /\ Verdict(r, "DEVICE_ATTESTATION", TRUE)
       \/ Verdict(r, "DEVICE_ATTESTATION", FALSE)
       \/ /\ load[r].device # "none" /\ requests[r].st = "rules"
          /\ Set(r, Rejected(r))
    /\ UNCHANGED <<gateVars, now, records, spent, relayed, refused, admitted, promised, peak>>

SignatureRule(r) ==
    /\ Verifying(r, "SIGNATURE") /\ Verdict(r, "SIGNATURE", load[r].signed)
    /\ UNCHANGED <<gateVars, now, records, spent, relayed, refused, admitted, promised, peak>>

\* Mutant of the next definition: a failing rule is only logged.
VerifiedAnyway(q) == q.pending = {}

Verified(q) == q.pending = {} /\ q.ok

\* All rules have answered.  findOrCreateForAccount is in Session.
StartSession(r) ==
    /\ requests[r].st = "rules" /\ requests[r].pending = {}
    /\ IF Verified(requests[r]) THEN Answer(r, "session")
       ELSE Answer(r, "401")
    /\ UNCHANGED <<gateVars, now, records, spent, relayed, refused, admitted, promised, peak>>

-----------------------------------------------------------------------------
(* Meta-transactions *)

\* submitMetaTransaction: isValidWallet has found the session's wallet.
SubmitMetaTransaction(r) ==
    /\ requests[r].st = "new" /\ load[r].endpoint = "submitMetaTransaction"
    /\ \E tx \in Transactions :
        \/ /\ parse(tx, DefaultFilter) = "ok"
           /\ relayed' = Append(relayed, [txs |-> <<tx>>, subsidy |-> FALSE])
           /\ Answer(r, "200") /\ UNCHANGED refused
        \/ /\ parse(tx, DefaultFilter) # "ok"
           /\ refused' = Append(refused, tx)
           /\ Answer(r, IF parse(tx, DefaultFilter) = "TypeError" THEN "500" ELSE "400")
           /\ UNCHANGED relayed
    /\ UNCHANGED <<gateVars, now, records, spent, admitted, promised, peak>>

\* requestSubsidisedAttestations: the fee, the approval and the request are
\* one batch of the relayer.
RequestSubsidisedAttestations(r) ==
    /\ requests[r].st = "new" /\ load[r].endpoint = "requestSubsidisedAttestations"
    /\ \E requestTx \in Subsidised, approveTxs \in {<<>>} \cup {<<tx>> : tx \in Subsidised} :
        IF isValid(requestTx, approveTxs)
        THEN /\ relayed' = Append(relayed, [txs |-> approveTxs \o <<requestTx>>, subsidy |-> TRUE])
             /\ Answer(r, "200")
        ELSE Answer(r, "400") /\ UNCHANGED relayed
    /\ UNCHANGED <<gateVars, now, records, spent, refused, admitted, promised, peak>>

-----------------------------------------------------------------------------
(* distributedBlindedPepper: one call of the relayer, which answers, or whose *)
(* answer is late.  The usage that is recorded then is in Session.            *)

DistributedBlindedPepper(r) ==
    /\ requests[r].st = "new" /\ load[r].endpoint = "distributedBlindedPepper"
    /\ Set(r, [New EXCEPT !.st = "relayer"])
    /\ getPhoneNumberSignature(r)
    /\ UNCHANGED doorVars

PepperAnswered(r) ==
    /\ requests[r].st = "relayer" /\ queries[r].st = "done"
    /\ Answer(r, IF queries[r].result = "signature" THEN "200" ELSE "500")
    /\ UNCHANGED <<doorVars, odisVars>>

\* The relayer goes on, and nobody hears of its answer.
PepperTimesOut(r) ==
    /\ requests[r].st = "relayer" /\ Answer(r, "500")
    /\ UNCHANGED <<doorVars, odisVars>>

RelayerQueries(r) == OdisStep(r) /\ UNCHANGED <<doorVars, requests>>

-----------------------------------------------------------------------------
(* The specification *)

Init ==
    /\ load \in Loads /\ enabled \in EnabledFor(load)
    /\ requests = [r \in DOMAIN load |-> New]
    /\ now = 0 /\ records = <<>> /\ spent = {} /\ relayed = <<>> /\ refused = <<>>
    /\ admitted = <<>> /\ promised = FALSE /\ peak = 0
    /\ quota = FirstQuota /\ queries = [r \in DOMAIN load |-> NoQuery] /\ disturbed = {}

Handler(r) ==
    \/ ReadRecords(r) \/ AddRecord(r)
    \/ DailyCapRule(r) \/ CaptchaRule(r) \/ DeviceAttestationRule(r) \/ SignatureRule(r)
    \/ StartSession(r)
    \/ SubmitMetaTransaction(r) \/ RequestSubsidisedAttestations(r)
    \/ DistributedBlindedPepper(r) \/ PepperAnswered(r) \/ PepperTimesOut(r) \/ RelayerQueries(r)

Next == Tick \/ \E r \in DOMAIN load : Handler(r)

Spec == Init /\ [][Next]_vars

-----------------------------------------------------------------------------
(* Properties *)

\* Every variable has its type.
TypeOK ==
    /\ load \in Loads /\ enabled \in EnabledFor(load)
    /\ requests \in [DOMAIN load ->
            [st : {"new", "add", "rules", "relayer", "session", "200", "400", "401", "429", "500"},
             pending : SUBSET Rules, ok : BOOLEAN]]
    /\ now \in 0 .. MaxTime
    /\ \A k \in DOMAIN records : records[k] \in (now + 1) .. (now + Ttl)
    /\ spent \subseteq {load[r].token : r \in DOMAIN load}
    /\ promised \in BOOLEAN /\ peak \in Nat
    /\ quota \in Nat /\ disturbed \subseteq DOMAIN load
    /\ queries \in [DOMAIN load ->
            [st : {"idle", "query", "replenish", "done"}, tries : 0 .. Tries, late : 0 .. Tries,
             result : OdisQueryErrorTypes \cup {"none", "signature", "Exception"}]]

\* In no period of ttl do more than limit startSession requests pass the
\* throttler if they come one by one; if they race, one more for every request
\* beyond the first that was between reading the records and adding one.
\* (handleRequest)
LimitPerPeriod ==
    Cardinality({k \in DOMAIN admitted : admitted[k] + Ttl > now}) < Limit + peak

\* packages/libs/throttler/README.md: ready "acts as a sentinel for
\* throttling ... but will not increase the throttle counter": startSession
\* is not throttled after ready was answered, unless another one was admitted
\* in between.
ReadyIsKept ==
    [][\A r \in DOMAIN load :
        promised /\ load[r].endpoint = "startSession" /\ requests[r].st = "new"
            => requests'[r].st # "429"]_vars

\* A session is started only by a request that passed every enabled rule: it
\* is signed, its device is known, and its captcha token served no other.
\* (GatewayService.verify, and each rule)
SessionsAreVerified ==
    \A r \in DOMAIN load : requests[r].st = "session" =>
        /\ "SIGNATURE" \in enabled => load[r].signed
        /\ "DEVICE_ATTESTATION" \in enabled => load[r].device # "none"
        /\ "CAPTCHA" \in enabled /\ load[r].token # BypassToken =>
            /\ load[r].token \in spent
            /\ \A q \in DOMAIN load \ {r} :
                requests[q].st = "session" => load[q].token # load[r].token

\* The batches whose offsets come out right: of two calls at most, since the
\* lengths are not added but put together digit by digit, and, for the parser
\* to find no method where the wallet finds none, no call without data behind
\* one with data.  (decodeExecuteTransactions)
Lengths(tx) ==
    IF isCallTo(tx.child, "executeTransactions") /\ tx.child.decodes THEN tx.child.batch.lengths
    ELSE <<>>
TwoCallsAtMost(tx) == Len(Lengths(tx)) =< 2
DataInOrder(tx) == Len(Lengths(tx)) = 2 => Lengths(tx)[1] = 0 \/ Lengths(tx)[2] # 0

\* What the wallet executes of a transaction that was let through is what the
\* filter allows, however the transaction is nested or a batch of two calls
\* with data is cut.
\* (parse, decodeExecuteTransactions, MethodFilter, SubsidyService.isValid)
OnlyAllowedIsExecuted ==
    \A k \in DOMAIN relayed : \A n \in DOMAIN relayed[k].txs :
        LET tx == relayed[k].txs[n]
            filter == IF ~relayed[k].subsidy THEN DefaultFilter
                      ELSE IF n = Len(relayed[k].txs) THEN RequestFilter ELSE ApproveFilter
        IN TwoCallsAtMost(tx) /\ DataInOrder(tx) =>
                \A i \in DOMAIN Executed(tx) : Executed(tx)[i] \in filter

\* And nothing else is refused: a transaction of at most two calls, all of
\* which are allowed, is let through.  (the errors of parse)
AllowedIsLetThrough ==
    \A k \in DOMAIN refused : TwoCallsAtMost(refused[k]) =>
        \/ Reverts(refused[k])
        \/ \E i \in DOMAIN Executed(refused[k]) : Executed(refused[k])[i] \notin DefaultFilter

\* A call fails for lack of quota only when it lost a try to the timeout, or
\* another query used what was there while it waited: otherwise the try after
\* the transfer has the quota it needs.  (getPhoneNumberSignature)
OutOfQuotaOnlyIfDisturbed ==
    \A r \in DOMAIN load : queries[r].result = "OutOfQuota" => r \in disturbed
===============================================================================
