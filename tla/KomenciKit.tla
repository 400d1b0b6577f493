------------------------------ MODULE KomenciKit ------------------------------
(***************************************************************************)
(* The client library, as an application uses it to verify a phone number. *)
(*   packages/libs/komencikit/src/kit.ts, client.ts, retry.ts, actions.ts  *)
(*   packages/libs/komencikit/examples/attestation-flow.ts                 *)
(*                                                                         *)
(* Every method of the kit is tried several times, and every try sends its *)
(* HTTP request several times.  What is sent again may have been executed: *)
(* the answer was lost, or the receipt did not arrive in time.  Only the   *)
(* nonce of the meta-transaction wallet tells the executions apart: a try  *)
(* signs with the nonce the wallet has then, its requests repeat it.       *)
(*                                                                         *)
(* The API, the relayer and the contracts are external.  Transactions of   *)
(* one step and one nonce are interchangeable, so the ones the client does *)
(* not wait for are a set.                                                 *)
(***************************************************************************)
EXTENDS Naturals, Sequences

CONSTANTS
    Flows,      \* the orders in which applications call the kit's methods
    Issuers,    \* the issuers of the requested attestations
    Tries,      \* tries of the kit's methods: 3
    ExecTries,  \* tries of KomenciClient.exec: 3
    CodeBound   \* no code is entered after this many signed completions

MetaTransactions == {"approveAttestations", "setAccount", "requestAttestations",
                     "selectIssuers", "completeAttestation"}
Queries == {"checkService", "startSession", "checkSession", "getDistributedBlindedPepper"}
Methods == MetaTransactions \cup Queries \cup {"deployWallet"}

ASSUME KitAssumption ==
    /\ Tries \in Nat \ {0} /\ ExecTries \in Nat \ {0}
    /\ \A f \in Flows : f \in Seq(Methods) /\ f # <<>>

FetchErrorTypes == {"Unauthorised", "RequestError", "ServiceUnavailable", "UnexpectedStatus",
                    "NetworkError", "DecodeError", "NotFoundError", "QuotaExceededError"}
TxErrorTypes == {"Timeout", "Revert", "EventNotFound"}
KitErrors == {"KomenciDown", "LoginSignatureError", "InvalidWallet"}

VARIABLES
    flow,       \* the application's flow
    step,       \* the method of the flow that is called, or will be next
    outcome,    \* "running", "done", or how the flow ended early
    call,       \* the call of a method
    awaited,    \* the transaction waitForReceipt polls for
    denied,     \* ghost: the last HTTP request of the call was not authorised
    succeeded,  \* ghost: the steps a call of which returned Ok
    \* the API and the contracts (external)
    captcha,    \* whether the captcha token is unspent
    others,     \* signatures of the transactions nobody waits for
    nonce,      \* of the meta-transaction wallet
    wallet,     \* whether a wallet has been deployed
    actionable, \* issuers selected whose attestation is not completed
    selectable, \* whether attestations wait for selectIssuers
    signed,     \* ghost: step |-> tries that signed a meta-transaction
    executed    \* ghost: step |-> times its meta-transaction was executed

clientVars == <<flow, step, outcome, call, awaited, denied, succeeded, signed>>
chainVars == <<others, nonce, wallet, actionable, selectable, executed>>
vars == <<flow, step, outcome, call, awaited, denied, succeeded, captcha, others, nonce,
          wallet, actionable, selectable, signed, executed>>

Method == flow[step]

NoIssuer == "none"
Idle == [st |-> "idle", try |-> 1, exec |-> 1, nonce |-> 0, issuer |-> NoIssuer]
NoTx == [nonce |-> 0, issuer |-> NoIssuer, st |-> "none"]

-----------------------------------------------------------------------------
(* @retry *)

MethodTries(m) == IF m \in MetaTransactions \cup {"getDistributedBlindedPepper", "deployWallet"}
                  THEN Tries ELSE 1

\* bailOnErrorTypes of a method.
BailOnErrorTypes(m) ==
    CASE m = "getDistributedBlindedPepper" ->
            {"Unauthorised", "ServiceUnavailable", "QuotaExceededError"}
      [] m = "deployWallet" ->
            {"Unauthorised", "ServiceUnavailable", "Revert", "InvalidWallet"}
      [] m \in MetaTransactions ->
            {"Unauthorised", "ServiceUnavailable", "QuotaExceededError", "Revert"}
      [] OTHER -> {}

ExecBailOnErrorTypes == {"Unauthorised", "RequestError"}

\* Mutant of the next definition: the last try is not counted.
RetriesForever(m, try, error) == error \notin BailOnErrorTypes(m)

\* Whether a method is tried again after an error.
Retries(m, try, error) == try < MethodTries(m) /\ error \notin BailOnErrorTypes(m)

\* Mutant of the next definition: an error of authentication is tried again.
ExecRetriesAll(exec, error) == exec < ExecTries /\ error # "RequestError"

\* Whether exec sends the same request again after an error.
ExecRetries(exec, error) == exec < ExecTries /\ error \notin ExecBailOnErrorTypes

-----------------------------------------------------------------------------
(* The application *)

AtCodes == Method = "completeAttestation"

\* The flow goes on after a success and ends with an error; the loop that
\* asks for codes goes on in both cases.
Advance(result) ==
    /\ step' = IF AtCodes \/ result # "ok" \/ step = Len(flow) THEN step ELSE step + 1
    /\ outcome' = IF AtCodes THEN outcome
                  ELSE IF result # "ok" THEN "failed"
                  ELSE IF step = Len(flow) THEN "done" ELSE outcome

\* One try of the method is over, with an error or "ok".  (An error keeps its
\* type, but for the AuthenticationFailed and KomenciDown of methods that are
\* not tried again.)
TryEnds(result) ==
    IF result # "ok" /\ Retries(Method, call.try, result)
    THEN /\ call' = [Idle EXCEPT !.st = "start", !.try = call.try + 1, !.issuer = call.issuer]
         /\ UNCHANGED <<step, outcome, succeeded>>
    ELSE /\ call' = Idle
         /\ succeeded' = succeeded \cup {k \in {step} : result = "ok"}
         /\ Advance(result)

\* The next method is called.  waitForSelectingIssuers comes before the
\* tries of selectIssuers.
CallMethod ==
    /\ outcome = "running" /\ call.st = "idle" /\ ~AtCodes
    /\ Method = "selectIssuers" => selectable
    /\ call' = [Idle EXCEPT !.st = "start"]
    /\ denied' = FALSE
    /\ UNCHANGED <<flow, step, outcome, awaited, succeeded, signed, captcha, chainVars>>

\* The user enters a valid code of an issuer whose attestation can be completed.
EnterCode ==
    /\ outcome = "running" /\ call.st = "idle" /\ AtCodes
    /\ signed[step] < CodeBound
    /\ \E i \in actionable : call' = [Idle EXCEPT !.st = "start", !.issuer = i]
    /\ denied' = FALSE
    /\ UNCHANGED <<flow, step, outcome, awaited, succeeded, signed, captcha, chainVars>>

\* Nothing is left to complete, or the user enters "exit".
LeaveCodes ==
    /\ outcome = "running" /\ call.st = "idle" /\ AtCodes
    /\ outcome' = IF actionable = {} THEN "done" ELSE "exit"
    /\ UNCHANGED <<flow, step, call, awaited, denied, succeeded, signed, captcha, chainVars>>

-----------------------------------------------------------------------------
(* A try of a method *)

\* The captcha token and the account are signed, or the wallet refuses to.
LoginSignature ==
    /\ call.st = "start" /\ Method = "startSession"
    /\ \/ call' = [call EXCEPT !.st = "send"] /\ UNCHANGED <<step, outcome, succeeded>>
       \/ TryEnds("LoginSignatureError")
    /\ UNCHANGED <<flow, awaited, denied, signed, captcha, chainVars>>

\* The nonce of the wallet is read and signed.
Sign ==
    /\ call.st = "start" /\ Method \in MetaTransactions
    /\ call' = [call EXCEPT !.st = "send", !.nonce = nonce]
    /\ signed' = [signed EXCEPT ![step] = @ + 1]
    /\ UNCHANGED <<flow, step, outcome, awaited, denied, succeeded, captcha, chainVars>>

Build ==
    /\ call.st = "start" /\ Method \notin MetaTransactions \cup {"startSession"}
    /\ call' = [call EXCEPT !.st = "send"]
    /\ UNCHANGED <<flow, step, outcome, awaited, denied, succeeded, signed, captcha, chainVars>>

Signature(tx) == [step |-> step, nonce |-> tx.nonce, issuer |-> tx.issuer]

\* exec gets an error: the request is sent again, or the try is over.
ExecFails(error) ==
    /\ denied' = (error = "Unauthorised")
    /\ IF ExecRetries(call.exec, error)
       THEN call' = [call EXCEPT !.exec = @ + 1] /\ UNCHANGED <<step, outcome, succeeded>>
       ELSE TryEnds(error)

\* The answer is an error or gets lost; the API did nothing.
RequestFails ==
    /\ call.st = "send"
    /\ \E error \in FetchErrorTypes : ExecFails(error)
    /\ UNCHANGED <<flow, awaited, signed, captcha, chainVars>>

\* The API did what was asked for (external), but the client does not learn
\* of it: the answer is lost, or the API fails afterwards.
RequestLost ==
    /\ call.st = "send"
    /\ \/ Method = "startSession" /\ captcha /\ captcha' = FALSE /\ UNCHANGED others
       \/ /\ Method \in MetaTransactions \cup {"deployWallet"}
          /\ others' = others \cup {Signature(call)} /\ UNCHANGED captcha
    /\ \E error \in {"NetworkError", "ServiceUnavailable"} : ExecFails(error)
    /\ UNCHANGED <<flow, awaited, signed, nonce, wallet, actionable, selectable, executed>>

\* The captcha service accepts a token once.
CaptchaSpent ==
    /\ call.st = "send" /\ Method = "startSession" /\ ~captcha
    /\ ExecFails("Unauthorised")
    /\ UNCHANGED <<flow, awaited, signed, captcha, chainVars>>

\* A query is answered; a health other than OK is an error of checkService.
QueryAnswered ==
    /\ call.st = "send" /\ Method \in Queries
    /\ Method = "startSession" => captcha
    /\ captcha' = (captcha /\ Method # "startSession")
    /\ denied' = FALSE
    /\ \/ TryEnds("ok")
       \/ Method = "checkService" /\ TryEnds("KomenciDown")
    /\ UNCHANGED <<flow, awaited, signed, chainVars>>

\* Mutant of the next definition: every request is signed anew.
SentAnew == [nonce |-> nonce, issuer |-> call.issuer, st |-> "pending"]

\* What a request of this try makes the relayer send.
Sent == [nonce |-> call.nonce, issuer |-> call.issuer, st |-> "pending"]

\* A transaction was sent, its hash is the answer.  deployWallet may also
\* answer with a deployment that is in progress.
TransactionSent ==
    /\ call.st = "send" /\ Method \in MetaTransactions \cup {"deployWallet"}
    /\ denied' = FALSE
    /\ call' = [call EXCEPT !.st = "wait"]
    /\ awaited' = Sent
    /\ UNCHANGED <<flow, step, outcome, succeeded, signed, captcha, chainVars>>

\* deployWallet: the session has a wallet.
WalletAnswered ==
    /\ call.st = "send" /\ Method = "deployWallet" /\ wallet
    /\ denied' = FALSE
    /\ call' = [call EXCEPT !.st = "verify"]
    /\ UNCHANGED <<flow, step, outcome, awaited, succeeded, signed, captcha, chainVars>>

-----------------------------------------------------------------------------
(* waitForReceipt, getAddressFromDeploy, verifyWallet *)

\* Mutant of the next definition: the status of the receipt is not looked at.
ReceiptResultAny(st) == "ok"

ReceiptResult(st) == IF st = "success" THEN "ok" ELSE "Revert"

\* The receipt is there; a deployment's address is looked up next.
ReceiptFound ==
    /\ call.st = "wait" /\ awaited.st # "pending"
    /\ awaited' = NoTx
    /\ IF Method = "deployWallet" /\ ReceiptResult(awaited.st) = "ok"
       THEN call' = [call EXCEPT !.st = "event"] /\ UNCHANGED <<step, outcome, succeeded>>
       ELSE TryEnds(ReceiptResult(awaited.st))
    /\ UNCHANGED <<flow, denied, signed, captcha, chainVars>>

\* Mutant of the next definition: the time waited is not added up.
WaitsForReceipt == call.st = "wait" /\ awaited.st = "pending" /\ UNCHANGED vars

\* txRetryTimeoutMs is over: nobody waits for the transaction any more.
ReceiptTimeout ==
    /\ call.st = "wait" /\ awaited.st = "pending"
    /\ awaited' = NoTx
    /\ others' = others \cup {Signature(awaited)}
    /\ TryEnds("Timeout")
    /\ UNCHANGED <<flow, denied, signed, captcha, nonce, wallet, actionable, selectable, executed>>

\* The event of the deployment is found in its block, or the node lags behind.
AddressFromDeploy ==
    /\ call.st = "event"
    /\ \/ call' = [call EXCEPT !.st = "verify"] /\ UNCHANGED <<step, outcome, succeeded>>
       \/ TryEnds("EventNotFound")
    /\ UNCHANGED <<flow, awaited, denied, signed, captcha, chainVars>>

VerifyWallet ==
    /\ call.st = "verify"
    /\ TryEnds("ok") \/ TryEnds("InvalidWallet")
    /\ UNCHANGED <<flow, awaited, denied, signed, captcha, chainVars>>

\* A call to the node rejects.  @retry catches nothing: the method rejects,
\* and so does the application's flow.
NodeFails ==
    /\ \/ call.st = "start" /\ Method \in MetaTransactions
       \/ call.st \in {"wait", "event", "verify"}
    /\ call' = Idle /\ outcome' = "rejected"
    /\ awaited' = NoTx
    /\ others' = others \cup {Signature(t) : t \in {u \in {awaited} : u.st = "pending"}}
    /\ UNCHANGED <<flow, step, denied, succeeded, signed, captcha, nonce, wallet,
                   actionable, selectable, executed>>

-----------------------------------------------------------------------------
(* The contracts (external) *)

\* What executing the transaction of a step does.  The batch of
\* requestAttestations, with the subsidy, is executed as a whole.
Execute(k, issuer) ==
    /\ nonce' = nonce + (IF flow[k] = "requestAttestations" THEN 2 ELSE 1)
    /\ executed' = [executed EXCEPT ![k] = @ + 1]
    /\ selectable' = CASE flow[k] = "requestAttestations" -> TRUE
                       [] flow[k] = "selectIssuers" -> FALSE
                       [] OTHER -> selectable
    /\ actionable' = CASE flow[k] = "selectIssuers" -> Issuers
                       [] flow[k] = "completeAttestation" -> actionable \ {issuer}
                       [] OTHER -> actionable
    /\ UNCHANGED wallet

\* executeMetaTransaction checks the nonce, and the called contract its state.
Executes(k, tx) ==
    /\ tx.nonce = nonce
    /\ flow[k] = "selectIssuers" => selectable
    /\ flow[k] = "completeAttestation" => tx.issuer \in actionable

Deploy == wallet' = TRUE /\ UNCHANGED <<nonce, actionable, selectable, executed>>

\* The awaited transaction is mined.
AwaitedMined ==
    /\ awaited.st = "pending"
    /\ IF Method = "deployWallet"
       THEN \/ Deploy /\ awaited' = [awaited EXCEPT !.st = "success"]
            \/ awaited' = [awaited EXCEPT !.st = "reverted"] /\ UNCHANGED chainVars
       ELSE IF Executes(step, awaited)
       THEN Execute(step, awaited.issuer) /\ awaited' = [awaited EXCEPT !.st = "success"]
       ELSE awaited' = [awaited EXCEPT !.st = "reverted"] /\ UNCHANGED chainVars
    /\ UNCHANGED <<flow, step, outcome, call, denied, succeeded, captcha, others, signed>>

\* Another one is mined.
OtherMined ==
    /\ \E t \in others :
        /\ others' = others \ {t}
        /\ IF flow[t.step] = "deployWallet" THEN Deploy
           ELSE IF Executes(t.step, t) THEN Execute(t.step, t.issuer)
           ELSE UNCHANGED <<nonce, wallet, actionable, selectable, executed>>
    /\ UNCHANGED <<clientVars, captcha>>

-----------------------------------------------------------------------------
(* The specification *)

Init ==
    /\ flow \in Flows /\ step = 1 /\ outcome = "running"
    /\ call = Idle /\ awaited = NoTx /\ denied = FALSE /\ succeeded = {}
    /\ captcha = TRUE /\ others = {} /\ nonce = 0 /\ wallet = FALSE
    /\ actionable = {} /\ selectable = FALSE
    /\ signed = [k \in DOMAIN flow |-> 0]
    /\ executed = [k \in DOMAIN flow |-> 0]

Application == CallMethod \/ EnterCode \/ LeaveCodes

Kit ==
    \/ LoginSignature \/ Sign \/ Build
    \/ RequestFails \/ RequestLost \/ CaptchaSpent
    \/ QueryAnswered \/ TransactionSent \/ WalletAnswered
    \/ ReceiptFound \/ ReceiptTimeout \/ AddressFromDeploy \/ VerifyWallet

Next == Application \/ Kit \/ NodeFails \/ AwaitedMined \/ OtherMined

\* A call that has begun goes on: requests are answered or fail, polling for a
\* receipt stops at its timeout.  Nothing obliges the chain or the user, and
\* the node need not fail.
Spec == Init /\ [][Next]_vars /\ WF_vars(Kit)

-----------------------------------------------------------------------------
(* Properties *)

\* Every variable has its type.
TypeOK ==
    /\ flow \in Flows /\ step \in DOMAIN flow
    /\ outcome \in {"running", "done", "failed", "exit", "rejected"}
    /\ call \in [st : {"idle", "start", "send", "wait", "event", "verify"},
                 try : 1 .. Tries, exec : 1 .. ExecTries, nonce : Nat,
                 issuer : Issuers \cup {NoIssuer}]
    /\ awaited \in [nonce : Nat, issuer : Issuers \cup {NoIssuer},
                    st : {"none", "pending", "success", "reverted"}]
    /\ denied \in BOOLEAN /\ succeeded \subseteq DOMAIN flow
    /\ captcha \in BOOLEAN /\ wallet \in BOOLEAN /\ selectable \in BOOLEAN
    /\ others \subseteq [step : DOMAIN flow, nonce : Nat, issuer : Issuers \cup {NoIssuer}]
    /\ nonce \in Nat /\ actionable \subseteq Issuers
    /\ signed \in [DOMAIN flow -> Nat] /\ executed \in [DOMAIN flow -> Nat]

\* A method that reports success has had its transaction executed, whichever
\* of its requests and tries the receipt belongs to.  (waitForReceipt,
\* submitMetaTransaction, requestAttestations, deployWallet)
OkMeansExecuted ==
    \A k \in succeeded :
        /\ flow[k] \in MetaTransactions => executed[k] > 0
        /\ flow[k] = "deployWallet" => wallet

\* A step is executed at most once per try, however often each try has sent
\* it: what is lost, times out or is sent twice is bounded by the tries of the
\* method, and so is the subsidy.  (kit.ts signs before exec repeats requests)
ExecutedOncePerTry == \A k \in DOMAIN flow : executed[k] =< signed[k]

\* A client that is told it is not authorised stops: neither the request nor
\* the method is tried again, and the flow ends.  Only the loop that asks the
\* user for codes goes on.  (bailOnErrorTypes of exec and of every method)
UnauthorisedStops ==
    denied => call.st = "idle" /\ (outcome # "running" \/ AtCodes)

\* Every call of a method returns, whatever the API and the chain do: the
\* nested tries and the polling for the receipt end.
CallsReturn == (call.st # "idle") ~> (call.st = "idle")
===============================================================================
