--------------------------- MODULE KomenciKitProofs ---------------------------
(***************************************************************************)
(* Proofs about KomenciKit, for any flows of an application, any issuers   *)
(* and any numbers of tries.                                               *)
(*                                                                         *)
(* The argument about the nonces: a try signs with the nonce that the      *)
(* wallet has then, and the wallet's nonce only grows.  A transaction      *)
(* whose nonce is the wallet's was therefore signed by a try of its step   *)
(* that has not been executed yet; executing it makes every other copy of  *)
(* it stale.  About success: a receipt is that of the awaited transaction, *)
(* which belongs to the step the client is at.                             *)
(***************************************************************************)
EXTENDS KomenciKit, TLAPS

CallType == [st : {"idle", "start", "send", "wait", "event", "verify"},
             try : 1 .. Tries, exec : 1 .. ExecTries, nonce : Nat,
             issuer : Issuers \cup {NoIssuer}]
AwaitedType == [nonce : Nat, issuer : Issuers \cup {NoIssuer},
                st : {"none", "pending", "success", "reverted"}]
OtherType == [step : DOMAIN flow, nonce : Nat, issuer : Issuers \cup {NoIssuer}]

\* A signature of step k with nonce n: if the wallet would still accept it,
\* one of the tries of the step has not been executed.
Unspent(k, n) ==
    flow[k] \in MetaTransactions =>
        n =< nonce /\ (n = nonce => executed[k] < signed[k])

NonceInv ==
    /\ \A t \in others :
        /\ Unspent(t.step, t.nonce)
        /\ flow[t.step] \in MetaTransactions \cup {"deployWallet"}
    /\ awaited.st = "pending" => Unspent(step, awaited.nonce)
    /\ call.st = "send" => Unspent(step, call.nonce)

\* What step k is for has happened.
Achieved(k) ==
    /\ flow[k] \in MetaTransactions => executed[k] > 0
    /\ flow[k] = "deployWallet" => wallet

\* Where the call is, and what it has learned.
PlaceInv ==
    /\ call.st = "wait" <=> awaited.st # "none"
    /\ call.st = "wait" => Method \in MetaTransactions \cup {"deployWallet"}
    /\ call.st \in {"event", "verify"} => Method = "deployWallet" /\ wallet
    /\ awaited.st = "success" => Achieved(step)

\* The inductive invariant.
IInv ==
    /\ TypeOK /\ NonceInv /\ PlaceInv
    /\ OkMeansExecuted /\ ExecutedOncePerTry /\ UnauthorisedStops

-----------------------------------------------------------------------------
(* The type of the state, in terms of the sets above *)

LEMMA TypeParts ==
    TypeOK <=>
        /\ flow \in Flows /\ step \in DOMAIN flow
        /\ outcome \in {"running", "done", "failed", "exit", "rejected"}
        /\ call \in CallType /\ awaited \in AwaitedType
        /\ denied \in BOOLEAN /\ succeeded \subseteq DOMAIN flow
        /\ captcha \in BOOLEAN /\ wallet \in BOOLEAN /\ selectable \in BOOLEAN
        /\ others \subseteq OtherType
        /\ nonce \in Nat /\ actionable \subseteq Issuers
        /\ signed \in [DOMAIN flow -> Nat] /\ executed \in [DOMAIN flow -> Nat]
  BY Zenon DEF TypeOK, CallType, AwaitedType, OtherType

LEMMA TypePartsNext ==
    TypeOK' <=>
        /\ flow' \in Flows /\ step' \in DOMAIN flow'
        /\ outcome' \in {"running", "done", "failed", "exit", "rejected"}
        /\ call' \in CallType /\ awaited' \in AwaitedType
        /\ denied' \in BOOLEAN /\ succeeded' \subseteq DOMAIN flow'
        /\ captcha' \in BOOLEAN /\ wallet' \in BOOLEAN /\ selectable' \in BOOLEAN
        /\ others' \subseteq OtherType'
        /\ nonce' \in Nat /\ actionable' \subseteq Issuers
        /\ signed' \in [DOMAIN flow' -> Nat] /\ executed' \in [DOMAIN flow' -> Nat]
  BY Zenon DEF TypeOK, CallType, AwaitedType, OtherType

\* The flow is a sequence of methods.
LEMMA FlowType ==
    ASSUME TypeOK
    PROVE  /\ flow \in Seq(Methods) /\ step \in DOMAIN flow /\ Method \in Methods
           /\ \A k \in DOMAIN flow : flow[k] \in Methods
<1>1. flow \in Seq(Methods) /\ step \in DOMAIN flow
  BY KitAssumption, TypeParts
<1> QED
  BY <1>1 DEF Method

LEMMA IdleType == Idle \in CallType /\ NoTx \in AwaitedType
<1>1. 1 \in 1 .. Tries /\ 1 \in 1 .. ExecTries
  BY KitAssumption
<1> QED
  BY <1>1 DEF Idle, NoTx, CallType, AwaitedType

\* Which kinds of methods there are.
LEMMA MethodKinds ==
    /\ "deployWallet" \notin MetaTransactions /\ "deployWallet" \notin Queries
    /\ \A m \in Queries : m \notin MetaTransactions /\ m # "deployWallet"
    /\ "startSession" \in Queries
    /\ "completeAttestation" \in MetaTransactions
  BY DEF MetaTransactions, Queries

-----------------------------------------------------------------------------
(* A try is over *)

\* Nobody is told that he is not authorised, and tries again.
LEMMA UnauthorisedBails ==
    ASSUME NEW m \in Methods, NEW try \in Nat, try >= 1
    PROVE  ~Retries(m, try, "Unauthorised")
<1>1. CASE m \in MetaTransactions \cup {"getDistributedBlindedPepper", "deployWallet"}
  <2>1. CASE m = "getDistributedBlindedPepper"
    BY <2>1 DEF Retries, BailOnErrorTypes
  <2>2. CASE m = "deployWallet"
    BY <2>2 DEF Retries, BailOnErrorTypes
  <2>3. CASE m \in MetaTransactions
    BY <2>3 DEF Retries, BailOnErrorTypes, MetaTransactions
  <2> QED
    BY <1>1, <2>1, <2>2, <2>3
<1>2. CASE m \notin MetaTransactions \cup {"getDistributedBlindedPepper", "deployWallet"}
  BY <1>2 DEF Retries, MethodTries
<1> QED
  BY <1>1, <1>2

\* What the end of a try does to the client.
LEMMA TryEndsTo ==
    ASSUME TypeOK, NEW result, TryEnds(result), UNCHANGED flow
    PROVE  /\ step' \in DOMAIN flow
           /\ outcome' \in {"running", "done", "failed", "exit", "rejected"}
           /\ call' \in CallType /\ call'.st \in {"idle", "start"}
           /\ succeeded' \subseteq DOMAIN flow
           /\ \A k \in succeeded' : k \in succeeded \/ (k = step /\ result = "ok")
           /\ result = "Unauthorised" => call'.st = "idle" /\ (outcome' # "running" \/ AtCodes')
<1>1. /\ flow \in Seq(Methods) /\ step \in DOMAIN flow /\ Method \in Methods
      /\ call \in CallType /\ succeeded \subseteq DOMAIN flow
      /\ outcome \in {"running", "done", "failed", "exit", "rejected"}
  BY FlowType, TypeParts
<1>2. /\ call.try \in 1 .. Tries /\ call.issuer \in Issuers \cup {NoIssuer}
  BY <1>1 DEF CallType
<1>3. CASE result # "ok" /\ Retries(Method, call.try, result)
  <2>1. PICK c : c = [Idle EXCEPT !.st = "start", !.try = call.try + 1, !.issuer = call.issuer]
    OBVIOUS
  <2>2. call' = c /\ UNCHANGED <<step, outcome, succeeded>>
    BY <1>3, <2>1 DEF TryEnds
  <2>3. call.try + 1 \in 1 .. Tries
    BY <1>2, <1>3, KitAssumption DEF Retries, MethodTries
  <2>4. c \in CallType /\ c.st = "start"
    BY <1>2, <2>1, <2>3, IdleType DEF CallType
  <2>5. result # "Unauthorised"
    BY <1>1, <1>2, <1>3, UnauthorisedBails, KitAssumption
  <2> QED
    BY <1>1, <1>3, <2>2, <2>4, <2>5
<1>4. CASE ~(result # "ok" /\ Retries(Method, call.try, result))
  <2>1. /\ call' = Idle /\ Advance(result)
        /\ succeeded' = succeeded \cup {k \in {step} : result = "ok"}
    BY <1>4, Zenon DEF TryEnds
  <2>2. step' = step \/ (step # Len(flow) /\ step' = step + 1)
    BY <2>1 DEF Advance
  <2>3. step' \in DOMAIN flow
    BY <1>1, <2>2
  <2>4. outcome' \in {outcome, "failed", "done"}
    BY <2>1 DEF Advance
  <2>5. ASSUME result = "Unauthorised"
        PROVE  outcome' # "running" \/ AtCodes'
    <3>1. CASE AtCodes
      <4>1. step' = step
        BY <2>1, <3>1 DEF Advance
      <4> QED
        BY <3>1, <4>1 DEF AtCodes, Method
    <3>2. CASE ~AtCodes
      BY <2>1, <2>5, <3>2 DEF Advance
    <3> QED
      BY <3>1, <3>2
  <2>6. call'.st = "idle" /\ call' \in CallType
    BY <2>1, IdleType DEF Idle
  <2> QED
    BY <1>1, <2>1, <2>3, <2>4, <2>5, <2>6
<1> QED
  BY <1>3, <1>4

\* The facts about the other transactions stay true while the chain stands still.
LEMMA OthersKept ==
    ASSUME NonceInv, UNCHANGED <<flow, nonce, executed, signed>>,
           \A t \in others' : t \in others \/ 
                (Unspent(t.step, t.nonce) /\ flow[t.step] \in MetaTransactions \cup {"deployWallet"})
    PROVE  \A t \in others' :
                /\ Unspent(t.step, t.nonce)'
                /\ flow'[t.step] \in MetaTransactions \cup {"deployWallet"}
  BY Zenon DEF NonceInv, Unspent

\* The other parts of the invariant, after a step of the client that leaves
\* the chain alone.
LEMMA ChainStands ==
    ASSUME IInv, UNCHANGED <<flow, nonce, executed, wallet>>,
           \A k \in DOMAIN flow : signed'[k] >= signed[k],
           signed' \in [DOMAIN flow -> Nat],
           \A k \in succeeded' : k \in succeeded \/ Achieved(k)
    PROVE  OkMeansExecuted' /\ ExecutedOncePerTry'
<1>1. OkMeansExecuted'
  <2>1. \A k \in succeeded' : Achieved(k)
    BY DEF IInv, OkMeansExecuted, Achieved
  <2> QED
    BY <2>1 DEF OkMeansExecuted, Achieved
<1>2. ExecutedOncePerTry'
  <2>1. /\ \A k \in DOMAIN flow : executed[k] =< signed[k]
        /\ executed \in [DOMAIN flow -> Nat] /\ signed \in [DOMAIN flow -> Nat]
    BY TypeParts DEF IInv, ExecutedOncePerTry
  <2>2. ASSUME NEW k \in DOMAIN flow
        PROVE  executed[k] =< signed'[k]
    <3>1. executed[k] \in Nat /\ signed[k] \in Nat /\ signed'[k] \in Nat
      BY <2>1
    <3> QED
      BY <2>1, <3>1
  <2> QED
    BY <2>2 DEF ExecutedOncePerTry
<1> QED
  BY <1>1, <1>2

\* A try is over: the client awaits nothing.
LEMMA TryOver ==
    ASSUME IInv, NEW result, TryEnds(result),
           UNCHANGED <<flow, nonce, wallet, actionable, selectable, signed, executed>>,
           awaited'.st = "none", awaited' \in AwaitedType,
           captcha' \in BOOLEAN, denied' \in BOOLEAN,
           denied' => result = "Unauthorised",
           result = "ok" => Achieved(step),
           others' \subseteq OtherType,
           \A t \in others' : t \in others \/
                (Unspent(t.step, t.nonce) /\ flow[t.step] \in MetaTransactions \cup {"deployWallet"})
    PROVE  IInv'
<1>1. TypeOK /\ NonceInv /\ PlaceInv /\ OkMeansExecuted
  BY DEF IInv
<1>2. /\ step' \in DOMAIN flow
      /\ outcome' \in {"running", "done", "failed", "exit", "rejected"}
      /\ call' \in CallType /\ call'.st \in {"idle", "start"}
      /\ succeeded' \subseteq DOMAIN flow
      /\ \A k \in succeeded' : k \in succeeded \/ (k = step /\ result = "ok")
      /\ result = "Unauthorised" => call'.st = "idle" /\ (outcome' # "running" \/ AtCodes')
  BY <1>1, TryEndsTo
<1>3. awaited' \in AwaitedType /\ awaited'.st = "none"
  OBVIOUS
<1>4. TypeOK'
  <2>1. others' \subseteq OtherType'
    BY DEF OtherType
  <2>2. /\ flow' = flow /\ nonce' = nonce /\ wallet' = wallet /\ actionable' = actionable
        /\ selectable' = selectable /\ signed' = signed /\ executed' = executed
    OBVIOUS
  <2> QED
    BY <1>1, <1>2, <1>3, <2>1, <2>2, TypeParts, TypePartsNext, Zenon
<1>5. NonceInv'
  <2>1. \A t \in others' :
            /\ Unspent(t.step, t.nonce)'
            /\ flow'[t.step] \in MetaTransactions \cup {"deployWallet"}
    BY <1>1, OthersKept
  <2>2. awaited'.st # "pending" /\ call'.st # "send"
    BY <1>2, <1>3
  <2> QED
    BY <2>1, <2>2 DEF NonceInv
<1>6. PlaceInv'
  BY <1>2, <1>3 DEF PlaceInv
<1>7. OkMeansExecuted' /\ ExecutedOncePerTry'
  <2>1. signed \in [DOMAIN flow -> Nat]
    BY <1>1, TypeParts
  <2>2. \A k \in succeeded' : k \in succeeded \/ Achieved(k)
    BY <1>2
  <2>3. signed' \in [DOMAIN flow -> Nat] /\ \A k \in DOMAIN flow : signed'[k] >= signed[k]
    BY <2>1
  <2> QED
    BY <2>2, <2>3, ChainStands
<1>8. UnauthorisedStops'
  BY <1>2 DEF UnauthorisedStops
<1> QED
  BY <1>4, <1>5, <1>6, <1>7, <1>8 DEF IInv

\* A call that has not ended was not refused.
LEMMA CallIsAllowed ==
    ASSUME IInv, call.st # "idle"
    PROVE  ~denied
  BY DEF IInv, UnauthorisedStops

\* Nothing is awaited before the request is answered, nor after the receipt.
LEMMA AwaitsNothing ==
    ASSUME IInv, call.st # "wait"
    PROVE  awaited.st = "none"
  BY DEF IInv, PlaceInv

\* The call goes on to where no transaction is awaited.
LEMMA CallMoves ==
    ASSUME IInv, NEW c \in CallType, call' = c,
           c.st \in {"idle", "start", "send", "event", "verify"},
           UNCHANGED <<flow, step, nonce, wallet, actionable, selectable, executed>>,
           awaited'.st = "none", awaited' \in AwaitedType, captcha' \in BOOLEAN,
           denied' = FALSE, succeeded' = succeeded,
           outcome' \in {"running", "done", "failed", "exit", "rejected"},
           signed' \in [DOMAIN flow -> Nat],
           \A k \in DOMAIN flow : signed'[k] >= signed[k],
           c.st = "send" => Unspent(step, c.nonce)',
           c.st \in {"event", "verify"} => Method = "deployWallet" /\ wallet,
           others' \subseteq OtherType,
           \A t \in others' : t \in others \/
                (Unspent(t.step, t.nonce) /\ flow[t.step] \in MetaTransactions \cup {"deployWallet"})
    PROVE  IInv'
<1>1. TypeOK /\ NonceInv /\ PlaceInv /\ OkMeansExecuted
  BY DEF IInv
<1>2. TypeOK'
  <2>1. others' \subseteq OtherType'
    BY DEF OtherType
  <2>2. denied' \in BOOLEAN
    BY Zenon
  <2> QED
    BY <1>1, <2>1, <2>2, TypeParts, TypePartsNext, Zenon
<1>3. NonceInv'
  <2>1. ASSUME NEW t \in others'
        PROVE  /\ Unspent(t.step, t.nonce)'
               /\ flow'[t.step] \in MetaTransactions \cup {"deployWallet"}
    <3>1. /\ Unspent(t.step, t.nonce)
          /\ flow[t.step] \in MetaTransactions \cup {"deployWallet"}
      BY <1>1 DEF NonceInv
    <3>2. t.step \in DOMAIN flow
      BY DEF OtherType
    <3>3. executed[t.step] \in Nat /\ signed[t.step] \in Nat /\ signed'[t.step] \in Nat
          /\ signed'[t.step] >= signed[t.step]
      BY <1>1, <3>2, TypeParts
    <3>4. executed[t.step] < signed[t.step] => executed[t.step] < signed'[t.step]
      BY ONLY <3>3
    <3> QED
      BY <3>1, <3>4 DEF Unspent
  <2> QED
    BY <2>1, Zenon DEF NonceInv
<1>4. PlaceInv'
  BY DEF PlaceInv, Method
<1>5. OkMeansExecuted' /\ ExecutedOncePerTry'
  BY ChainStands
<1>6. UnauthorisedStops'
  BY DEF UnauthorisedStops
<1> QED
  BY <1>2, <1>3, <1>4, <1>5, <1>6 DEF IInv

-----------------------------------------------------------------------------
(* The application *)

LEMMA ApplicationIInv ==
    ASSUME IInv, Application
    PROVE  IInv'
<1>1. TypeOK /\ NonceInv /\ PlaceInv
  BY DEF IInv
<1>2. call.st = "idle" /\ awaited.st = "none"
  <2>1. call.st = "idle"
    BY DEF Application, CallMethod, EnterCode, LeaveCodes
  <2> QED
    BY <2>1, AwaitsNothing
<1>3. /\ awaited \in AwaitedType /\ others \subseteq OtherType
      /\ signed \in [DOMAIN flow -> Nat] /\ actionable \subseteq Issuers
      /\ outcome \in {"running", "done", "failed", "exit", "rejected"}
      /\ call \in CallType
  BY <1>1, TypeParts
<1>4. CASE CallMethod \/ EnterCode
  <2>1. PICK c \in CallType : c.st = "start" /\ call' = c
    <3>1. CASE CallMethod
      <4>1. [Idle EXCEPT !.st = "start"] \in CallType /\ [Idle EXCEPT !.st = "start"].st = "start"
        BY IdleType DEF CallType, Idle
      <4> QED
        BY <3>1, <4>1 DEF CallMethod
    <3>2. CASE EnterCode
      <4>1. PICK i \in actionable : call' = [Idle EXCEPT !.st = "start", !.issuer = i]
        BY <3>2 DEF EnterCode
      <4>2. i \in Issuers \cup {NoIssuer}
        BY <1>3
      <4>3. /\ [Idle EXCEPT !.st = "start", !.issuer = i] \in CallType
            /\ [Idle EXCEPT !.st = "start", !.issuer = i].st = "start"
        BY <4>2, IdleType DEF CallType, Idle
      <4> QED
        BY <4>1, <4>3
    <3> QED
      BY <1>4, <3>1, <3>2
  <2>2. /\ denied' = FALSE
        /\ UNCHANGED <<flow, step, outcome, awaited, succeeded, signed, captcha, chainVars>>
    BY <1>4, Zenon DEF CallMethod, EnterCode
  <2>3. UNCHANGED <<others, nonce, wallet, actionable, selectable, executed>>
    BY <2>2, Zenon DEF chainVars
  <2>4. \A k \in DOMAIN flow : signed'[k] >= signed[k]
    BY <1>3, <2>2
  <2>5. captcha' \in BOOLEAN
    BY <1>1, <2>2, TypeParts, Zenon
  <2> QED
    BY <1>2, <1>3, <2>1, <2>2, <2>3, <2>4, <2>5, CallMoves
<1>5. CASE LeaveCodes
  <2>1. /\ UNCHANGED <<flow, step, call, awaited, denied, succeeded, signed, captcha>>
        /\ UNCHANGED <<others, nonce, wallet, actionable, selectable, executed>>
    BY <1>5, Zenon DEF LeaveCodes, chainVars
  <2>2. outcome' \in {"done", "exit"}
    BY <1>5 DEF LeaveCodes
  <2>3. TypeOK'
    <3>1. others' \subseteq OtherType'
      BY <1>3, <2>1 DEF OtherType
    <3> QED
      BY <1>1, <2>1, <2>2, <3>1, TypeParts, TypePartsNext, Zenon
  <2>4. NonceInv' /\ PlaceInv'
    BY <1>1, <2>1, Zenon DEF NonceInv, Unspent, PlaceInv, Achieved, Method
  <2>5. OkMeansExecuted' /\ ExecutedOncePerTry'
    BY <2>1, Zenon DEF IInv, OkMeansExecuted, ExecutedOncePerTry
  <2>6. UnauthorisedStops'
    BY <1>2, <2>1, <2>2 DEF UnauthorisedStops
  <2> QED
    BY <2>3, <2>4, <2>5, <2>6 DEF IInv
<1> QED
  BY <1>4, <1>5 DEF Application

-----------------------------------------------------------------------------
(* A try of a method *)

LEMMA LoginSignatureIInv ==
    ASSUME IInv, LoginSignature
    PROVE  IInv'
<1>1. /\ TypeOK /\ call.st = "start" /\ ~denied /\ awaited.st = "none"
  BY CallIsAllowed, AwaitsNothing DEF IInv, LoginSignature
<1>2. /\ awaited \in AwaitedType /\ others \subseteq OtherType /\ call \in CallType
      /\ signed \in [DOMAIN flow -> Nat] /\ denied \in BOOLEAN /\ captcha \in BOOLEAN
      /\ outcome \in {"running", "done", "failed", "exit", "rejected"}
  BY <1>1, TypeParts
<1>3. /\ UNCHANGED <<flow, awaited, denied, signed, captcha>>
      /\ UNCHANGED <<others, nonce, wallet, actionable, selectable, executed>>
  BY Zenon DEF LoginSignature, chainVars
<1>4. CASE call' = [call EXCEPT !.st = "send"] /\ UNCHANGED <<step, outcome, succeeded>>
  <2>1. PICK c : c = [call EXCEPT !.st = "send"]
    OBVIOUS
  <2>2. c \in CallType /\ c.st = "send" /\ c.nonce = call.nonce /\ call' = c
    BY <1>2, <1>4, <2>1 DEF CallType
  <2>3. Unspent(step, c.nonce)'
    <3>1. Method \notin MetaTransactions
      BY MethodKinds DEF LoginSignature
    <3> QED
      BY <1>3, <1>4, <3>1 DEF Unspent, Method
  <2>4. denied' = FALSE
    BY <1>1, <1>2, <1>3
  <2>5. \A k \in DOMAIN flow : signed'[k] >= signed[k]
    BY <1>2, <1>3
  <2> QED
    BY <1>1, <1>2, <1>3, <1>4, <2>2, <2>3, <2>4, <2>5, CallMoves
<1>5. CASE TryEnds("LoginSignatureError")
  <2>1. denied' \in BOOLEAN /\ captcha' \in BOOLEAN
    BY <1>2, <1>3, Zenon
  <2> QED
    BY <1>1, <1>2, <1>3, <1>5, <2>1, TryOver
<1> QED
  BY <1>4, <1>5, Zenon DEF LoginSignature

\* Whatever is signed is what the wallet accepts then.
LEMMA SignIInv ==
    ASSUME IInv, Sign \/ Build
    PROVE  IInv'
<1>1. /\ TypeOK /\ call.st = "start" /\ ~denied /\ awaited.st = "none"
  BY CallIsAllowed, AwaitsNothing DEF IInv, Sign, Build
<1>2. /\ awaited \in AwaitedType /\ others \subseteq OtherType /\ call \in CallType
      /\ signed \in [DOMAIN flow -> Nat] /\ denied \in BOOLEAN /\ captcha \in BOOLEAN
      /\ outcome \in {"running", "done", "failed", "exit", "rejected"}
      /\ nonce \in Nat /\ executed \in [DOMAIN flow -> Nat] /\ step \in DOMAIN flow
  BY <1>1, TypeParts
<1>3. /\ UNCHANGED <<flow, step, outcome, awaited, denied, succeeded, captcha>>
      /\ UNCHANGED <<others, nonce, wallet, actionable, selectable, executed>>
  BY Zenon DEF Sign, Build, chainVars
<1>4. denied' = FALSE /\ captcha' \in BOOLEAN
  BY <1>1, <1>2, <1>3
<1>5. CASE Sign
  <2>1. PICK c : c = [call EXCEPT !.st = "send", !.nonce = nonce]
    OBVIOUS
  <2>2. c \in CallType /\ c.st = "send" /\ c.nonce = nonce
    BY <1>2, <2>1 DEF CallType
  <2>3. call' = c /\ signed' = [signed EXCEPT ![step] = @ + 1]
    BY <1>5, <2>1 DEF Sign
  <2>4. /\ signed' \in [DOMAIN flow -> Nat] /\ signed'[step] = signed[step] + 1
        /\ \A k \in DOMAIN flow : signed'[k] >= signed[k]
    BY <1>2, <2>3
  <2>5. executed[step] =< signed[step] /\ executed[step] \in Nat /\ signed[step] \in Nat
    BY <1>2 DEF IInv, ExecutedOncePerTry
  <2>6. executed[step] < signed'[step]
    BY ONLY <2>4, <2>5
  <2>7. Unspent(step, c.nonce)'
    BY <1>2, <1>3, <2>2, <2>6 DEF Unspent
  <2> QED
    BY <1>1, <1>2, <1>3, <1>4, <2>2, <2>3, <2>4, <2>7, CallMoves
<1>6. CASE Build
  <2>1. PICK c : c = [call EXCEPT !.st = "send"]
    OBVIOUS
  <2>2. c \in CallType /\ c.st = "send"
    BY <1>2, <2>1 DEF CallType
  <2>3. call' = c /\ signed' = signed /\ Method \notin MetaTransactions
    BY <1>6, <2>1 DEF Build
  <2>4. \A k \in DOMAIN flow : signed'[k] >= signed[k]
    BY <1>2, <2>3
  <2>5. Unspent(step, c.nonce)'
    BY <1>3, <2>3 DEF Unspent, Method
  <2> QED
    BY <1>1, <1>2, <1>3, <1>4, <2>2, <2>3, <2>4, <2>5, CallMoves
<1> QED
  BY <1>5, <1>6

\* exec gets an error, whatever the API has done with the request.
LEMMA ExecFailsIInv ==
    ASSUME IInv, call.st = "send", NEW error, error # "ok", ExecFails(error),
           UNCHANGED <<flow, awaited, signed, nonce, wallet, actionable, selectable, executed>>,
           captcha' \in BOOLEAN, others' \subseteq OtherType,
           \A t \in others' : t \in others \/
                (Unspent(t.step, t.nonce) /\ flow[t.step] \in MetaTransactions \cup {"deployWallet"})
    PROVE  IInv'
<1>1. TypeOK /\ NonceInv /\ awaited.st = "none"
  BY AwaitsNothing DEF IInv
<1>2. /\ awaited \in AwaitedType /\ call \in CallType
      /\ signed \in [DOMAIN flow -> Nat]
      /\ outcome \in {"running", "done", "failed", "exit", "rejected"}
  BY <1>1, TypeParts
<1>3. denied' = (error = "Unauthorised")
  BY Zenon DEF ExecFails
<1>4. CASE ExecRetries(call.exec, error)
  <2>1. PICK c : c = [call EXCEPT !.exec = @ + 1]
    OBVIOUS
  <2>2. call' = c /\ UNCHANGED <<step, outcome, succeeded>>
    BY <1>4, <2>1 DEF ExecFails
  <2>3. call.exec + 1 \in 1 .. ExecTries
    <3>1. call.exec \in 1 .. ExecTries
      BY <1>2 DEF CallType
    <3> QED
      BY <1>4, <3>1, KitAssumption DEF ExecRetries
  <2>4. c \in CallType /\ c.st = "send" /\ c.nonce = call.nonce
    BY <1>2, <2>1, <2>3 DEF CallType
  <2>5. error # "Unauthorised"
    BY <1>4 DEF ExecRetries, ExecBailOnErrorTypes
  <2>6. denied' = FALSE
    BY ONLY <1>3, <2>5, Zenon
  <2>7. Unspent(step, c.nonce)'
    BY <1>1, <2>2, <2>4 DEF NonceInv, Unspent
  <2>8. \A k \in DOMAIN flow : signed'[k] >= signed[k]
    BY <1>2
  <2> QED
    BY <1>1, <1>2, <2>2, <2>4, <2>6, <2>7, <2>8, CallMoves
<1>5. CASE ~ExecRetries(call.exec, error)
  <2>1. TryEnds(error)
    BY <1>5 DEF ExecFails
  <2>2. denied' \in BOOLEAN /\ (denied' => error = "Unauthorised")
    BY ONLY <1>3, Zenon
  <2> QED
    BY <1>1, <1>2, <2>1, <2>2, TryOver
<1> QED
  BY <1>4, <1>5

LEMMA RequestIInv ==
    ASSUME IInv, RequestFails \/ RequestLost \/ CaptchaSpent
    PROVE  IInv'
<1>1. /\ TypeOK /\ NonceInv /\ call.st = "send"
  BY DEF IInv, RequestFails, RequestLost, CaptchaSpent
<1>2. /\ others \subseteq OtherType /\ call \in CallType /\ step \in DOMAIN flow
      /\ captcha \in BOOLEAN
  BY <1>1, TypeParts
<1>3. UNCHANGED <<flow, awaited, signed, nonce, wallet, actionable, selectable, executed>>
  BY Zenon DEF RequestFails, RequestLost, CaptchaSpent, chainVars
<1>4. CASE RequestFails \/ CaptchaSpent
  <2>1. UNCHANGED <<captcha, others>>
    BY <1>4, Zenon DEF RequestFails, CaptchaSpent, chainVars
  <2>2. PICK error : error # "ok" /\ ExecFails(error)
    <3>1. CASE CaptchaSpent
      <4>1. ExecFails("Unauthorised")
        BY <3>1 DEF CaptchaSpent
      <4> QED
        BY <4>1
    <3>2. CASE RequestFails
      <4>1. PICK error \in FetchErrorTypes : ExecFails(error)
        BY <3>2 DEF RequestFails
      <4>2. error # "ok"
        BY DEF FetchErrorTypes
      <4> QED
        BY <4>1, <4>2
    <3> QED
      BY <1>4, <3>1, <3>2
  <2>3. captcha' \in BOOLEAN
    BY <1>2, <2>1, Zenon
  <2> QED
    BY <1>1, <1>2, <1>3, <2>1, <2>2, <2>3, ExecFailsIInv
<1>5. CASE RequestLost
  <2>1. PICK error \in {"NetworkError", "ServiceUnavailable"} : ExecFails(error)
    BY <1>5 DEF RequestLost
  <2>2. /\ captcha' = FALSE \/ captcha' = captcha
        /\ \/ others' = others
           \/ /\ Method \in MetaTransactions \cup {"deployWallet"}
              /\ others' = others \cup {Signature(call)}
    BY <1>5, Zenon DEF RequestLost
  <2>3. captcha' \in BOOLEAN
    BY ONLY <1>2, <2>2, Zenon
  <2>4. /\ Signature(call) \in OtherType /\ Signature(call).step = step
        /\ Signature(call).nonce = call.nonce
    BY <1>2 DEF CallType, OtherType, Signature
  <2>5. Unspent(step, call.nonce)
    BY <1>1 DEF NonceInv
  <2>6. /\ others' \subseteq OtherType
        /\ \A t \in others' : t \in others \/
                (Unspent(t.step, t.nonce) /\ flow[t.step] \in MetaTransactions \cup {"deployWallet"})
    BY <1>2, <2>2, <2>4, <2>5 DEF Method
  <2> QED
    BY <1>1, <1>3, <2>1, <2>3, <2>6, ExecFailsIInv
<1> QED
  BY <1>4, <1>5

LEMMA QueryAnsweredIInv ==
    ASSUME IInv, QueryAnswered
    PROVE  IInv'
<1>1. /\ TypeOK /\ call.st = "send" /\ awaited.st = "none" /\ Method \in Queries
  BY AwaitsNothing DEF IInv, QueryAnswered
<1>2. /\ awaited \in AwaitedType /\ others \subseteq OtherType
  BY <1>1, TypeParts
<1>3. /\ UNCHANGED <<flow, awaited, signed>>
      /\ UNCHANGED <<others, nonce, wallet, actionable, selectable, executed>>
      /\ denied' = FALSE /\ captcha' = (captcha /\ Method # "startSession")
  BY Zenon DEF QueryAnswered, chainVars
<1>4. captcha' \in BOOLEAN /\ denied' \in BOOLEAN /\ (denied' => FALSE)
  BY ONLY <1>3, Zenon
<1>5. Achieved(step)
  BY <1>1, MethodKinds DEF Achieved, Method
<1>6. PICK result \in {"ok", "KomenciDown"} : TryEnds(result)
  BY Zenon DEF QueryAnswered
<1> QED
  BY <1>1, <1>2, <1>3, <1>4, <1>5, <1>6, TryOver

\* The transaction the client waits for carries the signature of this try.
LEMMA TransactionSentIInv ==
    ASSUME IInv, TransactionSent
    PROVE  IInv'
<1>1. /\ TypeOK /\ NonceInv /\ PlaceInv /\ call.st = "send"
      /\ Method \in MetaTransactions \cup {"deployWallet"}
  BY DEF IInv, TransactionSent
<1>2. /\ call \in CallType /\ others \subseteq OtherType
      /\ signed \in [DOMAIN flow -> Nat]
  BY <1>1, TypeParts
<1>3. /\ UNCHANGED <<flow, step, outcome, succeeded, signed, captcha>>
      /\ UNCHANGED <<others, nonce, wallet, actionable, selectable, executed>>
      /\ denied' = FALSE /\ awaited' = Sent
  BY Zenon DEF TransactionSent, chainVars
<1>4. call' \in CallType /\ call'.st = "wait"
  BY <1>2 DEF TransactionSent, CallType
<1>5. awaited' \in AwaitedType /\ awaited'.st = "pending" /\ awaited'.nonce = call.nonce
  BY <1>2, <1>3 DEF Sent, CallType, AwaitedType
<1>6. TypeOK'
  <2>1. others' \subseteq OtherType'
    BY <1>2, <1>3 DEF OtherType
  <2>2. denied' \in BOOLEAN
    BY <1>3, Zenon
  <2> QED
    BY <1>1, <1>3, <1>4, <1>5, <2>1, <2>2, TypeParts, TypePartsNext, Zenon
<1>7. NonceInv'
  <2>1. Unspent(step, call.nonce)
    BY <1>1 DEF NonceInv
  <2>2. Unspent(step, awaited.nonce)'
    BY <1>3, <1>5, <2>1 DEF Unspent
  <2>3. \A t \in others' : t \in others
    BY <1>3
  <2>4. UNCHANGED <<flow, nonce, executed, signed>>
    BY <1>3
  <2>5. \A t \in others' :
            /\ Unspent(t.step, t.nonce)'
            /\ flow'[t.step] \in MetaTransactions \cup {"deployWallet"}
    BY <1>1, <2>3, <2>4, OthersKept
  <2> QED
    BY <1>4, <2>2, <2>5 DEF NonceInv
<1>8. PlaceInv'
  BY <1>1, <1>3, <1>4, <1>5 DEF PlaceInv, Method
<1>9. OkMeansExecuted' /\ ExecutedOncePerTry'
  BY <1>3, Zenon DEF IInv, OkMeansExecuted, ExecutedOncePerTry
<1>10. UnauthorisedStops'
  BY <1>3 DEF UnauthorisedStops
<1> QED
  BY <1>6, <1>7, <1>8, <1>9, <1>10 DEF IInv

\* The call goes on with looking at the wallet.
LEMMA WalletIsLookedAt ==
    ASSUME IInv, call.st # "idle", NEW st \in {"event", "verify"}, call' = [call EXCEPT !.st = st],
           Method = "deployWallet", wallet, awaited'.st = "none", awaited' \in AwaitedType,
           UNCHANGED <<flow, step, outcome, denied, succeeded, signed, captcha, chainVars>>
    PROVE  IInv'
<1>1. TypeOK /\ ~denied
  BY CallIsAllowed DEF IInv
<1>2. /\ call \in CallType /\ others \subseteq OtherType
      /\ signed \in [DOMAIN flow -> Nat] /\ denied \in BOOLEAN /\ captcha \in BOOLEAN
      /\ outcome \in {"running", "done", "failed", "exit", "rejected"}
  BY <1>1, TypeParts
<1>3. PICK c : c = [call EXCEPT !.st = st]
  OBVIOUS
<1>4. c \in CallType /\ c.st = st /\ call' = c
  BY <1>2, <1>3 DEF CallType
<1>5. /\ UNCHANGED <<flow, step, outcome, denied, succeeded, signed, captcha>>
      /\ UNCHANGED <<others, nonce, wallet, actionable, selectable, executed>>
  BY Zenon DEF chainVars
<1>6. denied' = FALSE /\ captcha' \in BOOLEAN
  BY <1>1, <1>2, <1>5
<1>7. \A k \in DOMAIN flow : signed'[k] >= signed[k]
  BY <1>2, <1>5
<1> QED
  BY <1>2, <1>4, <1>5, <1>6, <1>7, CallMoves

\* The rest of a call of deployWallet, once its transaction has succeeded.
LEMMA WalletIInv ==
    ASSUME IInv, WalletAnswered \/ AddressFromDeploy \/ VerifyWallet
    PROVE  IInv'
<1>1. /\ TypeOK /\ PlaceInv /\ call.st \in {"send", "event", "verify"} /\ ~denied /\ awaited.st = "none"
  BY CallIsAllowed, AwaitsNothing DEF IInv, WalletAnswered, AddressFromDeploy, VerifyWallet
<1>2. awaited \in AwaitedType /\ others \subseteq OtherType /\ denied \in BOOLEAN /\ captcha \in BOOLEAN
  BY <1>1, TypeParts
<1>3. Method = "deployWallet" /\ wallet
  BY <1>1 DEF WalletAnswered, AddressFromDeploy, VerifyWallet, PlaceInv
<1>4. Achieved(step)
  BY <1>3, MethodKinds DEF Achieved, Method
<1>5. ASSUME NEW result, TryEnds(result),
             UNCHANGED <<flow, awaited, denied, signed, captcha, chainVars>>
      PROVE  IInv'
  <2>1. UNCHANGED <<others, flow, nonce, wallet, actionable, selectable, signed, executed>>
    BY <1>5, Zenon DEF chainVars
  <2>2. denied' \in BOOLEAN /\ captcha' \in BOOLEAN /\ (denied' => FALSE)
    BY <1>1, <1>2, <1>5, Zenon
  <2> QED
    BY <1>1, <1>2, <1>4, <1>5, <2>1, <2>2, TryOver
<1>6. CASE WalletAnswered
  <2>1. /\ call' = [call EXCEPT !.st = "verify"] /\ UNCHANGED awaited
        /\ UNCHANGED <<flow, step, outcome, denied, succeeded, signed, captcha, chainVars>>
    BY <1>1, <1>2, <1>6 DEF WalletAnswered
  <2> QED
    BY <1>1, <1>2, <1>3, <2>1, WalletIsLookedAt
<1>7. CASE AddressFromDeploy
  <2>1. UNCHANGED <<flow, awaited, denied, signed, captcha, chainVars>>
    BY <1>7, Zenon DEF AddressFromDeploy
  <2>2. CASE call' = [call EXCEPT !.st = "verify"] /\ UNCHANGED <<step, outcome, succeeded>>
    <3>1. /\ UNCHANGED awaited
          /\ UNCHANGED <<flow, step, outcome, denied, succeeded, signed, captcha, chainVars>>
      BY <2>1, <2>2
    <3> QED
      BY <1>1, <1>2, <1>3, <2>2, <3>1, WalletIsLookedAt
  <2>3. CASE TryEnds("EventNotFound")
    BY <1>5, <2>1, <2>3
  <2> QED
    BY <1>7, <2>2, <2>3, Zenon DEF AddressFromDeploy
<1>8. CASE VerifyWallet
  <2>1. /\ UNCHANGED <<flow, awaited, denied, signed, captcha, chainVars>>
        /\ TryEnds("ok") \/ TryEnds("InvalidWallet")
    BY <1>8, Zenon DEF VerifyWallet
  <2> QED
    BY <1>5, <2>1
<1> QED
  BY <1>6, <1>7, <1>8

\* A receipt of success belongs to the step the client is at.
LEMMA ReceiptFoundIInv ==
    ASSUME IInv, ReceiptFound
    PROVE  IInv'
<1>1. /\ TypeOK /\ PlaceInv /\ call.st = "wait" /\ ~denied /\ awaited.st # "pending"
  BY CallIsAllowed DEF IInv, ReceiptFound
<1>2. awaited \in AwaitedType /\ others \subseteq OtherType /\ denied \in BOOLEAN /\ captcha \in BOOLEAN
  BY <1>1, TypeParts
<1>3. awaited'.st = "none" /\ awaited' \in AwaitedType
  BY IdleType DEF ReceiptFound, NoTx
<1>4. /\ UNCHANGED <<flow, denied, signed, captcha, chainVars>>
      /\ UNCHANGED <<others, nonce, wallet, actionable, selectable, executed>>
  BY Zenon DEF ReceiptFound, chainVars
<1>5. ReceiptResult(awaited.st) = "ok" => Achieved(step)
  BY <1>1 DEF ReceiptResult, PlaceInv
<1>6. CASE Method = "deployWallet" /\ ReceiptResult(awaited.st) = "ok"
  <2>1. call' = [call EXCEPT !.st = "event"] /\ UNCHANGED <<step, outcome, succeeded>>
    BY <1>6, Zenon DEF ReceiptFound
  <2>2. wallet
    BY <1>5, <1>6 DEF Achieved, Method
  <2>3. UNCHANGED <<flow, step, outcome, denied, succeeded, signed, captcha, chainVars>>
    BY <1>4, <2>1
  <2> QED
    BY <1>1, <1>3, <1>6, <2>1, <2>2, <2>3, WalletIsLookedAt
<1>7. CASE ~(Method = "deployWallet" /\ ReceiptResult(awaited.st) = "ok")
  <2>1. TryEnds(ReceiptResult(awaited.st))
    BY <1>7, Zenon DEF ReceiptFound
  <2>2. PICK result : result = ReceiptResult(awaited.st)
    OBVIOUS
  <2>3. denied' \in BOOLEAN /\ captcha' \in BOOLEAN /\ (denied' => FALSE)
    BY <1>1, <1>2, <1>4, Zenon
  <2> QED
    BY <1>2, <1>3, <1>4, <1>5, <2>1, <2>2, <2>3, TryOver
<1> QED
  BY <1>6, <1>7

\* A transaction nobody waits for any more joins the others.
LEMMA AbandonedTx ==
    ASSUME IInv, awaited.st = "pending"
    PROVE  /\ Signature(awaited) \in OtherType
           /\ Unspent(Signature(awaited).step, Signature(awaited).nonce)
           /\ flow[Signature(awaited).step] \in MetaTransactions \cup {"deployWallet"}
<1>1. /\ TypeOK /\ NonceInv /\ PlaceInv
  BY DEF IInv
<1>2. awaited \in AwaitedType /\ step \in DOMAIN flow
  BY <1>1, TypeParts
<1>3. /\ Signature(awaited) \in OtherType /\ Signature(awaited).step = step
      /\ Signature(awaited).nonce = awaited.nonce
  BY <1>2 DEF AwaitedType, OtherType, Signature
<1>4. Unspent(step, awaited.nonce) /\ Method \in MetaTransactions \cup {"deployWallet"}
  BY <1>1 DEF NonceInv, PlaceInv
<1> QED
  BY <1>3, <1>4 DEF Method

LEMMA ReceiptTimeoutIInv ==
    ASSUME IInv, ReceiptTimeout
    PROVE  IInv'
<1>1. /\ TypeOK /\ call.st = "wait" /\ ~denied /\ awaited.st = "pending"
  BY CallIsAllowed DEF IInv, ReceiptTimeout
<1>2. others \subseteq OtherType /\ denied \in BOOLEAN /\ captcha \in BOOLEAN
  BY <1>1, TypeParts
<1>3. awaited'.st = "none" /\ awaited' \in AwaitedType
  BY IdleType DEF ReceiptTimeout, NoTx
<1>4. /\ UNCHANGED <<flow, denied, signed, captcha, nonce, wallet, actionable, selectable, executed>>
      /\ others' = others \cup {Signature(awaited)} /\ TryEnds("Timeout")
  BY Zenon DEF ReceiptTimeout
<1>5. denied' \in BOOLEAN /\ captcha' \in BOOLEAN /\ (denied' => FALSE)
  BY <1>1, <1>2, <1>4, Zenon
<1>6. /\ others' \subseteq OtherType
      /\ \A t \in others' : t \in others \/
            (Unspent(t.step, t.nonce) /\ flow[t.step] \in MetaTransactions \cup {"deployWallet"})
  BY <1>1, <1>2, <1>4, AbandonedTx
<1> QED
  BY <1>3, <1>4, <1>5, <1>6, TryOver

\* The node fails, and the flow ends with it.
LEMMA NodeFailsIInv ==
    ASSUME IInv, NodeFails
    PROVE  IInv'
<1>1. /\ TypeOK /\ call.st # "idle" /\ ~denied
  BY CallIsAllowed DEF IInv, NodeFails
<1>2. /\ others \subseteq OtherType /\ denied \in BOOLEAN /\ captcha \in BOOLEAN
      /\ signed \in [DOMAIN flow -> Nat]
  BY <1>1, TypeParts
<1>3. awaited'.st = "none" /\ awaited' \in AwaitedType
  BY IdleType DEF NodeFails, NoTx
<1>4. /\ UNCHANGED <<flow, step, denied, succeeded, signed, captcha, nonce, wallet,
                     actionable, selectable, executed>>
      /\ others' = others \cup {Signature(t) : t \in {u \in {awaited} : u.st = "pending"}}
      /\ call' = Idle /\ outcome' = "rejected"
  BY Zenon DEF NodeFails
<1>5. PICK c : c = Idle
  OBVIOUS
<1>6. c \in CallType /\ c.st = "idle"
  BY <1>5, IdleType DEF Idle
<1>7. denied' = FALSE /\ captcha' \in BOOLEAN
  BY <1>1, <1>2, <1>4
<1>8. \A t \in others' : t \in others \/ (awaited.st = "pending" /\ t = Signature(awaited))
  BY <1>4
<1>9. /\ others' \subseteq OtherType
      /\ \A t \in others' : t \in others \/
            (Unspent(t.step, t.nonce) /\ flow[t.step] \in MetaTransactions \cup {"deployWallet"})
  BY <1>2, <1>8, AbandonedTx
<1>10. \A k \in DOMAIN flow : signed'[k] >= signed[k]
  BY <1>2, <1>4
<1> QED
  BY <1>2, <1>3, <1>4, <1>5, <1>6, <1>7, <1>9, <1>10, CallMoves

-----------------------------------------------------------------------------
(* The contracts *)

\* What a mined transaction may do to the facts above.
ChainGrows ==
    /\ nonce' \in Nat /\ wallet' \in BOOLEAN /\ selectable' \in BOOLEAN /\ actionable' \subseteq Issuers
    /\ wallet => wallet'
    /\ executed' \in [DOMAIN flow -> Nat]
    /\ \A k \in DOMAIN flow : executed'[k] =< signed[k]
    /\ \A k \in DOMAIN flow, n \in Nat : Unspent(k, n) => Unspent(k, n)'
    /\ \A k \in DOMAIN flow : Achieved(k) => Achieved(k)'

\* Executing a transaction makes every signature of its nonce stale.
LEMMA ExecuteGrows ==
    ASSUME IInv, UNCHANGED <<flow, signed>>, NEW k \in DOMAIN flow, flow[k] \in MetaTransactions,
           NEW tx, Executes(k, tx), Unspent(k, tx.nonce), Execute(k, tx.issuer)
    PROVE  ChainGrows /\ Achieved(k)'
<1>1. /\ nonce \in Nat /\ wallet \in BOOLEAN /\ selectable \in BOOLEAN /\ actionable \subseteq Issuers
      /\ executed \in [DOMAIN flow -> Nat] /\ signed \in [DOMAIN flow -> Nat]
      /\ \A x \in DOMAIN flow : executed[x] =< signed[x]
  BY TypeParts DEF IInv, ExecutedOncePerTry
<1>2. executed[k] < signed[k]
  BY DEF Executes, Unspent
<1>3. /\ executed' = [executed EXCEPT ![k] = @ + 1] /\ UNCHANGED wallet
      /\ nonce' = nonce + (IF flow[k] = "requestAttestations" THEN 2 ELSE 1)
  BY DEF Execute
<1>4. nonce' \in Nat /\ nonce' > nonce
  BY ONLY <1>1, <1>3
<1>5. /\ executed' \in [DOMAIN flow -> Nat] /\ executed'[k] = executed[k] + 1
      /\ \A x \in DOMAIN flow : x # k => executed'[x] = executed[x]
  BY ONLY <1>1, <1>3, k \in DOMAIN flow
<1>6. ASSUME NEW x \in DOMAIN flow
      PROVE  executed'[x] =< signed[x] /\ (executed[x] > 0 => executed'[x] > 0)
  <2>1. executed[x] \in Nat /\ signed[x] \in Nat /\ executed[x] =< signed[x]
    BY <1>1
  <2>2. CASE x = k
    BY ONLY <1>2, <1>5, <2>1, <2>2
  <2>3. CASE x # k
    BY ONLY <1>5, <2>1, <2>3, x \in DOMAIN flow
  <2> QED
    BY <2>2, <2>3
<1>7. ASSUME NEW x \in DOMAIN flow, NEW n \in Nat, Unspent(x, n)
      PROVE  Unspent(x, n)'
  <2>1. n =< nonce => n =< nonce' /\ n # nonce'
    BY ONLY <1>1, <1>4, n \in Nat
  <2> QED
    BY <1>7, <2>1 DEF Unspent
<1>8. \A x \in DOMAIN flow : Achieved(x) => Achieved(x)'
  BY <1>3, <1>6 DEF Achieved
<1>9. Achieved(k)'
  <2>1. executed'[k] > 0 /\ flow[k] # "deployWallet"
    <3>1. executed[k] \in Nat
      BY <1>1
    <3> QED
      BY <1>5, <3>1, MethodKinds
  <2> QED
    BY <2>1 DEF Achieved
<1>10. selectable' \in BOOLEAN
  BY <1>1 DEF Execute
<1>11. actionable' \subseteq Issuers
  <2>1. actionable' \in {Issuers, actionable \ {tx.issuer}, actionable}
    BY DEF Execute
  <2> QED
    BY <1>1, <2>1
<1>12. wallet' \in BOOLEAN /\ (wallet => wallet')
  BY <1>1, <1>3, Zenon
<1> QED
  BY <1>4, <1>5, <1>6, <1>7, <1>8, <1>9, <1>10, <1>11, <1>12 DEF ChainGrows

LEMMA DeployGrows ==
    ASSUME IInv, UNCHANGED <<flow, signed>>, Deploy
    PROVE  ChainGrows
<1>1. /\ nonce \in Nat /\ selectable \in BOOLEAN /\ actionable \subseteq Issuers
      /\ executed \in [DOMAIN flow -> Nat]
      /\ \A x \in DOMAIN flow : executed[x] =< signed[x]
  BY TypeParts DEF IInv, ExecutedOncePerTry
<1>2. wallet' = TRUE /\ UNCHANGED <<nonce, actionable, selectable, executed>>
  BY DEF Deploy
<1>3. wallet' \in BOOLEAN /\ selectable' \in BOOLEAN
  BY <1>1, <1>2, Zenon
<1>4. \A k \in DOMAIN flow, n \in Nat : Unspent(k, n) => Unspent(k, n)'
  BY <1>2 DEF Unspent
<1>5. \A k \in DOMAIN flow : Achieved(k) => Achieved(k)'
  BY <1>2 DEF Achieved
<1> QED
  BY <1>1, <1>2, <1>3, <1>4, <1>5 DEF ChainGrows

LEMMA NothingGrows ==
    ASSUME IInv, UNCHANGED <<flow, signed, nonce, wallet, actionable, selectable, executed>>
    PROVE  ChainGrows
<1>1. /\ nonce \in Nat /\ selectable \in BOOLEAN /\ wallet \in BOOLEAN /\ actionable \subseteq Issuers
      /\ executed \in [DOMAIN flow -> Nat]
      /\ \A x \in DOMAIN flow : executed[x] =< signed[x]
  BY TypeParts DEF IInv, ExecutedOncePerTry
<1> QED
  BY <1>1, Zenon DEF ChainGrows, Unspent, Achieved

\* The client stands still while a transaction is mined.
LEMMA ChainGrowsIInv ==
    ASSUME IInv, ChainGrows,
           UNCHANGED <<flow, step, outcome, call, denied, succeeded, captcha, signed>>,
           others' \subseteq others, awaited' \in AwaitedType, awaited'.nonce = awaited.nonce,
           awaited'.st = "none" <=> awaited.st = "none",
           awaited'.st = "pending" => awaited.st = "pending",
           awaited'.st = "success" => awaited.st = "success" \/ Achieved(step)'
    PROVE  IInv'
<1>1. TypeOK /\ NonceInv /\ PlaceInv /\ OkMeansExecuted /\ UnauthorisedStops
  BY DEF IInv
<1>2. /\ others \subseteq OtherType /\ step \in DOMAIN flow /\ succeeded \subseteq DOMAIN flow
      /\ awaited.nonce \in Nat /\ call.nonce \in Nat
  <2>1. awaited \in AwaitedType /\ call \in CallType
    BY <1>1, TypeParts
  <2>2. awaited.nonce \in Nat /\ call.nonce \in Nat
    BY <2>1 DEF AwaitedType, CallType
  <2> QED
    BY <1>1, <2>2, TypeParts
<1>3. TypeOK'
  <2>1. others' \subseteq OtherType'
    BY <1>2 DEF OtherType
  <2> QED
    BY <1>1, <2>1, TypeParts, TypePartsNext, Zenon DEF ChainGrows
<1>4. NonceInv'
  <2>1. ASSUME NEW t \in others'
        PROVE  Unspent(t.step, t.nonce)' /\ flow'[t.step] \in MetaTransactions \cup {"deployWallet"}
    <3>1. Unspent(t.step, t.nonce) /\ flow[t.step] \in MetaTransactions \cup {"deployWallet"}
      BY <1>1 DEF NonceInv
    <3>2. t.step \in DOMAIN flow /\ t.nonce \in Nat
      BY <1>2 DEF OtherType
    <3> QED
      BY <3>1, <3>2 DEF ChainGrows
  <2>2. awaited'.st = "pending" => Unspent(step, awaited.nonce)'
    BY <1>1, <1>2 DEF NonceInv, ChainGrows, Unspent
  <2>3. call'.st = "send" => Unspent(step, call.nonce)'
    BY <1>1, <1>2 DEF NonceInv, ChainGrows, Unspent
  <2> QED
    BY <2>1, <2>2, <2>3 DEF NonceInv
<1>5. PlaceInv'
  <2>1. awaited'.st = "success" => Achieved(step)'
    BY <1>1, <1>2 DEF PlaceInv, ChainGrows
  <2>2. wallet => wallet'
    BY DEF ChainGrows
  <2> QED
    BY <1>1, <2>1, <2>2 DEF PlaceInv, Method
<1>6. OkMeansExecuted'
  <2>1. \A k \in succeeded : Achieved(k)
    BY <1>1 DEF OkMeansExecuted, Achieved
  <2>2. \A k \in succeeded : Achieved(k)'
    BY <1>2, <2>1 DEF ChainGrows
  <2> QED
    BY <2>2 DEF OkMeansExecuted, Achieved
<1>7. ExecutedOncePerTry'
  BY DEF ChainGrows, ExecutedOncePerTry
<1>8. UnauthorisedStops'
  BY <1>1 DEF UnauthorisedStops, AtCodes, Method
<1> QED
  BY <1>3, <1>4, <1>5, <1>6, <1>7, <1>8 DEF IInv

LEMMA AwaitedMinedIInv ==
    ASSUME IInv, AwaitedMined
    PROVE  IInv'
<1>1. /\ TypeOK /\ NonceInv /\ PlaceInv /\ awaited.st = "pending"
  BY DEF IInv, AwaitedMined
<1>2. /\ awaited \in AwaitedType /\ step \in DOMAIN flow
      /\ Method \in MetaTransactions \cup {"deployWallet"}
      /\ Unspent(step, awaited.nonce)
  BY <1>1, TypeParts DEF NonceInv, PlaceInv
<1>3. UNCHANGED <<flow, step, outcome, call, denied, succeeded, captcha, others, signed>>
  BY Zenon DEF AwaitedMined
<1>4. ASSUME NEW st \in {"success", "reverted"}, awaited' = [awaited EXCEPT !.st = st]
      PROVE  /\ awaited' \in AwaitedType /\ awaited'.nonce = awaited.nonce
             /\ awaited'.st = st /\ st # "none" /\ st # "pending"
  BY <1>2, <1>4 DEF AwaitedType
<1>5. CASE awaited' = [awaited EXCEPT !.st = "reverted"] /\ UNCHANGED chainVars
  <2>1. UNCHANGED <<flow, signed, nonce, wallet, actionable, selectable, executed>>
    BY <1>3, <1>5, Zenon DEF chainVars
  <2>2. ChainGrows
    BY <2>1, NothingGrows
  <2> QED
    BY <1>1, <1>3, <1>4, <1>5, <2>2, ChainGrowsIInv
<1>6. CASE /\ awaited' = [awaited EXCEPT !.st = "success"] /\ Method # "deployWallet"
           /\ Executes(step, awaited) /\ Execute(step, awaited.issuer)
  <2>1. flow[step] \in MetaTransactions
    BY <1>2, <1>6 DEF Method
  <2>2. ChainGrows /\ Achieved(step)'
    <3>1. PICK k : k = step
      OBVIOUS
    <3>2. PICK tx : tx = awaited
      OBVIOUS
    <3>3. ChainGrows /\ Achieved(k)'
      BY <1>2, <1>3, <1>6, <2>1, <3>1, <3>2, ExecuteGrows
    <3> QED
      BY <1>3, <3>1, <3>3 DEF Achieved
  <2> QED
    BY <1>1, <1>3, <1>4, <1>6, <2>2, ChainGrowsIInv
<1>7. CASE awaited' = [awaited EXCEPT !.st = "success"] /\ Method = "deployWallet" /\ Deploy
  <2>1. ChainGrows
    BY <1>3, <1>7, DeployGrows
  <2>2. Achieved(step)'
    BY <1>3, <1>7, MethodKinds DEF Achieved, Deploy, Method
  <2> QED
    BY <1>1, <1>3, <1>4, <1>7, <2>1, <2>2, ChainGrowsIInv
<1> QED
  BY <1>5, <1>6, <1>7, Zenon DEF AwaitedMined

LEMMA OtherMinedIInv ==
    ASSUME IInv, OtherMined
    PROVE  IInv'
<1>1. TypeOK /\ NonceInv
  BY DEF IInv
<1>2. /\ UNCHANGED <<flow, step, outcome, call, denied, succeeded, captcha, signed>>
      /\ UNCHANGED awaited
  BY Zenon DEF OtherMined, clientVars
<1>3. awaited \in AwaitedType /\ others \subseteq OtherType
  BY <1>1, TypeParts
<1>4. PICK t \in others :
        /\ others' = others \ {t}
        /\ \/ flow[t.step] = "deployWallet" /\ Deploy
           \/ flow[t.step] # "deployWallet" /\ Executes(t.step, t) /\ Execute(t.step, t.issuer)
           \/ UNCHANGED <<nonce, wallet, actionable, selectable, executed>>
  BY Zenon DEF OtherMined
<1>5. /\ t.step \in DOMAIN flow /\ Unspent(t.step, t.nonce)
      /\ flow[t.step] \in MetaTransactions \cup {"deployWallet"}
  BY <1>1, <1>3 DEF NonceInv, OtherType
<1>6. ChainGrows
  <2>1. CASE flow[t.step] = "deployWallet" /\ Deploy
    BY <1>2, <2>1, DeployGrows
  <2>2. CASE flow[t.step] # "deployWallet" /\ Executes(t.step, t) /\ Execute(t.step, t.issuer)
    BY <1>2, <1>5, <2>2, ExecuteGrows
  <2>3. CASE UNCHANGED <<nonce, wallet, actionable, selectable, executed>>
    BY <1>2, <2>3, NothingGrows
  <2> QED
    BY <1>4, <2>1, <2>2, <2>3
<1>7. /\ others' \subseteq others /\ awaited' \in AwaitedType /\ awaited' = awaited
  BY <1>2, <1>3, <1>4
<1> QED
  BY <1>2, <1>6, <1>7, ChainGrowsIInv

-----------------------------------------------------------------------------
(* The specification *)

LEMMA InitIInv == Init => IInv
<1> SUFFICES ASSUME Init PROVE IInv
  OBVIOUS
<1>1. /\ flow \in Flows /\ step = 1 /\ outcome = "running"
      /\ call = Idle /\ awaited = NoTx /\ denied = FALSE /\ succeeded = {}
      /\ captcha = TRUE /\ others = {} /\ nonce = 0 /\ wallet = FALSE
      /\ actionable = {} /\ selectable = FALSE
      /\ signed = [k \in DOMAIN flow |-> 0] /\ executed = [k \in DOMAIN flow |-> 0]
  BY DEF Init
<1>2. flow \in Seq(Methods) /\ flow # <<>>
  BY <1>1, KitAssumption
<1>3. step \in DOMAIN flow
  BY <1>1, <1>2
<1>4. call.st = "idle" /\ awaited.st = "none"
  BY <1>1 DEF Idle, NoTx
<1>5. TypeOK
  <2>1. call \in CallType /\ awaited \in AwaitedType
    BY <1>1, IdleType
  <2>2. denied \in BOOLEAN /\ captcha \in BOOLEAN /\ wallet \in BOOLEAN /\ selectable \in BOOLEAN
    BY ONLY <1>1, Zenon
  <2>3. signed \in [DOMAIN flow -> Nat] /\ executed \in [DOMAIN flow -> Nat]
    BY ONLY <1>1
  <2>4. /\ outcome \in {"running", "done", "failed", "exit", "rejected"}
        /\ succeeded \subseteq DOMAIN flow /\ others \subseteq OtherType
        /\ nonce \in Nat /\ actionable \subseteq Issuers
    BY ONLY <1>1
  <2> QED
    BY ONLY <1>1, <1>3, <2>1, <2>2, <2>3, <2>4, TypeParts, Zenon
<1>6. NonceInv /\ PlaceInv
  BY ONLY <1>1, <1>4 DEF NonceInv, PlaceInv
<1>7. OkMeansExecuted /\ UnauthorisedStops
  BY ONLY <1>1 DEF OkMeansExecuted, UnauthorisedStops
<1>8. ExecutedOncePerTry
  BY ONLY <1>1 DEF ExecutedOncePerTry
<1> QED
  BY <1>5, <1>6, <1>7, <1>8 DEF IInv

LEMMA NextIInv == IInv /\ [Next]_vars => IInv'
<1> SUFFICES ASSUME IInv, [Next]_vars PROVE IInv'
  OBVIOUS
<1>1. CASE UNCHANGED vars
  <2>1. /\ UNCHANGED <<flow, step, outcome, call, awaited, denied, succeeded, captcha, others>>
        /\ UNCHANGED <<nonce, wallet, actionable, selectable, signed, executed>>
    BY <1>1, Zenon DEF vars
  <2>2. TypeOK'
    <3>1. TypeOK /\ OtherType' = OtherType
      BY <2>1 DEF IInv, OtherType
    <3> QED
      BY <2>1, <3>1, TypeParts, TypePartsNext, Zenon
  <2>3. NonceInv' /\ PlaceInv'
    BY <2>1, Zenon DEF IInv, NonceInv, Unspent, PlaceInv, Achieved, Method
  <2>4. OkMeansExecuted' /\ ExecutedOncePerTry' /\ UnauthorisedStops'
    BY <2>1, Zenon DEF IInv, OkMeansExecuted, ExecutedOncePerTry, UnauthorisedStops,
        AtCodes, Method
  <2> QED
    BY <2>2, <2>3, <2>4 DEF IInv
<1>2. CASE Application
  BY <1>2, ApplicationIInv
<1>3. CASE Kit
  <2>1. CASE LoginSignature
    BY <2>1, LoginSignatureIInv
  <2>2. CASE Sign \/ Build
    BY <2>2, SignIInv
  <2>3. CASE RequestFails \/ RequestLost \/ CaptchaSpent
    BY <2>3, RequestIInv
  <2>4. CASE QueryAnswered
    BY <2>4, QueryAnsweredIInv
  <2>5. CASE TransactionSent
    BY <2>5, TransactionSentIInv
  <2>6. CASE WalletAnswered \/ AddressFromDeploy \/ VerifyWallet
    BY <2>6, WalletIInv
  <2>7. CASE ReceiptFound
    BY <2>7, ReceiptFoundIInv
  <2>8. CASE ReceiptTimeout
    BY <2>8, ReceiptTimeoutIInv
  <2> QED
    BY <1>3, <2>1, <2>2, <2>3, <2>4, <2>5, <2>6, <2>7, <2>8, Zenon DEF Kit
<1>4. CASE NodeFails
  BY <1>4, NodeFailsIInv
<1>5. CASE AwaitedMined
  BY <1>5, AwaitedMinedIInv
<1>6. CASE OtherMined
  BY <1>6, OtherMinedIInv
<1> QED
  BY <1>1, <1>2, <1>3, <1>4, <1>5, <1>6, Zenon DEF Next

LEMMA SpecIInv == Spec => []IInv
  BY InitIInv, NextIInv, PTL DEF Spec

\* Every variable keeps its type: in particular no try and no request is
\* counted beyond the decorators' limits, and the flow is never overrun.
THEOREM TypeCorrect == Spec => []TypeOK
<1>1. IInv => TypeOK
  BY DEF IInv
<1> QED
  BY <1>1, SpecIInv, PTL

\* waitForReceipt, submitMetaTransaction, deployWallet: for any flow and any
\* number of tries, a method that returned Ok has had its transaction executed.
THEOREM OkWasExecuted == Spec => []OkMeansExecuted
<1>1. IInv => OkMeansExecuted
  BY DEF IInv
<1> QED
  BY <1>1, SpecIInv, PTL

\* kit.ts signs in every try, exec repeats what was signed: however often a
\* request is repeated, lost or given up, a step is executed at most once per
\* try that signed it.
THEOREM OneExecutionPerTry == Spec => []ExecutedOncePerTry
<1>1. IInv => ExecutedOncePerTry
  BY DEF IInv
<1> QED
  BY <1>1, SpecIInv, PTL

\* bailOnErrorTypes: for any numbers of tries, neither exec nor a method goes
\* on after an answer "Unauthorised", and the flow ends.
THEOREM UnauthorisedEnds == Spec => []UnauthorisedStops
<1>1. IInv => UnauthorisedStops
  BY DEF IInv
<1> QED
  BY <1>1, SpecIInv, PTL
===============================================================================
