------------------------------- MODULE Session --------------------------------
(***************************************************************************)
(* Sessions of the public API: who may ask the relayer for how much.       *)
(*   packages/apps/api/src/session/session.service.ts, quota.guard.ts      *)
(*   packages/apps/api/src/auth/auth.service.ts                            *)
(*   packages/apps/api/src/wallet/wallet.service.ts                        *)
(*   packages/apps/api/src/app.controller.ts                               *)
(*                                                                         *)
(* Every request authenticates by reading its session's row.  The handler  *)
(* works on that copy across all its awaits: the quota is checked on it,   *)
(* and what it finally writes is the copy with one field changed.          *)
(*                                                                         *)
(* The relayer and the chain are external.  A session is the number of its *)
(* row, a wallet deployment the number of its transaction.                 *)
(***************************************************************************)
EXTENDS Naturals, Sequences, FiniteSets

CONSTANTS
    Accounts,        \* external accounts
    Implementations, \* MetaTransactionWalletVersions
    Requests,        \* bound: HTTP requests, each is made once
    Quota,           \* quotaConfig: tracked action |-> its quota
    MaxRequested,    \* bound: attestationsRequested
    MaxSessions,     \* bound: rows of session
    MaxDeploys       \* bound: wallet deployments

TrackedAction ==
    {"distributedBlindedPepper", "requestSubsidisedAttestation", "submitMetaTransaction"}

ASSUME SessionAssumption ==
    /\ Quota \in [TrackedAction -> Nat \ {0}]
    /\ MaxRequested \in Nat \ {0}
    /\ MaxSessions \in Nat /\ MaxDeploys \in Nat

\* An address is sent with or without capitals.  Rows hold normalizeAddress of
\* it, without; findLastForAccount compares with trimLeading0x of it, which
\* keeps them.
Spellings == {"lower", "mixed"}

NoDeploy == 0
AnyImplementation == "any"

VARIABLES
    sessions,    \* the rows of session, in the order of createdAt
    requests,    \* request |-> its progress
    deployments, \* the wallet deployments the relayer has sent
    served,      \* ghost: session |-> action |-> what the relayer executed
    lost,        \* ghost: the part of served whose usage was never written
    overlapped,  \* ghost: sessions that had two requests open at the same time
    careless     \* ghost: accounts that sent an address with capitals, or
                 \* started two sessions at the same time

vars == <<sessions, requests, deployments, served, lost, overlapped, careless>>

NoCounts == [a \in TrackedAction |-> 0]
NoMeta == [callCount |-> NoCounts, walletDeploy |-> NoDeploy]

\* A request: st the await it is in, kind its endpoint, session and meta the
\* copy of the row, count what it will be charged, hash the deployment sent.
NewRequest == [st |-> "new", kind |-> "none", session |-> 0, meta |-> NoMeta,
               impl |-> AnyImplementation, count |-> 0, hash |-> NoDeploy,
               account |-> "none"]

\* What is left of a request that has been answered.
Done == [NewRequest EXCEPT !.st = "done"]

\* The steps of a handler, by the await that follows.
Open == {"wallet", "deploy", "relay", "record"}

Step(r, st) == requests' = [requests EXCEPT ![r].st = st]
Answer(r) == requests' = [requests EXCEPT ![r] = Done]

-----------------------------------------------------------------------------
(* startSession *)

\* quotaLeft is positive for every action.
hasQuota(meta) == \A a \in TrackedAction : meta.callCount[a] < Quota[a]

SessionsOf(a) == {s \in DOMAIN sessions : sessions[s].account = a}

\* Mutant of the next definition: the 0x of the address is not trimmed.
FoundUntrimmed(a, spelling) == {}

\* findLastForAccount: no row matches an address that is spelled with capitals.
Found(a, spelling) ==
    IF spelling = "lower" THEN {s \in SessionsOf(a) : \A t \in SessionsOf(a) : t =< s} ELSE {}

\* Past the throttler and the gateway's rules, findOrCreateForAccount: the
\* last session is handed out again if it has quota for every action; otherwise
\* a new one is saved, an await later.
StartSession(r, a, spelling) ==
    /\ requests[r].st = "new"
    /\ requests' = [requests EXCEPT ![r] =
            IF \E s \in Found(a, spelling) : hasQuota(sessions[s].meta) THEN Done
            ELSE [NewRequest EXCEPT !.st = "create", !.account = a]]
    /\ careless' = IF spelling = "mixed" \/ \E q \in Requests : requests[q].account = a
                   THEN careless \cup {a} ELSE careless
    /\ UNCHANGED <<sessions, deployments, served, lost, overlapped>>

CreateSession(r) ==
    /\ requests[r].st = "create" /\ Len(sessions) < MaxSessions
    /\ sessions' = Append(sessions, [account |-> requests[r].account, meta |-> NoMeta])
    /\ Answer(r)
    /\ UNCHANGED <<deployments, served, lost, overlapped, careless>>

-----------------------------------------------------------------------------
(* Requests of a session *)

OpenRequests(s) == {r \in Requests : requests[r].st \in Open /\ requests[r].session = s}

\* recoverSession reads the row, for any token ever handed out.
Authenticated(r, s, kind, st, impl, count) ==
    /\ requests[r].st = "new"
    /\ requests' = [requests EXCEPT ![r] =
            [NewRequest EXCEPT !.st = st, !.kind = kind, !.session = s,
                               !.meta = sessions[s].meta, !.impl = impl, !.count = count]]
    /\ overlapped' = overlapped \cup (IF OpenRequests(s) = {} THEN {} ELSE {s})
    /\ UNCHANGED <<sessions, deployments, served, lost, careless>>

\* Mutant of the next definition: the comparison is off by one.
QuotaGuardInclusive(meta, a) == meta.callCount[a] =< Quota[a]

\* QuotaGuard, on the copy.  A request over its quota is refused at once.
QuotaGuard(meta, a) == meta.callCount[a] < Quota[a]

Requested(a) == IF a = "requestSubsidisedAttestation" THEN 1 .. MaxRequested ELSE {1}

TrackedRequest(r, s) ==
    \E a \in TrackedAction : \E count \in Requested(a) :
        /\ QuotaGuard(sessions[s].meta, a)
        /\ Authenticated(r, s, a, "relay", AnyImplementation, count)

DeployWallet(r, s) ==
    \E impl \in Implementations : Authenticated(r, s, "deployWallet", "wallet", impl, 0)

\* A handler rejects: an invalid wallet or transaction, an unknown
\* implementation, an error of the node, the relayer or the database, or no
\* transaction to be found for the recorded hash.  Nothing has been written.
Rejected(r) ==
    /\ requests[r].st \in {"create", "wallet", "deploy", "relay"}
    /\ Answer(r)
    /\ UNCHANGED <<sessions, deployments, served, lost, overlapped, careless>>

-----------------------------------------------------------------------------
(* The wallet of a session *)

\* Mutant of the next definition: the implementation has to be given.
hasDeployInProgressExact(meta, impl) ==
    /\ meta.walletDeploy # NoDeploy
    /\ impl = deployments[meta.walletDeploy].impl
    /\ ~deployments[meta.walletDeploy].late

\* hasDeployInProgress: the last deployment the copy knows of, until its
\* deadline passes.
hasDeployInProgress(meta, impl) ==
    /\ meta.walletDeploy # NoDeploy
    /\ impl \in {deployments[meta.walletDeploy].impl, AnyImplementation}
    /\ ~deployments[meta.walletDeploy].late

\* getWallet: the wallet is only looked up while its deployment is in progress.
getWallet(meta, impl) ==
    /\ hasDeployInProgress(meta, impl)
    /\ deployments[meta.walletDeploy].st = "deployed"

\* checkSession: whether it reports a wallet.
checkSession(s) == getWallet(sessions[s].meta, AnyImplementation)

\* getWallet rejects when the node does not know the transaction.
Unknown(meta, impl) ==
    hasDeployInProgress(meta, impl) /\ deployments[meta.walletDeploy].st = "replaced"

\* deployWallet of the controller: the wallet is returned if there is one.
LookUpWallet(r) ==
    /\ requests[r].st = "wallet" /\ requests[r].kind = "deployWallet"
    /\ ~Unknown(requests[r].meta, requests[r].impl)
    /\ IF getWallet(requests[r].meta, requests[r].impl) THEN Answer(r) ELSE Step(r, "deploy")
    /\ UNCHANGED <<sessions, deployments, served, lost, overlapped, careless>>

\* deployWallet of the service: hasDeployInProgress is asked again, later.
StartDeploy(r) ==
    /\ requests[r].st = "deploy"
    /\ IF hasDeployInProgress(requests[r].meta, requests[r].impl) THEN Answer(r)
       ELSE Step(r, "relay")
    /\ UNCHANGED <<sessions, deployments, served, lost, overlapped, careless>>

-----------------------------------------------------------------------------
(* The relayer *)

\* What the relayer does for a request.
Executed(q) ==
    \/ /\ q.kind = "deployWallet" /\ Len(deployments) < MaxDeploys
       /\ deployments' = Append(deployments,
            [session |-> q.session, impl |-> q.impl, st |-> "pending",
             recorded |-> FALSE, late |-> FALSE])
       /\ UNCHANGED served
    \/ /\ q.kind \in TrackedAction
       /\ served' = [served EXCEPT ![q.session][q.kind] = @ + q.count]
       /\ UNCHANGED deployments

\* It was executed, but its usage will not be written.
Uncharged(q) ==
    lost' = IF q.kind = "deployWallet" THEN lost
            ELSE [lost EXCEPT ![q.session][q.kind] = @ + q.count]

\* Mutant of the next definition: a request the relayer failed is charged too.
RelayedOrFailed(r) ==
    /\ requests[r].st = "relay" /\ requests[r].kind \in TrackedAction
    /\ Step(r, "record")
    /\ UNCHANGED <<sessions, deployments, served, lost, overlapped, careless>>

\* The relayer answers in time.
Relayed(r) ==
    /\ requests[r].st = "relay"
    /\ Executed(requests[r])
    /\ requests' = [requests EXCEPT ![r].st = "record", ![r].hash = Len(deployments')]
    /\ UNCHANGED <<sessions, lost, overlapped, careless>>

\* The timeout wins the race against the relayer's answer: the request is
\* answered with an error, but what it asked for stays with the relayer.
RelayTimesOut(r) ==
    /\ requests[r].st = "relay"
    /\ requests' = [requests EXCEPT ![r].st = "abandoned", ![r].meta = NoMeta]
    /\ UNCHANGED <<sessions, deployments, served, lost, overlapped, careless>>

\* The relayer executes it all the same, at any later time or never: nobody
\* waits for the answer.
LateExecution(r) ==
    /\ requests[r].st = "abandoned"
    /\ Executed(requests[r]) /\ Uncharged(requests[r])
    /\ Answer(r)
    /\ UNCHANGED <<sessions, overlapped, careless>>

\* Mutant of the next definition: the rest of meta is not carried over.
incrementUsageOnly(r) ==
    LET q == requests[r] IN
    /\ q.st = "record" /\ q.kind \in TrackedAction
    /\ sessions' = [sessions EXCEPT ![q.session].meta =
            [NoMeta EXCEPT !.callCount = [q.meta.callCount EXCEPT ![q.kind] = @ + q.count]]]
    /\ Answer(r)
    /\ UNCHANGED <<deployments, served, lost, overlapped, careless>>

\* incrementUsage writes the whole of meta, as it was read at authentication.
incrementUsage(r) ==
    LET q == requests[r] IN
    /\ q.st = "record" /\ q.kind \in TrackedAction
    /\ sessions' = [sessions EXCEPT ![q.session].meta =
            [q.meta EXCEPT !.callCount[q.kind] = @ + q.count]]
    /\ Answer(r)
    /\ UNCHANGED <<deployments, served, lost, overlapped, careless>>

\* Mutant of the next definition: the implementation is stored as the hash.
RecordDeployImplementation(r) ==
    LET q == requests[r] IN
    /\ q.st = "record" /\ q.kind = "deployWallet"
    /\ sessions' = [sessions EXCEPT ![q.session].meta = [q.meta EXCEPT !.walletDeploy = q.impl]]
    /\ Answer(r)
    /\ UNCHANGED <<deployments, served, lost, overlapped, careless>>

\* deployWallet writes the whole of meta too.  Its deadline counts from here.
RecordDeploy(r) ==
    LET q == requests[r] IN
    /\ q.st = "record" /\ q.kind = "deployWallet"
    /\ sessions' = [sessions EXCEPT ![q.session].meta = [q.meta EXCEPT !.walletDeploy = q.hash]]
    /\ deployments' = [deployments EXCEPT ![q.hash].recorded = TRUE]
    /\ Answer(r)
    /\ UNCHANGED <<served, lost, overlapped, careless>>

\* The update is rejected, after the relayer has executed.
NotRecorded(r) ==
    /\ requests[r].st = "record"
    /\ Uncharged(requests[r])
    /\ Answer(r)
    /\ UNCHANGED <<sessions, deployments, served, overlapped, careless>>

\* The chain (external): a deployment is mined with or without its event, or
\* the relayer replaces it by a dead letter and the node forgets it.
DeploySettles ==
    /\ \E d \in DOMAIN deployments, st \in {"deployed", "reverted", "replaced"} :
        /\ deployments[d].st = "pending"
        /\ deployments' = [deployments EXCEPT ![d].st = st]
    /\ UNCHANGED <<sessions, requests, served, lost, overlapped, careless>>

\* startedAt + transactionTimeoutMs is over.
DeadlinePasses ==
    /\ \E d \in DOMAIN deployments :
        /\ deployments[d].recorded /\ ~deployments[d].late
        /\ deployments' = [deployments EXCEPT ![d].late = TRUE]
    /\ UNCHANGED <<sessions, requests, served, lost, overlapped, careless>>

-----------------------------------------------------------------------------
(* The specification *)

Init ==
    /\ sessions = <<>>
    /\ requests = [r \in Requests |-> NewRequest]
    /\ deployments = <<>>
    /\ served = [s \in 1 .. MaxSessions |-> NoCounts]
    /\ lost = [s \in 1 .. MaxSessions |-> NoCounts]
    /\ overlapped = {} /\ careless = {}

Handler(r) ==
    \/ \E a \in Accounts, spelling \in Spellings : StartSession(r, a, spelling)
    \/ CreateSession(r)
    \/ \E s \in DOMAIN sessions : TrackedRequest(r, s) \/ DeployWallet(r, s)
    \/ LookUpWallet(r) \/ StartDeploy(r)
    \/ Relayed(r) \/ RelayTimesOut(r) \/ LateExecution(r)
    \/ incrementUsage(r) \/ RecordDeploy(r) \/ NotRecorded(r)
    \/ Rejected(r)

Next == DeploySettles \/ DeadlinePasses \/ \E r \in Requests : Handler(r)

Spec == Init /\ [][Next]_vars

-----------------------------------------------------------------------------
(* Properties *)

SessionIds == 1 .. MaxSessions
Metas == [callCount : [TrackedAction -> Nat], walletDeploy : 0 .. MaxDeploys]
Kinds == TrackedAction \cup {"deployWallet", "none"}

\* Every variable has its type.
TypeOK ==
    /\ sessions \in Seq([account : Accounts, meta : Metas]) /\ Len(sessions) =< MaxSessions
    /\ requests \in [Requests -> [st : Open \cup {"new", "create", "abandoned", "done"}, kind : Kinds,
            session : {0} \cup SessionIds, meta : Metas,
            impl : Implementations \cup {AnyImplementation},
            count : 0 .. MaxRequested, hash : 0 .. MaxDeploys, account : Accounts \cup {"none"}]]
    /\ deployments \in Seq([session : SessionIds, impl : Implementations,
            st : {"pending", "deployed", "reverted", "replaced"},
            recorded : BOOLEAN, late : BOOLEAN])
    /\ Len(deployments) =< MaxDeploys
    /\ served \in [SessionIds -> [TrackedAction -> Nat]]
    /\ lost \in [SessionIds -> [TrackedAction -> Nat]]
    /\ overlapped \subseteq SessionIds /\ careless \subseteq Accounts

\* A session is never charged for more than the relayer executed for it, in
\* whichever order parallel requests write their copies of the row.
\* (incrementUsage, deployWallet)
NeverOvercharged ==
    \A s \in DOMAIN sessions, a \in TrackedAction :
        sessions[s].meta.callCount[a] =< served[s][a]

\* A client that makes one request at a time gets no more than its quota out
\* of a session, the last request excepted, which may ask for MaxRequested
\* attestations with one left.  What timed out or could not be written is not
\* charged.  (QuotaGuard and incrementUsage)
QuotaIsEnforced ==
    \A s \in DOMAIN sessions \ overlapped, a \in TrackedAction :
        served[s][a] - lost[s][a] =< Quota[a] - 1 + (CHOOSE n \in Requested(a) :
                                                        \A m \in Requested(a) : m =< n)

\* The last deployment of its session that the client was told about.
LastTold(d) ==
    /\ deployments[d].recorded
    /\ \A e \in DOMAIN deployments :
        deployments[e].recorded /\ deployments[e].session = deployments[d].session => e =< d

\* What the relayer executes in a step is for a request that timed out.
ForAbandoned == \E r \in Requests : requests[r].st = "abandoned" /\ requests'[r].st = "done"

\* For such a client no second deployment of the same wallet is sent before the
\* deadline of the last one it was told about, unless the relayer comes to it
\* after the request for it has timed out.  (hasDeployInProgress, and the
\* walletDeploy that incrementUsage has to carry over)
OneDeployAtATime ==
    [][\A d \in DOMAIN deployments :
        LET next == Len(deployments) + 1 IN
        /\ Len(deployments') = next /\ ~ForAbandoned
        /\ deployments[d].session = deployments'[next].session
        /\ deployments[d].impl = deployments'[next].impl
        /\ LastTold(d) /\ deployments[d].session \notin overlapped
        => deployments[d].late]_vars

\* An account gets another session only when its last one has run out: at any
\* time one session at most can still be used for every action, if the client
\* makes one request at a time and sends its address without capitals.
\* (findOrCreateForAccount)
OneSessionWithQuota ==
    \A s, t \in DOMAIN sessions \ overlapped :
        /\ sessions[s].account = sessions[t].account /\ sessions[s].account \notin careless
        /\ hasQuota(sessions[s].meta) /\ hasQuota(sessions[t].meta)
        => s = t

\* packages/libs/komencikit/src/kit.ts:102 checkSession returns "optionally a
\* wallet address if one was deployed during the session".  It does for the
\* last deployment such a client was told about, until the deadline of that
\* deployment passes.  (checkSession, getWallet, and every write of meta)
WalletIsReported ==
    \A d \in DOMAIN deployments :
        /\ deployments[d].st = "deployed" /\ ~deployments[d].late
        /\ LastTold(d) /\ deployments[d].session \notin overlapped
        => checkSession(deployments[d].session)
===============================================================================
