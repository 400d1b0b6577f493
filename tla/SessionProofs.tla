---------------------------- MODULE SessionProofs ----------------------------
(***************************************************************************)
(* Proofs about Session, for any accounts, implementations, requests and   *)
(* quotas.                                                                 *)
(*                                                                         *)
(* What a handler works on is a copy of its session's row.  For a session  *)
(* that never had two requests open the copy is the row, and the row and   *)
(* the open request together account for all the relayer has executed.     *)
(* For the other sessions the copy is a row there once was: it is never    *)
(* ahead of what the relayer has executed.                                 *)
(***************************************************************************)
EXTENDS Session, NaturalsLemmas, SequenceTheorems, TLAPS

Rows == [account : Accounts, meta : Metas]
RequestRecords == [st : Open \cup {"new", "create", "abandoned", "done"}, kind : Kinds,
            session : {0} \cup SessionIds, meta : Metas,
            impl : Implementations \cup {AnyImplementation},
            count : 0 .. MaxRequested, hash : 0 .. MaxDeploys, account : Accounts \cup {"none"}]
DeploymentRecords == [session : SessionIds, impl : Implementations,
            st : {"pending", "deployed", "reverted", "replaced"},
            recorded : BOOLEAN, late : BOOLEAN]

Orderly == DOMAIN sessions \ overlapped

\* What the relayer has executed for a request and the row does not have yet.
Pending(q, a) == IF q.st = "record" /\ q.kind = a THEN q.count ELSE 0

MaxOf(a) == IF a = "requestSubsidisedAttestation" THEN MaxRequested ELSE 1

\* A request is of one of the session's rows, and waits for what its endpoint
\* waits for.  So is one that timed out while the relayer still has its work.
RequestInv(q) ==
    /\ q.st = "create" => q.account \in Accounts
    /\ q.st \in Open \cup {"abandoned"} =>
        /\ q.session \in DOMAIN sessions
        /\ q.st \in {"wallet", "deploy"} => q.kind = "deployWallet"
        /\ q.kind \in TrackedAction => q.count \in Requested(q.kind)
        /\ q.kind \notin TrackedAction => q.kind = "deployWallet" /\ q.impl \in Implementations

\* No copy of a row is ahead of the relayer, wherever it is.
ChargeInv ==
    /\ NeverOvercharged
    /\ \A r \in Requests : requests[r].st \in Open =>
        \A a \in TrackedAction :
            requests[r].meta.callCount[a] + Pending(requests[r], a)
                =< served[requests[r].session][a]
    /\ \A s \in SessionIds \ DOMAIN sessions : served[s] = NoCounts /\ lost[s] = NoCounts

\* A session has one request open at a time, whose copy is the row.
CopyInv ==
    \A s \in Orderly : \A r \in OpenRequests(s) :
        /\ OpenRequests(s) = {r}
        /\ requests[r].meta = sessions[s].meta

\* Such a session's row accounts for what was executed.
LedgerInv ==
    \A s \in Orderly, a \in TrackedAction :
        /\ OpenRequests(s) = {} => served[s][a] = lost[s][a] + sessions[s].meta.callCount[a]
        /\ \A r \in OpenRequests(s) :
            served[s][a] = lost[s][a] + sessions[s].meta.callCount[a] + Pending(requests[r], a)

\* The guard has let through what is on its way.
GuardInv ==
    /\ \A s \in Orderly, a \in TrackedAction :
        sessions[s].meta.callCount[a] =< Quota[a] - 1 + MaxOf(a)
    /\ \A r \in Requests : requests[r].st \in Open /\ requests[r].kind \in TrackedAction =>
        QuotaGuard(requests[r].meta, requests[r].kind)

\* A session is created when the account's other sessions have run out.
Creating(r, a) == requests[r].st = "create" /\ requests[r].account = a

AccountInv ==
    \A a \in Accounts \ careless :
        /\ \A q, r \in Requests : Creating(q, a) /\ Creating(r, a) => q = r
        /\ \A r \in Requests, s \in Orderly :
            Creating(r, a) /\ sessions[s].account = a => ~hasQuota(sessions[s].meta)
        /\ \A s \in Orderly, t \in DOMAIN sessions :
            sessions[s].account = a /\ sessions[t].account = a /\ s < t
                => ~hasQuota(sessions[s].meta)

\* Every deployment a row or a copy names was sent, for a session there is.
DeploymentInv ==
    /\ \A d \in DOMAIN deployments : deployments[d].session \in DOMAIN sessions
    /\ \A s \in DOMAIN sessions : sessions[s].meta.walletDeploy \in {NoDeploy} \cup DOMAIN deployments
    /\ \A r \in Requests : requests[r].st \in Open =>
        /\ requests[r].meta.walletDeploy \in {NoDeploy} \cup DOMAIN deployments
        /\ requests[r].kind = "deployWallet" /\ requests[r].st = "relay" =>
            ~hasDeployInProgress(requests[r].meta, requests[r].impl)
        /\ requests[r].kind = "deployWallet" /\ requests[r].st = "record" =>
            /\ requests[r].hash \in DOMAIN deployments
            /\ deployments[requests[r].hash].session = requests[r].session

Recorded(s) == {d \in DOMAIN deployments : deployments[d].recorded /\ deployments[d].session = s}

\* The row names the last deployment that was recorded.
WalletInv ==
    \A s \in Orderly :
        /\ sessions[s].meta.walletDeploy # NoDeploy => sessions[s].meta.walletDeploy \in Recorded(s)
        /\ \A d \in Recorded(s) : d =< sessions[s].meta.walletDeploy
        /\ \A r \in OpenRequests(s), d \in Recorded(s) :
            requests[r].kind = "deployWallet" /\ requests[r].st = "record" => d =< requests[r].hash

\* The inductive invariant.
IInv ==
    /\ TypeOK /\ (\A r \in Requests : RequestInv(requests[r]))
    /\ ChargeInv /\ CopyInv /\ LedgerInv /\ GuardInv /\ AccountInv /\ DeploymentInv /\ WalletInv

-----------------------------------------------------------------------------
(* The rows, the copies and the deployments *)

\* A nonempty set of row numbers has a last one.
LEMMA LastOfNumbers ==
    ASSUME NEW n \in Nat, NEW T, T \subseteq 1 .. n, T # {}
    PROVE  \E s \in T : \A t \in T : t =< s
<1> DEFINE U == {n - t : t \in T}
<1>0. \A t \in T : t \in Nat /\ n - t \in Nat
  OBVIOUS
<1>1. U \subseteq Nat /\ U # {}
  BY <1>0
<1>2. PICK u \in U : \A v \in U : u =< v
  <2> HIDE DEF U
  <2> QED
    BY <1>1, MinOfNaturals
<1>3. PICK s \in T : u = n - s
  BY <1>2
<1>4. ASSUME NEW t \in T PROVE t =< s
  <2>1. n - s =< n - t
    BY <1>2, <1>3
  <2> QED
    BY <1>0, <2>1
<1> QED
  BY <1>4

LEMMA RequestedBound ==
    ASSUME NEW a \in TrackedAction
    PROVE  /\ \A n \in Requested(a) : n \in Nat /\ 1 =< n /\ n =< MaxOf(a) /\ n =< MaxRequested
           /\ (CHOOSE n \in Requested(a) : \A m \in Requested(a) : m =< n) = MaxOf(a)
<1> USE SessionAssumption DEF SessionAssumption, Requested, MaxOf
<1>1. \A n \in Requested(a) : n \in Nat /\ 1 =< n /\ n =< MaxOf(a) /\ n =< MaxRequested
  OBVIOUS
<1>2. MaxOf(a) \in Requested(a) /\ \A m \in Requested(a) : m =< MaxOf(a)
  OBVIOUS
<1>3. \A n \in Requested(a) : (\A m \in Requested(a) : m =< n) => n = MaxOf(a)
  BY <1>2
<1> HIDE DEF Requested, MaxOf
<1> QED
  BY <1>1, <1>2, <1>3

LEMMA RowsAre ==
    ASSUME TypeOK
    PROVE  /\ Len(sessions) \in Nat /\ DOMAIN sessions = 1 .. Len(sessions)
           /\ DOMAIN sessions \subseteq SessionIds
           /\ \A s \in DOMAIN sessions : sessions[s] \in Rows
<1>1. sessions \in Seq(Rows) /\ Len(sessions) =< MaxSessions
  BY DEF TypeOK, Rows
<1>2. Len(sessions) \in Nat /\ DOMAIN sessions = 1 .. Len(sessions)
      /\ sessions \in [1 .. Len(sessions) -> Rows]
  BY <1>1, LenProperties
<1> QED
  BY <1>1, <1>2, SessionAssumption DEF SessionIds, SessionAssumption

LEMMA DeploymentsAre ==
    ASSUME TypeOK
    PROVE  /\ Len(deployments) \in Nat /\ DOMAIN deployments = 1 .. Len(deployments)
           /\ Len(deployments) =< MaxDeploys
           /\ \A d \in DOMAIN deployments : deployments[d] \in DeploymentRecords
<1>1. deployments \in Seq(DeploymentRecords) /\ Len(deployments) =< MaxDeploys
  BY DEF TypeOK, DeploymentRecords
<1> QED
  BY <1>1, LenProperties

\* What becomes of one request leaves the others alone.
LEMMA RequestBecomes ==
    ASSUME TypeOK, NEW r \in Requests, NEW q \in RequestRecords,
           requests' = [requests EXCEPT ![r] = q]
    PROVE  /\ requests' \in [Requests -> RequestRecords]
           /\ requests'[r] = q
           /\ \A x \in Requests : x # r => requests'[x] = requests[x]
BY DEF TypeOK, RequestRecords

LEMMA RequestsAre ==
    ASSUME TypeOK
    PROVE  \A r \in Requests : requests[r] \in RequestRecords
BY DEF TypeOK, RequestRecords

LEMMA DoneIsRecord == Done \in RequestRecords /\ Done.st = "done" /\ NoMeta \in Metas
<1>1. NoMeta \in Metas
  BY SessionAssumption DEF NoMeta, NoCounts, Metas, NoDeploy, SessionAssumption
<1> QED
  BY <1>1, SessionAssumption DEF Done, NewRequest, RequestRecords, Kinds, NoDeploy, SessionAssumption

\* A write of meta leaves the other rows and the accounts alone.
LEMMA RowBecomes ==
    ASSUME TypeOK, NEW s \in DOMAIN sessions, NEW m \in Metas,
           sessions' = [sessions EXCEPT ![s].meta = m]
    PROVE  /\ sessions' \in Seq(Rows) /\ Len(sessions') = Len(sessions)
           /\ DOMAIN sessions' = DOMAIN sessions
           /\ sessions'[s].meta = m
           /\ \A t \in DOMAIN sessions :
                /\ sessions'[t].account = sessions[t].account
                /\ t # s => sessions'[t] = sessions[t]
<1> DEFINE row == [account |-> sessions[s].account, meta |-> m]
<1>1. sessions \in Seq(Rows) /\ sessions[s] \in Rows /\ s \in 1 .. Len(sessions)
  BY RowsAre DEF TypeOK, Rows
<1>2. row \in Rows /\ [sessions[s] EXCEPT !.meta = m] = row
  BY <1>1 DEF Rows
<1> HIDE DEF row
<1>5. sessions' = [sessions EXCEPT ![s] = row]
  BY <1>2, Zenon
<1>3. /\ sessions' \in Seq(Rows) /\ Len(sessions') = Len(sessions)
      /\ \A j \in 1 .. Len(sessions) : sessions'[j] = IF j = s THEN row ELSE sessions[j]
  BY <1>1, <1>2, <1>5, ExceptSeq
<1>4. DOMAIN sessions' = DOMAIN sessions
  BY <1>1, <1>3, LenProperties
<1> QED
  BY <1>1, <1>3, <1>4, RowsAre DEF row

\* So does a change of one deployment.
LEMMA DeploymentBecomes ==
    ASSUME TypeOK, NEW d \in DOMAIN deployments, NEW e \in DeploymentRecords,
           deployments' = [deployments EXCEPT ![d] = e]
    PROVE  /\ deployments' \in Seq(DeploymentRecords) /\ Len(deployments') = Len(deployments)
           /\ DOMAIN deployments' = DOMAIN deployments
           /\ deployments'[d] = e
           /\ \A x \in DOMAIN deployments : x # d => deployments'[x] = deployments[x]
<1>1. deployments \in Seq(DeploymentRecords) /\ d \in 1 .. Len(deployments)
  BY DeploymentsAre DEF TypeOK, DeploymentRecords
<1>2. /\ deployments' \in Seq(DeploymentRecords) /\ Len(deployments') = Len(deployments)
      /\ \A j \in 1 .. Len(deployments) : deployments'[j] = IF j = d THEN e ELSE deployments[j]
  BY <1>1, ExceptSeq
<1>3. DOMAIN deployments' = DOMAIN deployments
  BY <1>1, <1>2, LenProperties
<1> QED
  BY <1>1, <1>2, <1>3, DeploymentsAre

LEMMA InitIInv == Init => IInv
<1> SUFFICES ASSUME Init PROVE IInv
  OBVIOUS
<1> USE DEF Init
<1>0. DOMAIN sessions = {} /\ DOMAIN deployments = {} /\ Len(sessions) = 0 /\ Len(deployments) = 0
  OBVIOUS
<1>1. NewRequest \in RequestRecords /\ NewRequest.st = "new"
  BY DoneIsRecord, SessionAssumption DEF NewRequest, RequestRecords, Kinds, NoDeploy, SessionAssumption
<1>2. TypeOK
  <2>1. requests \in [Requests -> RequestRecords]
    BY <1>1
  <2>2. NoCounts \in [TrackedAction -> Nat]
    BY DEF NoCounts
  <2> QED
    BY <1>0, <2>1, <2>2, SessionAssumption DEF TypeOK, SessionIds, SessionAssumption, RequestRecords
<1>3. \A r \in Requests : requests[r].st = "new"
  BY <1>1
<1>4. (\A r \in Requests : RequestInv(requests[r])) /\ ChargeInv
  BY <1>0, <1>3 DEF RequestInv, Open, ChargeInv, NeverOvercharged, SessionIds
<1>5. CopyInv /\ LedgerInv /\ GuardInv /\ AccountInv
  BY <1>0, <1>3 DEF CopyInv, LedgerInv, GuardInv, AccountInv, Orderly, Creating, Open
<1>6. DeploymentInv /\ WalletInv
  BY <1>0, <1>3 DEF DeploymentInv, WalletInv, Orderly, Open
<1> QED
  BY <1>2, <1>4, <1>5, <1>6 DEF IInv

-----------------------------------------------------------------------------
(* Steps that leave the rows alone *)

\* A request that stays open goes on with its copy.
Keeps(r, q) ==
    q.st \in Open =>
        /\ requests[r].st \in Open
        /\ q.kind = requests[r].kind /\ q.session = requests[r].session
        /\ q.meta = requests[r].meta /\ q.count = requests[r].count /\ q.impl = requests[r].impl

LEMMA OpenFrame ==
    ASSUME TypeOK, NEW r \in Requests, NEW q \in RequestRecords, Keeps(r, q),
           requests' = [requests EXCEPT ![r] = q]
    PROVE  \A s : /\ OpenRequests(s)' \subseteq OpenRequests(s)
                  /\ OpenRequests(s) \ {r} \subseteq OpenRequests(s)'
                  /\ r \in OpenRequests(s)' => q.st \in Open
                  /\ q.st \in Open => OpenRequests(s)' = OpenRequests(s)
<1>1. requests'[r] = q /\ \A x \in Requests : x # r => requests'[x] = requests[x]
  BY RequestBecomes
<1>2. \A s : OpenRequests(s) = {x \in Requests : requests[x].st \in Open /\ requests[x].session = s}
  BY DEF OpenRequests
<1>3. \A s : OpenRequests(s)' = {x \in Requests : requests'[x].st \in Open /\ requests'[x].session = s}
  BY DEF OpenRequests
<1> QED
  BY <1>1, <1>2, <1>3 DEF Keeps

\* The accounts' invariant stays while no session is created or asked for.
LEMMA AccountFrame ==
    ASSUME IInv, NEW r \in Requests, NEW q \in RequestRecords, q.st # "create",
           requests' = [requests EXCEPT ![r] = q],
           careless \subseteq careless', overlapped \subseteq overlapped',
           DOMAIN sessions' = DOMAIN sessions,
           \A s \in DOMAIN sessions : sessions'[s].account = sessions[s].account,
           \A s \in Orderly, a \in TrackedAction :
                /\ sessions'[s].meta.callCount[a] \in Nat
                /\ sessions[s].meta.callCount[a] =< sessions'[s].meta.callCount[a]
    PROVE  AccountInv'
<1>1. requests'[r] = q /\ \A x \in Requests : x # r => requests'[x] = requests[x]
  BY RequestBecomes DEF IInv
<1>2. \A x \in Requests, a \in Accounts : Creating(x, a)' => Creating(x, a)
  BY <1>1 DEF Creating
<1>3. \A s \in Orderly : hasQuota(sessions'[s].meta) => hasQuota(sessions[s].meta)
  <2> SUFFICES ASSUME NEW s \in Orderly, NEW a \in TrackedAction,
                      sessions'[s].meta.callCount[a] < Quota[a]
               PROVE  sessions[s].meta.callCount[a] < Quota[a]
    BY DEF hasQuota
  <2>1. sessions[s] \in Rows
    BY RowsAre DEF IInv, Orderly
  <2>2. sessions[s].meta.callCount[a] \in Nat /\ Quota[a] \in Nat
    BY <2>1, SessionAssumption DEF Rows, Metas, SessionAssumption
  <2> QED
    BY <2>2
<1>4. Orderly' \subseteq Orderly /\ Orderly \subseteq DOMAIN sessions
  BY DEF Orderly
<1>5. \A s \in Orderly' : hasQuota(sessions[s].meta)' => hasQuota(sessions[s].meta)
  BY <1>3, <1>4 DEF hasQuota
<1>6. AccountInv
  BY DEF IInv
<1> QED
  BY <1>2, <1>4, <1>5, <1>6 DEF AccountInv

\* A request goes on, or ends, without the relayer and without a write.
LEMMA QuietStep ==
    ASSUME IInv, NEW r \in Requests, NEW q \in RequestRecords, Keeps(r, q), RequestInv(q),
           requests[r].st # "record", q.st # "record",
           q.st = "relay" /\ q.kind = "deployWallet" => ~hasDeployInProgress(q.meta, q.impl),
           requests' = [requests EXCEPT ![r] = q],
           UNCHANGED <<sessions, deployments, served, lost, overlapped>>,
           careless' \subseteq Accounts, AccountInv'
    PROVE  IInv'
<1>1. /\ requests' \in [Requests -> RequestRecords] /\ requests'[r] = q
      /\ \A x \in Requests : x # r => requests'[x] = requests[x]
  BY RequestBecomes DEF IInv
<1>2. \A s : /\ OpenRequests(s)' \subseteq OpenRequests(s)
             /\ OpenRequests(s) \ {r} \subseteq OpenRequests(s)'
             /\ r \in OpenRequests(s)' => q.st \in Open
             /\ q.st \in Open => OpenRequests(s)' = OpenRequests(s)
  BY OpenFrame DEF IInv
<1>3. TypeOK'
  BY <1>1 DEF IInv, TypeOK, RequestRecords
<1>4. \A x \in Requests : RequestInv(requests[x])'
  <2>1. RequestInv(q)'
    BY DEF RequestInv
  <2> QED
    BY <1>1, <2>1 DEF IInv, RequestInv
<1>5. ChargeInv'
  <2>1. \A a : q.st \in Open => Pending(q, a) = Pending(requests[r], a)
    BY DEF Pending
  <2>2. ChargeInv
    BY DEF IInv
  <2> QED
    BY <1>1, <2>1, <2>2 DEF ChargeInv, Keeps, NeverOvercharged, Pending
<1>6. CopyInv'
  BY <1>1, <1>2 DEF IInv, CopyInv, Orderly, Keeps
<1>7. LedgerInv'
  <2> SUFFICES ASSUME NEW s \in Orderly, NEW a \in TrackedAction
               PROVE  /\ OpenRequests(s)' = {} => served[s][a] = lost[s][a] + sessions[s].meta.callCount[a]
                      /\ \A x \in OpenRequests(s)' : served[s][a] = lost[s][a]
                            + sessions[s].meta.callCount[a] + Pending(requests'[x], a)
    BY DEF LedgerInv, Orderly, Pending
  <2>1. LedgerInv /\ CopyInv
    BY DEF IInv
  <2>2. sessions[s] \in Rows /\ lost[s][a] \in Nat
    BY RowsAre DEF IInv, Orderly, TypeOK
  <2>3. sessions[s].meta.callCount[a] \in Nat
    BY <2>2 DEF Rows, Metas
  <2>4. Pending(requests[r], a) = 0 /\ Pending(q, a) = 0
    BY DEF Pending
  <2>5. CASE OpenRequests(s)' = {}
    <3>1. OpenRequests(s) = {} \/ OpenRequests(s) = {r}
      BY <1>2, <2>5
    <3> QED
      BY <2>1, <2>2, <2>3, <2>4, <2>5, <3>1 DEF LedgerInv
  <2>6. ASSUME NEW x \in OpenRequests(s)'
        PROVE  served[s][a] = lost[s][a] + sessions[s].meta.callCount[a] + Pending(requests'[x], a)
    <3>1. x \in OpenRequests(s) /\ Pending(requests'[x], a) = Pending(requests[x], a)
      BY <1>1, <1>2, <2>4, <2>6 DEF OpenRequests
    <3> QED
      BY <2>1, <3>1 DEF LedgerInv
  <2> QED
    BY <2>5, <2>6
<1>8. GuardInv'
  BY <1>1 DEF IInv, GuardInv, Orderly, Keeps, QuotaGuard
<1>9. DeploymentInv'
  BY <1>1 DEF IInv, DeploymentInv, Keeps, hasDeployInProgress
<1>10. WalletInv'
  BY <1>1, <1>2 DEF IInv, WalletInv, Orderly, Recorded, OpenRequests
<1> QED
  BY <1>3, <1>4, <1>5, <1>6, <1>7, <1>8, <1>9, <1>10 DEF IInv

LEMMA AnswerStep ==
    ASSUME IInv, NEW r \in Requests, Answer(r), requests[r].st # "record",
           UNCHANGED <<sessions, deployments, served, lost, overlapped>>,
           careless \subseteq careless', careless' \subseteq Accounts
    PROVE  IInv'
<1>1. requests' = [requests EXCEPT ![r] = Done] /\ Done \in RequestRecords /\ Done.st = "done"
  BY DoneIsRecord DEF Answer
<1>2. Keeps(r, Done) /\ RequestInv(Done)
  BY <1>1 DEF Keeps, RequestInv, Open
<1>3. \A s \in Orderly, a \in TrackedAction :
        /\ sessions'[s].meta.callCount[a] \in Nat
        /\ sessions[s].meta.callCount[a] =< sessions'[s].meta.callCount[a]
  BY RowsAre DEF IInv, Orderly, Rows, Metas
<1>4. AccountInv'
  <2>1. Done.st # "create" /\ overlapped \subseteq overlapped' /\ DOMAIN sessions' = DOMAIN sessions
        /\ \A s \in DOMAIN sessions : sessions'[s].account = sessions[s].account
    BY <1>1
  <2> QED
    BY <1>1, <1>3, <2>1, AccountFrame
<1> QED
  BY <1>1, <1>2, <1>4, QuietStep

LEMMA GoOnStep ==
    ASSUME IInv, NEW r \in Requests, NEW st \in {"deploy", "relay"}, Step(r, st),
           requests[r].st \in {"wallet", "deploy"},
           st = "relay" => ~hasDeployInProgress(requests[r].meta, requests[r].impl),
           UNCHANGED <<sessions, deployments, served, lost, overlapped, careless>>
    PROVE  IInv'
<1> DEFINE q == [requests[r] EXCEPT !.st = st]
<1>1. requests' = [requests EXCEPT ![r] = q]
  BY DEF Step
<1>2. requests[r] \in RequestRecords /\ RequestInv(requests[r])
  BY RequestsAre DEF IInv
<1>3. q \in RequestRecords /\ q.st = st /\ Keeps(r, q) /\ q.st # "record" /\ q.st # "create"
  BY <1>2 DEF RequestRecords, Keeps, Open
<1>4. RequestInv(q) /\ q.meta = requests[r].meta /\ q.impl = requests[r].impl
  BY <1>2 DEF RequestRecords, RequestInv, Open
<1>5. \A s \in Orderly, a \in TrackedAction :
        /\ sessions'[s].meta.callCount[a] \in Nat
        /\ sessions[s].meta.callCount[a] =< sessions'[s].meta.callCount[a]
  BY RowsAre DEF IInv, Orderly, Rows, Metas
<1> HIDE DEF q
<1>6. AccountInv'
  <2>1. careless \subseteq careless' /\ overlapped \subseteq overlapped' /\ DOMAIN sessions' = DOMAIN sessions
        /\ \A s \in DOMAIN sessions : sessions'[s].account = sessions[s].account
    OBVIOUS
  <2> QED
    BY <1>1, <1>3, <1>5, <2>1, AccountFrame
<1>7. requests[r].st # "record"
  OBVIOUS
<1>8. careless' \subseteq Accounts
  BY DEF IInv, TypeOK
<1> QED
  BY <1>1, <1>3, <1>4, <1>6, <1>7, <1>8, QuietStep

LEMMA RejectedStep == ASSUME IInv, NEW r \in Requests, Rejected(r) PROVE IInv'
BY AnswerStep DEF Rejected, IInv, TypeOK

LEMMA LookUpWalletStep == ASSUME IInv, NEW r \in Requests, LookUpWallet(r) PROVE IInv'
BY AnswerStep, GoOnStep DEF LookUpWallet, IInv, TypeOK

LEMMA StartDeployStep == ASSUME IInv, NEW r \in Requests, StartDeploy(r) PROVE IInv'
BY AnswerStep, GoOnStep DEF StartDeploy, IInv, TypeOK

\* A session is asked for only if all that the account has have run out.
LEMMA StartSessionStep ==
    ASSUME IInv, NEW r \in Requests, NEW a \in Accounts, NEW spelling \in Spellings,
           StartSession(r, a, spelling)
    PROVE  IInv'
<1>1. careless \subseteq careless' /\ careless' \subseteq Accounts
  BY DEF StartSession, IInv, TypeOK
<1>2. CASE \E s \in Found(a, spelling) : hasQuota(sessions[s].meta)
  BY <1>1, <1>2, AnswerStep DEF StartSession, Answer
<1>3. CASE ~\E s \in Found(a, spelling) : hasQuota(sessions[s].meta)
  <2> DEFINE q == [NewRequest EXCEPT !.st = "create", !.account = a]
  <2>1. requests' = [requests EXCEPT ![r] = q]
    BY <1>3 DEF StartSession
  <2>2. q \in RequestRecords /\ q.st = "create" /\ q.account = a
    BY DoneIsRecord DEF Done, NewRequest, RequestRecords
  <2> HIDE DEF q
  <2>3. requests'[r] = q /\ \A x \in Requests : x # r => requests'[x] = requests[x]
    BY <2>1, <2>2, RequestBecomes DEF IInv
  <2>4. Keeps(r, q) /\ RequestInv(q)
    BY <2>2 DEF Keeps, RequestInv, Open
  <2>5. \A x \in Requests, b \in Accounts : Creating(x, b)' <=> IF x = r THEN b = a ELSE Creating(x, b)
    BY <2>2, <2>3 DEF Creating
  <2>6. ASSUME a \notin careless'
        PROVE  /\ \A x \in Requests : ~Creating(x, a)
               /\ \A s \in Orderly : sessions[s].account = a => ~hasQuota(sessions[s].meta)
    <3>1. spelling = "lower" /\ \A x \in Requests : requests[x].account # a
      BY <2>6 DEF StartSession, Spellings
    <3>2. ASSUME NEW s \in Orderly, sessions[s].account = a
          PROVE  ~hasQuota(sessions[s].meta)
      <4>1. s \in SessionsOf(a) /\ SessionsOf(a) \subseteq 1 .. Len(sessions) /\ Len(sessions) \in Nat
        BY <3>2, RowsAre DEF IInv, SessionsOf, Orderly
      <4>2. PICK t \in SessionsOf(a) : \A u \in SessionsOf(a) : u =< t
        BY <4>1, LastOfNumbers
      <4>3. t \in Found(a, spelling)
        BY <3>1, <4>2 DEF Found
      <4>4. ~hasQuota(sessions[t].meta)
        BY <1>3, <4>3
      <4>5. s = t \/ s < t
        BY <4>1, <4>2
      <4> QED
        BY <2>6, <1>1, <3>2, <4>1, <4>2, <4>4, <4>5 DEF IInv, AccountInv, SessionsOf
    <3> QED
      BY <3>1, <3>2 DEF Creating
  <2>7. AccountInv'
    <3>1. UNCHANGED <<sessions, overlapped>> /\ Orderly' = Orderly
      BY DEF StartSession, Orderly
    <3>2. \A s : hasQuota(sessions[s].meta)' <=> hasQuota(sessions[s].meta)
      BY <3>1 DEF hasQuota
    <3> QED
      BY <1>1, <2>5, <2>6, <3>1, <3>2 DEF IInv, AccountInv
  <2>8. requests[r].st # "record" /\ UNCHANGED <<sessions, deployments, served, lost, overlapped>>
    BY DEF StartSession
  <2> QED
    BY <1>1, <2>1, <2>2, <2>4, <2>7, <2>8, QuietStep
<1> QED
  BY <1>2, <1>3

-----------------------------------------------------------------------------
(* A session is created, a request authenticates *)

LEMMA CreateSessionStep ==
    ASSUME IInv, NEW r \in Requests, CreateSession(r)
    PROVE  IInv'
<1> DEFINE a == requests[r].account
           n == Len(sessions) + 1
           row == [account |-> a, meta |-> NoMeta]
<1>1. requests' = [requests EXCEPT ![r] = Done] /\ Done \in RequestRecords /\ Done.st = "done"
      /\ requests[r].st = "create" /\ RequestInv(requests[r])
  BY DoneIsRecord DEF CreateSession, Answer, IInv
<1>2. /\ requests' \in [Requests -> RequestRecords] /\ requests'[r] = Done
      /\ \A x \in Requests : x # r => requests'[x] = requests[x]
  BY <1>1, RequestBecomes DEF IInv
<1>3. row \in Rows /\ a \in Accounts
  BY <1>1, DoneIsRecord DEF RequestInv, Rows
<1>4. /\ sessions' \in Seq(Rows) /\ Len(sessions') = n
      /\ \A s \in DOMAIN sessions : sessions'[s] = sessions[s]
      /\ sessions'[n] = row /\ DOMAIN sessions' = DOMAIN sessions \cup {n}
      /\ n \notin DOMAIN sessions /\ n \in SessionIds
      /\ Len(sessions') =< MaxSessions
  <2>1. sessions \in Seq(Rows) /\ sessions' = Append(sessions, row)
    BY DEF IInv, TypeOK, Rows, CreateSession
  <2>2. Len(sessions) \in Nat /\ DOMAIN sessions = 1 .. Len(sessions) /\ Len(sessions) < MaxSessions
    BY RowsAre DEF IInv, CreateSession
  <2> HIDE DEF row
  <2>3. /\ sessions' \in Seq(Rows) /\ Len(sessions') = n
        /\ \A s \in 1 .. Len(sessions) : sessions'[s] = sessions[s]
        /\ sessions'[n] = row
    BY <1>3, <2>1, AppendProperties
  <2>4. DOMAIN sessions' = 1 .. n
    BY <2>3, LenProperties
  <2> QED
    BY <2>2, <2>3, <2>4, SessionAssumption DEF SessionIds, SessionAssumption
<1>5. UNCHANGED <<deployments, served, lost, overlapped, careless>>
  BY DEF CreateSession
<1>6. row.account = a /\ row.meta = NoMeta /\ NoMeta.walletDeploy = NoDeploy
      /\ \A b \in TrackedAction : row.meta.callCount[b] = 0 /\ NoMeta.callCount[b] = 0
  BY DEF NoMeta, NoCounts
<1> HIDE DEF n, row
<1>7. \A s : OpenRequests(s)' = OpenRequests(s)
  BY <1>1, <1>2 DEF OpenRequests, Open
<1>8. \A s : requests[r].st # "record" /\ r \notin OpenRequests(s)
  BY <1>1 DEF OpenRequests, Open
<1>9. OpenRequests(n) = {} /\ \A d \in DOMAIN deployments : deployments[d].session # n
  BY <1>4 DEF OpenRequests, IInv, RequestInv, DeploymentInv
<1>10. Orderly' = Orderly \cup ({n} \ overlapped)
  BY <1>4, <1>5 DEF Orderly
<1>11. TypeOK'
  BY <1>2, <1>4, <1>5 DEF IInv, TypeOK, RequestRecords, Rows
<1>12. \A x \in Requests : RequestInv(requests[x])'
  BY <1>1, <1>2, <1>4 DEF IInv, RequestInv, Open
<1>13. served[n] = NoCounts /\ lost[n] = NoCounts /\ \A b \in TrackedAction : served[n][b] = 0 /\ lost[n][b] = 0
  BY <1>4 DEF IInv, ChargeInv, NoCounts
<1>14. ChargeInv'
  <2>1. NeverOvercharged'
    BY <1>4, <1>5, <1>6, <1>13 DEF IInv, ChargeInv, NeverOvercharged
  <2> QED
    BY <1>1, <1>2, <1>4, <1>5, <2>1 DEF IInv, ChargeInv, Open, Pending
<1>15. CopyInv'
  <2>1. \A s \in Orderly : s \in DOMAIN sessions
    BY DEF Orderly
  <2>2. \A s \in Orderly : \A x \in OpenRequests(s) :
          OpenRequests(s) = {x} /\ requests'[x].meta = sessions'[s].meta
    <3>1. \A s : \A x \in OpenRequests(s) : x \in Requests /\ requests'[x] = requests[x]
      BY <1>2, <1>8 DEF OpenRequests
    <3> QED
      BY <1>4, <2>1, <3>1 DEF IInv, CopyInv
  <2> QED
    BY <1>7, <1>9, <1>10, <2>2 DEF CopyInv
<1>16. LedgerInv'
  <2>1. \A s \in Orderly : s \in DOMAIN sessions
    BY DEF Orderly
  <2>2. \A s, x, b : x \in OpenRequests(s) => Pending(requests[x], b)' = Pending(requests[x], b)
    BY <1>2, <1>8 DEF Pending, OpenRequests
  <2>3. \A s \in Orderly, b \in TrackedAction :
          /\ OpenRequests(s) = {} => served'[s][b] = lost'[s][b] + sessions'[s].meta.callCount[b]
          /\ \A x \in OpenRequests(s) :
                served'[s][b] = lost'[s][b] + sessions'[s].meta.callCount[b] + Pending(requests[x], b)'
    <3> SUFFICES ASSUME NEW s \in Orderly, NEW b \in TrackedAction
                 PROVE  /\ OpenRequests(s) = {} =>
                            served'[s][b] = lost'[s][b] + sessions'[s].meta.callCount[b]
                        /\ \A x \in OpenRequests(s) : served'[s][b] =
                            lost'[s][b] + sessions'[s].meta.callCount[b] + Pending(requests[x], b)'
      OBVIOUS
    <3>1. sessions'[s] = sessions[s] /\ served' = served /\ lost' = lost
      BY <1>4, <1>5, <2>1
    <3>2. /\ OpenRequests(s) = {} => served[s][b] = lost[s][b] + sessions[s].meta.callCount[b]
          /\ \A x \in OpenRequests(s) :
                served[s][b] = lost[s][b] + sessions[s].meta.callCount[b] + Pending(requests[x], b)
      BY DEF IInv, LedgerInv
    <3> HIDE DEF a
    <3> QED
      BY <2>2, <3>1, <3>2
  <2>4. \A b \in TrackedAction : served'[n][b] = lost'[n][b] + sessions'[n].meta.callCount[b]
    BY <1>4, <1>5, <1>6, <1>13
  <2> QED
    BY <1>7, <1>9, <1>10, <2>3, <2>4 DEF LedgerInv
<1>17. GuardInv'
  <2>1. \A s \in Orderly, b \in TrackedAction : sessions'[s].meta.callCount[b] =< Quota[b] - 1 + MaxOf(b)
    BY <1>4 DEF IInv, GuardInv, Orderly
  <2>2. \A b \in TrackedAction : 0 =< Quota[b] - 1 + MaxOf(b)
    BY SessionAssumption DEF SessionAssumption, MaxOf
  <2> QED
    BY <1>1, <1>2, <1>4, <1>6, <1>10, <2>1, <2>2 DEF IInv, GuardInv, QuotaGuard, Open
<1>18. AccountInv'
  <2>1. \A x \in Requests, b \in Accounts : Creating(x, b)' => Creating(x, b) /\ x # r
    BY <1>1, <1>2 DEF Creating
  <2>2. Creating(r, a)
    BY <1>1 DEF Creating
  <2>3. \A s \in DOMAIN sessions : hasQuota(sessions[s].meta)' <=> hasQuota(sessions[s].meta)
    BY <1>4 DEF hasQuota
  <2>4. \A s \in DOMAIN sessions : s < n /\ ~ (n < s)
    BY RowsAre DEF IInv, n
  <2>5. AccountInv /\ \A s \in Orderly : s \in DOMAIN sessions
    BY DEF IInv, Orderly
  <2> HIDE DEF a
  <2> SUFFICES ASSUME NEW b \in Accounts \ careless
               PROVE  /\ \A x, y \in Requests : Creating(x, b)' /\ Creating(y, b)' => x = y
                      /\ \A x \in Requests, s \in Orderly' :
                            Creating(x, b)' /\ sessions'[s].account = b => ~hasQuota(sessions[s].meta)'
                      /\ \A s \in Orderly', t \in DOMAIN sessions' :
                            sessions'[s].account = b /\ sessions'[t].account = b /\ s < t
                                => ~hasQuota(sessions[s].meta)'
    BY <1>5 DEF AccountInv
  <2>6. \A x, y \in Requests : Creating(x, b)' /\ Creating(y, b)' => x = y
    BY <2>1, <2>5 DEF AccountInv
  <2>7. ASSUME NEW x \in Requests, NEW s \in Orderly', Creating(x, b)', sessions'[s].account = b
        PROVE  ~hasQuota(sessions[s].meta)'
    <3>1. a # b
      BY <2>1, <2>2, <2>5, <2>7 DEF AccountInv
    <3>2. s \in Orderly
      BY <1>4, <1>6, <1>10, <2>7, <3>1
    <3> QED
      BY <1>4, <2>1, <2>3, <2>5, <2>7, <3>2 DEF AccountInv
  <2>8. ASSUME NEW s \in Orderly', NEW t \in DOMAIN sessions',
               sessions'[s].account = b, sessions'[t].account = b, s < t
        PROVE  ~hasQuota(sessions[s].meta)'
    <3>1. s # n
      BY <1>4, <2>4, <2>8, RowsAre DEF IInv, SessionIds, n
    <3>2. s \in Orderly
      BY <1>10, <2>8, <3>1
    <3>3. CASE t = n
      <4>1. a = b
        BY <1>4, <1>6, <2>8, <3>3
      <4> QED
        BY <1>4, <2>2, <2>3, <2>5, <2>8, <3>2, <4>1 DEF AccountInv
    <3>4. CASE t # n
      BY <1>4, <2>3, <2>5, <2>8, <3>2, <3>4 DEF AccountInv
    <3> QED
      BY <3>3, <3>4
  <2> QED
    BY <2>6, <2>7, <2>8
<1>19. DeploymentInv'
  BY <1>1, <1>2, <1>4, <1>5, <1>6 DEF IInv, DeploymentInv, Open, hasDeployInProgress
<1>20. WalletInv'
  <2>1. \A s : Recorded(s)' = Recorded(s)
    BY <1>5 DEF Recorded
  <2>2. Recorded(n) = {}
    BY <1>9 DEF Recorded
  <2>3. \A s \in Orderly : s \in DOMAIN sessions
    BY DEF Orderly
  <2>4. \A s \in Orderly : \A x \in OpenRequests(s) : requests'[x] = requests[x] /\ x \in Requests
    BY <1>2, <1>8 DEF OpenRequests
  <2>5. \A s \in Orderly :
          /\ sessions'[s].meta.walletDeploy # NoDeploy => sessions'[s].meta.walletDeploy \in Recorded(s)
          /\ \A d \in Recorded(s) : d =< sessions'[s].meta.walletDeploy
          /\ \A x \in OpenRequests(s), d \in Recorded(s) :
            requests'[x].kind = "deployWallet" /\ requests'[x].st = "record" => d =< requests'[x].hash
    BY <1>4, <2>3, <2>4 DEF IInv, WalletInv
  <2> QED
    BY <1>4, <1>6, <1>7, <1>9, <1>10, <2>1, <2>2, <2>5 DEF WalletInv
<1> QED
  BY <1>11, <1>12, <1>14, <1>15, <1>16, <1>17, <1>18, <1>19, <1>20 DEF IInv

\* A request takes its copy of the row.
LEMMA AuthenticatedStep ==
    ASSUME IInv, NEW r \in Requests, NEW s \in DOMAIN sessions,
           NEW kind, NEW st, NEW impl, NEW count, Authenticated(r, s, kind, st, impl, count),
           \/ /\ kind = "deployWallet" /\ st = "wallet" /\ impl \in Implementations /\ count = 0
           \/ /\ kind \in TrackedAction /\ st = "relay" /\ impl = AnyImplementation
              /\ count \in Requested(kind) /\ QuotaGuard(sessions[s].meta, kind)
    PROVE  IInv'
<1> DEFINE q == [NewRequest EXCEPT !.st = st, !.kind = kind, !.session = s,
                                   !.meta = sessions[s].meta, !.impl = impl, !.count = count]
<1>1. requests' = [requests EXCEPT ![r] = q] /\ requests[r].st = "new"
      /\ overlapped' = overlapped \cup (IF OpenRequests(s) = {} THEN {} ELSE {s})
      /\ UNCHANGED <<sessions, deployments, served, lost, careless>>
  BY DEF Authenticated
<1>2. s \in SessionIds /\ sessions[s] \in Rows
  BY RowsAre DEF IInv
<1>3. q \in RequestRecords /\ q.st = st /\ q.kind = kind /\ q.session = s
      /\ q.meta = sessions[s].meta /\ q.impl = impl /\ q.count = count
  <2>1. count \in 0 .. MaxRequested
    BY RequestedBound, SessionAssumption DEF SessionAssumption
  <2>2. kind \in Kinds /\ st \in Open /\ impl \in Implementations \cup {AnyImplementation}
    BY DEF Kinds, Open
  <2>3. NewRequest.hash \in 0 .. MaxDeploys /\ sessions[s].meta \in Metas
    BY <1>2, SessionAssumption DEF SessionAssumption, NewRequest, NoDeploy, Rows
  <2> QED
    BY <1>2, <2>1, <2>2, <2>3 DEF NewRequest, RequestRecords
<1> HIDE DEF q
<1>4. /\ requests' \in [Requests -> RequestRecords] /\ requests'[r] = q
      /\ \A x \in Requests : x # r => requests'[x] = requests[x]
  BY <1>1, <1>3, RequestBecomes DEF IInv
<1>5. "deployWallet" \notin TrackedAction /\ st \in Open /\ st # "create" /\ st # "record"
  BY DEF TrackedAction, Open
<1>6. OpenRequests(s)' = OpenRequests(s) \cup {r} /\ \A t : t # s => OpenRequests(t)' = OpenRequests(t)
  BY <1>1, <1>3, <1>4, <1>5 DEF OpenRequests, Open
<1>7. \A t : \A x \in OpenRequests(t) : x \in Requests /\ x # r /\ requests'[x] = requests[x]
  BY <1>1, <1>4 DEF OpenRequests, Open
<1>8. Orderly' \subseteq Orderly /\ (s \in Orderly' => OpenRequests(s) = {} /\ OpenRequests(s)' = {r})
  BY <1>1, <1>6 DEF Orderly
<1>9. TypeOK'
  BY <1>1, <1>2, <1>4 DEF IInv, TypeOK, RequestRecords
<1>10. \A x \in Requests : RequestInv(requests[x])'
  BY <1>1, <1>3, <1>4, <1>5 DEF IInv, RequestInv, Open
<1>11. ChargeInv'
  <2>1. ASSUME NEW a \in TrackedAction PROVE q.meta.callCount[a] + Pending(q, a) =< served[s][a]
    <3>1. Pending(q, a) = 0 /\ q.meta.callCount[a] \in Nat
      BY <1>2, <1>3, <1>5 DEF Pending, Rows, Metas
    <3> QED
      BY <1>3, <3>1 DEF IInv, ChargeInv, NeverOvercharged
  <2>2. ChargeInv
    BY DEF IInv
  <2> QED
    BY <1>1, <1>3, <1>4, <2>1, <2>2 DEF ChargeInv, NeverOvercharged, Pending
<1>12. CopyInv'
  BY <1>1, <1>3, <1>4, <1>6, <1>7, <1>8 DEF IInv, CopyInv
<1>13. LedgerInv'
  <2> SUFFICES ASSUME NEW t \in Orderly', NEW a \in TrackedAction
               PROVE  /\ OpenRequests(t)' = {} => served[t][a] = lost[t][a] + sessions[t].meta.callCount[a]
                      /\ \A x \in OpenRequests(t)' : served[t][a] = lost[t][a]
                            + sessions[t].meta.callCount[a] + Pending(requests'[x], a)
    BY <1>1 DEF LedgerInv, Pending
  <2>1. t \in Orderly
    BY <1>8
  <2>2. /\ OpenRequests(t) = {} => served[t][a] = lost[t][a] + sessions[t].meta.callCount[a]
        /\ \A x \in OpenRequests(t) :
            served[t][a] = lost[t][a] + sessions[t].meta.callCount[a] + Pending(requests[x], a)
    BY <2>1 DEF IInv, LedgerInv
  <2>3. CASE t = s
    <3>1. Pending(q, a) = 0 /\ sessions[s].meta.callCount[a] \in Nat /\ lost[s][a] \in Nat
      BY <1>2, <1>3, <1>5 DEF Pending, Rows, Metas, IInv, TypeOK
    <3> QED
      BY <1>4, <1>8, <2>2, <2>3, <3>1
  <2>4. CASE t # s
    BY <1>6, <1>7, <2>2, <2>4
  <2> QED
    BY <2>3, <2>4
<1>14. GuardInv'
  BY <1>1, <1>3, <1>4, <1>5, <1>8 DEF IInv, GuardInv, QuotaGuard
<1>15. AccountInv'
  <2>1. overlapped \subseteq overlapped' /\ q.st # "create"
    BY <1>1, <1>3, <1>5
  <2>2. \A t \in Orderly, a \in TrackedAction :
            /\ sessions'[t].meta.callCount[a] \in Nat
            /\ sessions[t].meta.callCount[a] =< sessions'[t].meta.callCount[a]
    BY <1>1, RowsAre DEF IInv, Orderly, Rows, Metas
  <2>3. careless \subseteq careless' /\ DOMAIN sessions' = DOMAIN sessions
        /\ \A t \in DOMAIN sessions : sessions'[t].account = sessions[t].account
    BY <1>1
  <2> QED
    BY <1>1, <1>3, <2>1, <2>2, <2>3, AccountFrame
<1>16. DeploymentInv'
  <2>1. DeploymentInv
    BY DEF IInv
  <2>2. kind = "deployWallet" => st = "wallet"
    BY <1>5
  <2> QED
    BY <1>1, <1>3, <1>4, <2>1, <2>2, <1>5 DEF DeploymentInv, hasDeployInProgress
<1>17. WalletInv'
  <2>1. \A t : Recorded(t)' = Recorded(t)
    BY <1>1 DEF Recorded
  <2>2. ASSUME NEW t \in Orderly', NEW x \in OpenRequests(t)', NEW d \in Recorded(t),
               requests'[x].kind = "deployWallet" /\ requests'[x].st = "record"
        PROVE  d =< requests'[x].hash
    <3>1. x # r
      BY <1>3, <1>4, <1>5, <2>2
    <3>2. x \in OpenRequests(t) /\ t \in Orderly
      BY <1>6, <1>8, <2>2, <3>1
    <3> QED
      BY <1>7, <2>2, <3>2 DEF IInv, WalletInv
  <2>3. \A t \in Orderly :
            /\ sessions[t].meta.walletDeploy # NoDeploy => sessions[t].meta.walletDeploy \in Recorded(t)
            /\ \A d \in Recorded(t) : d =< sessions[t].meta.walletDeploy
    BY DEF IInv, WalletInv
  <2> QED
    BY <1>1, <1>8, <2>1, <2>2, <2>3 DEF WalletInv
<1> QED
  BY <1>9, <1>10, <1>11, <1>12, <1>13, <1>14, <1>15, <1>16, <1>17 DEF IInv

LEMMA TrackedRequestStep ==
    ASSUME IInv, NEW r \in Requests, NEW s \in DOMAIN sessions, TrackedRequest(r, s)
    PROVE  IInv'
BY AuthenticatedStep DEF TrackedRequest

LEMMA DeployWalletStep ==
    ASSUME IInv, NEW r \in Requests, NEW s \in DOMAIN sessions, DeployWallet(r, s)
    PROVE  IInv'
BY AuthenticatedStep DEF DeployWallet

-----------------------------------------------------------------------------
(* The relayer executes, or its answer is lost *)

LEMMA PendingIs ==
    ASSUME NEW q \in RequestRecords, NEW a
    PROVE  /\ Pending(q, a) \in Nat
           /\ q.st # "record" => Pending(q, a) = 0
           /\ q.st = "record" => Pending(q, a) = IF q.kind = a THEN q.count ELSE 0
BY SessionAssumption DEF Pending, RequestRecords, SessionAssumption

\* What is executed while request p becomes q is pending in q, or lost.
Settles(p, q) ==
    \A a \in TrackedAction :
        /\ served[p.session][a] =< served'[p.session][a]
        /\ q.st \in Open =>
            served[p.session][a] + Pending(q, a) =< served'[p.session][a] + Pending(p, a)
        /\ served'[p.session][a] + lost[p.session][a] + Pending(p, a)
                = lost'[p.session][a] + served[p.session][a] + Pending(q, a)

\* What was executed is pending, or lost, or both are as before.
LEMMA RelayerStep ==
    ASSUME IInv, NEW r \in Requests, NEW q \in RequestRecords, NEW s, s = requests[r].session,
           requests[r].st \in {"relay", "record"}, q.st \in {"record", "done"},
           Keeps(r, q), RequestInv(q), requests' = [requests EXCEPT ![r] = q],
           UNCHANGED <<sessions, overlapped, careless>>,
           served' \in [SessionIds -> [TrackedAction -> Nat]],
           lost' \in [SessionIds -> [TrackedAction -> Nat]],
           \A t \in SessionIds : t # s => served'[t] = served[t] /\ lost'[t] = lost[t],
           Settles(requests[r], q),
           deployments' \in Seq(DeploymentRecords), Len(deployments') =< MaxDeploys,
           DeploymentInv', WalletInv'
    PROVE  IInv'
<1>1. /\ requests' \in [Requests -> RequestRecords] /\ requests'[r] = q
      /\ \A x \in Requests : x # r => requests'[x] = requests[x]
  BY RequestBecomes DEF IInv
<1>2. s \in DOMAIN sessions /\ DOMAIN sessions \subseteq SessionIds /\ r \in OpenRequests(s)
  BY RowsAre DEF IInv, RequestInv, OpenRequests, Open
<1>3. \A t : /\ OpenRequests(t)' \subseteq OpenRequests(t)
             /\ OpenRequests(t) \ {r} \subseteq OpenRequests(t)'
             /\ r \in OpenRequests(t)' => q.st \in Open
             /\ q.st \in Open => OpenRequests(t)' = OpenRequests(t)
  BY OpenFrame DEF IInv
<1>4. \A t : \A x \in OpenRequests(t) : x \in Requests /\ requests[x].st \in Open /\ requests[x].session = t
  BY DEF OpenRequests
<1>5. Orderly' = Orderly /\ Orderly \subseteq DOMAIN sessions
  BY DEF Orderly
<1>6. \A t \in DOMAIN sessions, a \in TrackedAction :
        /\ sessions[t].meta.callCount[a] \in Nat
        /\ served[t][a] \in Nat /\ lost[t][a] \in Nat /\ served'[t][a] \in Nat /\ lost'[t][a] \in Nat
        /\ served[t][a] =< served'[t][a]
  <2> SUFFICES ASSUME NEW t \in DOMAIN sessions, NEW a \in TrackedAction
               PROVE  /\ sessions[t].meta.callCount[a] \in Nat
                      /\ served[t][a] \in Nat /\ lost[t][a] \in Nat
                      /\ served'[t][a] \in Nat /\ lost'[t][a] \in Nat
                      /\ served[t][a] =< served'[t][a]
    OBVIOUS
  <2>1. t \in SessionIds /\ sessions[t].meta.callCount[a] \in Nat
    BY <1>2, RowsAre DEF IInv, Rows, Metas
  <2>2. served[t][a] \in Nat /\ lost[t][a] \in Nat /\ served'[t][a] \in Nat /\ lost'[t][a] \in Nat
    BY <2>1 DEF IInv, TypeOK
  <2>3. served[t][a] =< served'[t][a]
    <3>1. CASE t = s
      BY <3>1 DEF Settles
    <3>2. CASE t # s
      BY <2>1, <2>2, <3>2
    <3> QED
      BY <3>1, <3>2
  <2> QED
    BY <2>1, <2>2, <2>3
<1>7. \A x \in Requests, a \in TrackedAction :
        requests[x].meta.callCount[a] \in Nat /\ Pending(requests[x], a) \in Nat
  <2>1. \A x \in Requests : requests[x] \in RequestRecords
    BY RequestsAre DEF IInv
  <2>2. \A x \in Requests, a \in TrackedAction : requests[x].meta.callCount[a] \in Nat
    BY <2>1 DEF RequestRecords, Metas
  <2> QED
    BY <2>1, <2>2, PendingIs
<1>8. TypeOK'
  BY <1>1 DEF IInv, TypeOK, RequestRecords, DeploymentRecords
<1>9. \A x \in Requests : RequestInv(requests[x])'
  <2>1. RequestInv(q)'
    BY DEF RequestInv
  <2> QED
    BY <1>1, <2>1 DEF IInv, RequestInv
<1>10. ChargeInv'
  <2>1. NeverOvercharged'
    <3>1. NeverOvercharged
      BY DEF IInv, ChargeInv
    <3>2. ASSUME NEW t \in DOMAIN sessions, NEW a \in TrackedAction
          PROVE  sessions[t].meta.callCount[a] =< served'[t][a]
      <4>1. sessions[t].meta.callCount[a] =< served[t][a]
        BY <3>1 DEF NeverOvercharged
      <4> QED
        BY <1>6, <4>1
    <3> QED
      BY <3>2 DEF NeverOvercharged
  <2>2. ASSUME NEW x \in Requests, requests'[x].st \in Open, NEW a \in TrackedAction
        PROVE  requests'[x].meta.callCount[a] + Pending(requests'[x], a)
                    =< served'[requests'[x].session][a]
    <3>1. requests[x].st \in Open /\ requests'[x].session = requests[x].session
          /\ requests'[x].meta = requests[x].meta
      BY <1>1, <2>2 DEF Keeps
    <3>2. requests[x].meta.callCount[a] + Pending(requests[x], a) =< served[requests[x].session][a]
      BY <3>1 DEF IInv, ChargeInv
    <3>3. requests[x].session \in DOMAIN sessions
      BY <3>1 DEF IInv, RequestInv
    <3>4. CASE x = r
      <4>1. q.st \in Open /\ Pending(q, a) \in Nat
        BY <1>1, <2>2, <3>4, PendingIs
      <4>2. served[s][a] + Pending(q, a) =< served'[s][a] + Pending(requests[r], a)
        BY <4>1 DEF Settles
      <4>3. requests[r].meta.callCount[a] + Pending(q, a) =< served'[s][a]
        <5>1. /\ requests[r].meta.callCount[a] \in Nat /\ Pending(requests[r], a) \in Nat
              /\ served[s][a] \in Nat /\ served'[s][a] \in Nat
          BY <1>2, <1>6, <1>7
        <5>2. requests[r].meta.callCount[a] + Pending(requests[r], a) =< served[s][a]
          BY <3>2, <3>4
        <5> QED
          BY ONLY <4>1, <4>2, <5>1, <5>2
      <4> QED
        BY <1>1, <3>1, <3>4, <4>3
    <3>5. CASE x # r
      <4> DEFINE t == requests[x].session
      <4>1. /\ requests[x].meta.callCount[a] + Pending(requests[x], a) \in Nat
            /\ served[t][a] \in Nat /\ served'[t][a] \in Nat /\ served[t][a] =< served'[t][a]
        BY <1>6, <1>7, <3>3
      <4>2. requests'[x] = requests[x]
        BY <1>1, <3>5
      <4> QED
        BY <3>2, <4>1, <4>2
    <3> QED
      BY <3>4, <3>5
  <2>3. \A t \in SessionIds \ DOMAIN sessions : served'[t] = NoCounts /\ lost'[t] = NoCounts
    BY <1>2 DEF IInv, ChargeInv
  <2> QED
    BY <2>1, <2>2, <2>3 DEF ChargeInv, Pending
<1>11. CopyInv'
  BY <1>1, <1>3, <1>4, <1>5 DEF IInv, CopyInv, Keeps
<1>12. LedgerInv'
  <2> SUFFICES ASSUME NEW t \in Orderly, NEW a \in TrackedAction
               PROVE  /\ OpenRequests(t)' = {} => served'[t][a] = lost'[t][a] + sessions[t].meta.callCount[a]
                      /\ \A x \in OpenRequests(t)' : served'[t][a] = lost'[t][a]
                            + sessions[t].meta.callCount[a] + Pending(requests'[x], a)
    BY <1>5 DEF LedgerInv, Pending
  <2>1. /\ OpenRequests(t) = {} => served[t][a] = lost[t][a] + sessions[t].meta.callCount[a]
        /\ \A x \in OpenRequests(t) :
            served[t][a] = lost[t][a] + sessions[t].meta.callCount[a] + Pending(requests[x], a)
    BY DEF IInv, LedgerInv
  <2>2. CASE t = s
    <3>1. OpenRequests(s) = {r} /\ OpenRequests(s)' \subseteq {r}
      BY <1>2, <1>3, <2>2 DEF IInv, CopyInv
    <3>2. served[s][a] = lost[s][a] + sessions[s].meta.callCount[a] + Pending(requests[r], a)
      BY <2>1, <2>2, <3>1
    <3>3. Pending(q, a) \in Nat
      BY PendingIs
    <3>4. served'[s][a] = lost'[s][a] + sessions[s].meta.callCount[a] + Pending(q, a)
      <4>1. /\ Pending(requests[r], a) \in Nat /\ sessions[s].meta.callCount[a] \in Nat
            /\ served[s][a] \in Nat /\ lost[s][a] \in Nat /\ served'[s][a] \in Nat /\ lost'[s][a] \in Nat
        BY <1>2, <1>6, <1>7
      <4>2. served'[s][a] + lost[s][a] + Pending(requests[r], a)
                = lost'[s][a] + served[s][a] + Pending(q, a)
        BY DEF Settles
      <4> QED
        BY ONLY <3>2, <3>3, <4>1, <4>2
    <3>5. CASE OpenRequests(s)' = {}
      <4>1. q.st \notin Open
        BY <1>2, <1>3, <3>5
      <4>2. Pending(q, a) = 0
        BY <4>1, PendingIs DEF Open
      <4> QED
        BY <1>2, <1>6, <2>2, <3>4, <3>5, <4>2
    <3>6. CASE OpenRequests(s)' # {}
      BY <1>1, <2>2, <3>1, <3>4, <3>6
    <3> QED
      BY <3>5, <3>6
  <2>3. CASE t # s
    <3>1. OpenRequests(t)' = OpenRequests(t) /\ \A x \in OpenRequests(t) : requests'[x] = requests[x]
      <4>1. r \notin OpenRequests(t)
        BY <1>4, <2>3
      <4>2. \A x \in OpenRequests(t) : x \in Requests /\ x # r
        BY <1>4, <4>1
      <4> QED
        BY <1>1, <1>3, <4>1, <4>2
    <3> QED
      BY <1>2, <1>5, <2>1, <2>3, <3>1
  <2> QED
    BY <2>2, <2>3
<1>13. GuardInv'
  BY <1>1, <1>5 DEF IInv, GuardInv, QuotaGuard, Keeps
<1>14. AccountInv'
  <2>1. \A t \in Orderly, a \in TrackedAction :
            /\ sessions'[t].meta.callCount[a] \in Nat
            /\ sessions[t].meta.callCount[a] =< sessions'[t].meta.callCount[a]
    BY <1>5, <1>6
  <2>2. q.st # "create" /\ careless \subseteq careless' /\ overlapped \subseteq overlapped'
        /\ DOMAIN sessions' = DOMAIN sessions
        /\ \A t \in DOMAIN sessions : sessions'[t].account = sessions[t].account
    OBVIOUS
  <2> QED
    BY <2>1, <2>2, AccountFrame
<1> QED
  BY <1>8, <1>9, <1>10, <1>11, <1>12, <1>13, <1>14 DEF IInv

LEMMA DeploymentsStay ==
    ASSUME IInv, NEW r \in Requests, NEW q \in RequestRecords, Keeps(r, q),
           q.st \in Open => q.kind # "deployWallet",
           requests' = [requests EXCEPT ![r] = q], UNCHANGED <<sessions, overlapped, deployments>>
    PROVE  DeploymentInv' /\ WalletInv'
<1>1. requests'[r] = q /\ \A x \in Requests : x # r => requests'[x] = requests[x]
  BY RequestBecomes DEF IInv
<1>2. \A t : OpenRequests(t)' \subseteq OpenRequests(t) /\ (r \in OpenRequests(t)' => q.st \in Open)
  BY OpenFrame DEF IInv
<1>3. DeploymentInv'
  BY <1>1 DEF IInv, DeploymentInv, Keeps, hasDeployInProgress
<1>4. \A t : Recorded(t)' = Recorded(t)
  BY DEF Recorded
<1>5. \A t : \A x \in OpenRequests(t)' : x \in Requests
             /\ (requests'[x].kind = "deployWallet" => requests'[x] = requests[x])
  BY <1>1, <1>2 DEF OpenRequests
<1>6. WalletInv'
  BY <1>2, <1>4, <1>5 DEF IInv, WalletInv, Orderly
<1> QED
  BY <1>3, <1>6

LEMMA DeploymentIsAppended ==
    ASSUME IInv, NEW r \in Requests, requests[r].st \in {"relay", "abandoned"},
           requests[r].kind = "deployWallet", Executed(requests[r])
    PROVE  /\ deployments' \in Seq(DeploymentRecords) /\ Len(deployments') \in 0 .. MaxDeploys
           /\ served' = served
           /\ \A x \in DOMAIN deployments : deployments'[x] = deployments[x] /\ x =< Len(deployments')
           /\ Len(deployments') = Len(deployments) + 1
           /\ Len(deployments') \in Nat /\ Len(deployments') \notin DOMAIN deployments
           /\ DOMAIN deployments' = DOMAIN deployments \cup {Len(deployments')}
           /\ deployments'[Len(deployments')].session = requests[r].session
           /\ deployments'[Len(deployments')].impl = requests[r].impl
           /\ ~deployments'[Len(deployments')].recorded
           /\ requests[r].session \in DOMAIN sessions
           /\ requests[r].st = "relay" => r \in OpenRequests(requests[r].session)
<1> DEFINE n == Len(deployments) + 1
           d == [session |-> requests[r].session, impl |-> requests[r].impl, st |-> "pending",
                 recorded |-> FALSE, late |-> FALSE]
<1>1. "deployWallet" \notin TrackedAction
  BY DEF TrackedAction
<1>2. deployments' = Append(deployments, d) /\ Len(deployments) < MaxDeploys /\ served' = served
  BY <1>1 DEF Executed
<1>3. requests[r].session \in DOMAIN sessions /\ requests[r].session \in SessionIds
      /\ requests[r].impl \in Implementations
      /\ (requests[r].st = "relay" => r \in OpenRequests(requests[r].session))
  BY <1>1, RowsAre DEF IInv, RequestInv, OpenRequests, Open
<1>4. d \in DeploymentRecords /\ d.session = requests[r].session /\ d.impl = requests[r].impl /\ ~d.recorded
  BY <1>3 DEF DeploymentRecords
<1>5. Len(deployments) \in Nat /\ DOMAIN deployments = 1 .. Len(deployments)
  BY DeploymentsAre DEF IInv
<1> HIDE DEF d
<1>6. /\ deployments' \in Seq(DeploymentRecords) /\ Len(deployments') = n
      /\ \A x \in DOMAIN deployments : deployments'[x] = deployments[x]
      /\ deployments'[n] = d
  <2>1. deployments \in Seq(DeploymentRecords)
    BY DEF IInv, TypeOK, DeploymentRecords
  <2> QED
    BY <1>2, <1>4, <1>5, <2>1, AppendProperties
<1>7. DOMAIN deployments' = DOMAIN deployments \cup {n} /\ n \notin DOMAIN deployments /\ n \in 0 .. MaxDeploys
      /\ n \in Nat /\ \A x \in DOMAIN deployments : x =< n
  <2>1. DOMAIN deployments' = 1 .. n
    BY <1>6, LenProperties
  <2>2. n =< MaxDeploys
    BY <1>2, <1>5, SessionAssumption DEF SessionAssumption
  <2> QED
    BY <1>5, <2>1, <2>2
<1> QED
  BY <1>2, <1>3, <1>4, <1>6, <1>7

\* A new deployment is not recorded yet, and none that is has a higher number.
LEMMA DeploymentIsSent ==
    ASSUME IInv, NEW r \in Requests, NEW q \in RequestRecords, Keeps(r, q),
           requests[r].st \in {"relay", "abandoned"}, requests[r].kind = "deployWallet",
           q.st \in {"record", "done"},
           q.st = "record" => q.hash = Len(deployments'),
           requests' = [requests EXCEPT ![r] = q], UNCHANGED <<sessions, overlapped>>,
           Executed(requests[r])
    PROVE  DeploymentInv' /\ WalletInv'
<1> DEFINE n == Len(deployments')
           d == deployments'[n]
<1>3. requests[r].session \in DOMAIN sessions
  BY DeploymentIsAppended
<1>4. d.session = requests[r].session /\ ~d.recorded
  BY DeploymentIsAppended
<1>6. (\A x \in DOMAIN deployments : deployments'[x] = deployments[x]) /\ deployments'[n] = d
  BY DeploymentIsAppended
<1>7. DOMAIN deployments' = DOMAIN deployments \cup {n} /\ n \notin DOMAIN deployments
      /\ n \in Nat /\ \A x \in DOMAIN deployments : x =< n
  BY DeploymentIsAppended
<1>5. q.st = "record" => q.hash = n
  OBVIOUS
<1> HIDE DEF n, d
<1>8. requests'[r] = q /\ \A x \in Requests : x # r => requests'[x] = requests[x]
  BY RequestBecomes DEF IInv
<1>9. \A t : OpenRequests(t)' \subseteq OpenRequests(t) /\ (r \in OpenRequests(t)' => q.st \in Open)
  BY OpenFrame DEF IInv
<1>10. \A m, impl : m.walletDeploy \in {NoDeploy} \cup DOMAIN deployments =>
            (hasDeployInProgress(m, impl)' <=> hasDeployInProgress(m, impl))
  BY <1>6 DEF hasDeployInProgress
<1>11. DeploymentInv'
  <2>1. \A x \in DOMAIN deployments' : deployments'[x].session \in DOMAIN sessions'
    BY <1>3, <1>4, <1>6, <1>7 DEF IInv, DeploymentInv
  <2>2. \A s \in DOMAIN sessions' : sessions'[s].meta.walletDeploy \in {NoDeploy} \cup DOMAIN deployments'
    BY <1>7 DEF IInv, DeploymentInv
  <2>3. ASSUME NEW x \in Requests, requests'[x].st \in Open
        PROVE  /\ requests'[x].meta.walletDeploy \in {NoDeploy} \cup DOMAIN deployments'
               /\ requests'[x].kind = "deployWallet" /\ requests'[x].st = "relay" =>
                    ~hasDeployInProgress(requests[x].meta, requests[x].impl)'
               /\ requests'[x].kind = "deployWallet" /\ requests'[x].st = "record" =>
                    /\ requests'[x].hash \in DOMAIN deployments'
                    /\ deployments'[requests'[x].hash].session = requests'[x].session
    <3>1. requests[x].st \in Open /\ requests'[x].meta = requests[x].meta
          /\ requests[x].meta.walletDeploy \in {NoDeploy} \cup DOMAIN deployments
      BY <1>8, <2>3 DEF Keeps, IInv, DeploymentInv
    <3>2. CASE x = r
      <4>1. q.st = "record" /\ q.hash = n /\ q.session = requests[r].session
        BY <1>5, <1>8, <2>3, <3>2 DEF Open, Keeps
      <4> QED
        BY <1>4, <1>6, <1>7, <1>8, <3>1, <3>2, <4>1
    <3>3. CASE x # r
      <4>1. requests'[x] = requests[x]
        BY <1>8, <3>3
      <4>2. hasDeployInProgress(requests[x].meta, requests[x].impl)'
                <=> hasDeployInProgress(requests[x].meta, requests[x].impl)
        BY <1>10, <3>1, <4>1
      <4>3. DeploymentInv
        BY DEF IInv
      <4> QED
        BY <1>6, <1>7, <3>1, <4>1, <4>2, <4>3 DEF DeploymentInv
    <3> QED
      BY <3>2, <3>3
  <2> QED
    BY <2>1, <2>2, <2>3 DEF DeploymentInv
<1>12. WalletInv'
  <2>1. \A t : Recorded(t)' = Recorded(t)
    BY <1>4, <1>6, <1>7 DEF Recorded
  <2>2. \A t : \A x \in OpenRequests(t)' : x \in Requests /\ (x # r => requests'[x] = requests[x])
    BY <1>8 DEF OpenRequests
  <2>3. Orderly' = Orderly /\ \A t : Recorded(t) \subseteq DOMAIN deployments
    BY DEF Orderly, Recorded
  <2>4. ASSUME NEW t \in Orderly, NEW x \in OpenRequests(t)', NEW e \in Recorded(t),
               requests'[x].kind = "deployWallet" /\ requests'[x].st = "record"
        PROVE  e =< requests'[x].hash
    <3>1. CASE x = r
      BY <1>5, <1>7, <1>8, <2>3, <2>4, <3>1 DEF Open
    <3>2. CASE x # r
      BY <1>9, <2>2, <2>4, <3>2 DEF IInv, WalletInv
    <3> QED
      BY <3>1, <3>2
  <2>5. \A t \in Orderly :
            /\ sessions[t].meta.walletDeploy # NoDeploy => sessions[t].meta.walletDeploy \in Recorded(t)
            /\ \A e \in Recorded(t) : e =< sessions[t].meta.walletDeploy
    BY DEF IInv, WalletInv
  <2> QED
    BY <2>1, <2>3, <2>4, <2>5 DEF WalletInv
<1> QED
  BY <1>11, <1>12

LEMMA CountIs ==
    ASSUME NEW f \in [SessionIds -> [TrackedAction -> Nat]], NEW s \in SessionIds,
           NEW k \in TrackedAction, NEW c \in Nat, NEW g, g = [f EXCEPT ![s][k] = @ + c]
    PROVE  /\ g \in [SessionIds -> [TrackedAction -> Nat]]
           /\ \A t \in SessionIds : t # s => g[t] = f[t]
           /\ \A a \in TrackedAction : g[s][a] = IF a = k THEN f[s][a] + c ELSE f[s][a]
OBVIOUS

\* What is known of a request the relayer is asked to execute.
Relaying(r) ==
    /\ requests[r] \in RequestRecords /\ RequestInv(requests[r])
    /\ requests[r].session \in SessionIds /\ requests[r].session \in DOMAIN sessions
    /\ requests[r].count \in Nat
    /\ requests[r].kind \in TrackedAction \/ requests[r].kind = "deployWallet"
    /\ "deployWallet" \notin TrackedAction
    /\ \A a \in TrackedAction :
        /\ served[requests[r].session][a] \in Nat /\ lost[requests[r].session][a] \in Nat
        /\ Pending(requests[r], a) =
            IF requests[r].st = "record" /\ requests[r].kind = a THEN requests[r].count ELSE 0
        /\ Pending(Done, a) = 0
    /\ Keeps(r, Done) /\ RequestInv(Done)

LEMMA RelayedRequest ==
    ASSUME IInv, NEW r \in Requests, requests[r].st \in {"relay", "record", "abandoned"}
    PROVE  Relaying(r)
<1>0. requests[r].st \in Open \cup {"abandoned"}
  BY DEF Open
<1>1. requests[r] \in RequestRecords /\ RequestInv(requests[r])
  BY RequestsAre DEF IInv
<1>2. requests[r].session \in DOMAIN sessions /\ requests[r].session \in SessionIds
  BY <1>1, RowsAre DEF IInv, RequestInv, Open
<1>3. requests[r].count \in Nat /\ (requests[r].kind \in TrackedAction \/ requests[r].kind = "deployWallet")
  BY <1>1, SessionAssumption DEF RequestRecords, RequestInv, Open, SessionAssumption
<1>4. \A a \in TrackedAction : served[requests[r].session][a] \in Nat /\ lost[requests[r].session][a] \in Nat
  BY <1>2 DEF IInv, TypeOK
<1>5. \A a : Pending(Done, a) = 0
  BY DoneIsRecord DEF Pending
<1>6. Keeps(r, Done) /\ RequestInv(Done)
  BY DoneIsRecord DEF Keeps, RequestInv, Open
<1> QED
  BY <1>1, <1>2, <1>3, <1>4, <1>5, <1>6 DEF Relaying, Pending, TrackedAction

LEMMA RelayedStep ==
    ASSUME IInv, NEW r \in Requests, Relayed(r)
    PROVE  IInv'
<1>1. requests[r].st = "relay" /\ Executed(requests[r]) /\ UNCHANGED <<sessions, lost, overlapped, careless>>
  BY DEF Relayed
<1>2. PICK q : q = [requests[r] EXCEPT !.st = "record", !.hash = Len(deployments')]
  OBVIOUS
<1> DEFINE s == requests[r].session
           k == requests[r].kind
<1>3. Relaying(r) /\ requests[r].st \in {"relay", "record"}
  BY <1>1, RelayedRequest
<1>4. requests' = [requests EXCEPT ![r] = q]
  BY <1>2 DEF Relayed
<1>5. Keeps(r, q) /\ q.st = "record" /\ q.kind = k /\ q.session = s /\ q.count = requests[r].count
      /\ q.hash = Len(deployments') /\ (Len(deployments') \in 0 .. MaxDeploys => q \in RequestRecords)
  BY <1>1, <1>2, <1>3 DEF Relaying, RequestRecords, Keeps, Open
<1>6. RequestInv(q)
  BY <1>1, <1>3, <1>5 DEF Relaying, RequestInv, Keeps, Open
<1>7. CASE k \in TrackedAction
  <2>1. served' = [served EXCEPT ![s][k] = @ + requests[r].count] /\ deployments' = deployments
    BY <1>3, <1>1, <1>7 DEF Executed, Relaying
  <2>2. /\ deployments \in Seq(DeploymentRecords) /\ Len(deployments) \in 0 .. MaxDeploys
        /\ lost \in [SessionIds -> [TrackedAction -> Nat]]
    BY DeploymentsAre, SessionAssumption DEF IInv, TypeOK, DeploymentRecords, SessionAssumption
  <2>3. q \in RequestRecords
    BY <1>5, <2>1, <2>2
  <2>4. DeploymentInv' /\ WalletInv'
    <3>1. q.kind # "deployWallet"
      BY <1>3, <1>5, <1>7 DEF Relaying
    <3> QED
      BY <1>1, <1>4, <1>5, <2>1, <2>3, <3>1, DeploymentsStay
  <2>5. /\ served' \in [SessionIds -> [TrackedAction -> Nat]]
        /\ \A t \in SessionIds : t # s => served'[t] = served[t]
        /\ \A a \in TrackedAction : served'[s][a] =
                IF a = k THEN served[s][a] + requests[r].count ELSE served[s][a]
    BY <1>3, <1>7, <2>1, CountIs DEF Relaying, IInv, TypeOK
  <2>6. Settles(requests[r], q)
    <3> SUFFICES ASSUME NEW a \in TrackedAction
                 PROVE  /\ served[s][a] =< served'[s][a]
                        /\ served[s][a] + Pending(q, a) =< served'[s][a] + Pending(requests[r], a)
                        /\ served'[s][a] + lost[s][a] + Pending(requests[r], a)
                                = lost'[s][a] + served[s][a] + Pending(q, a)
      BY DEF Settles
    <3>1. Pending(q, a) = IF a = k THEN requests[r].count ELSE 0
      BY <1>5 DEF Pending
    <3>2. Pending(requests[r], a) = 0
      BY <1>1 DEF Pending
    <3>3. served[s][a] \in Nat /\ lost[s][a] \in Nat /\ requests[r].count \in Nat /\ lost' = lost
      BY <1>1, <1>3 DEF Relaying
    <3> QED
      BY <2>5, <3>1, <3>2, <3>3
  <2>7. /\ \A t \in SessionIds : t # s => served'[t] = served[t] /\ lost'[t] = lost[t]
        /\ lost' \in [SessionIds -> [TrackedAction -> Nat]]
        /\ deployments' \in Seq(DeploymentRecords) /\ Len(deployments') =< MaxDeploys
    BY <1>1, <2>1, <2>2, <2>5 DEF IInv, TypeOK
  <2> QED
    BY <1>1, <1>3, <1>4, <1>5, <1>6, <2>3, <2>4, <2>5, <2>6, <2>7, RelayerStep
<1>8. CASE k = "deployWallet"
  <2>1. /\ deployments' \in Seq(DeploymentRecords) /\ Len(deployments') \in 0 .. MaxDeploys
        /\ Len(deployments') =< MaxDeploys /\ served' = served
    BY <1>1, <1>8, DeploymentIsAppended
  <2>2. q \in RequestRecords
    BY <1>5, <2>1
  <2>3. DeploymentInv' /\ WalletInv'
    BY <1>1, <1>4, <1>5, <1>8, <2>2, DeploymentIsSent
  <2>4. /\ served' \in [SessionIds -> [TrackedAction -> Nat]]
        /\ lost' \in [SessionIds -> [TrackedAction -> Nat]]
    BY <1>1, <2>1 DEF IInv, TypeOK
  <2>5. Settles(requests[r], q)
    <3>1. \A a \in TrackedAction : Pending(q, a) = 0 /\ Pending(requests[r], a) = 0
      BY <1>3, <1>5, <1>8 DEF Pending, Relaying
    <3> QED
      BY <1>1, <1>3, <2>1, <3>1 DEF Settles, Relaying
  <2> QED
    BY <1>1, <1>3, <1>4, <1>5, <1>6, <2>1, <2>2, <2>3, <2>4, <2>5, RelayerStep
<1> QED
  BY <1>3, <1>7, <1>8 DEF Relaying

LEMMA RelayTimesOutStep ==
    ASSUME IInv, NEW r \in Requests, RelayTimesOut(r)
    PROVE  IInv'
<1> DEFINE q == [requests[r] EXCEPT !.st = "abandoned", !.meta = NoMeta]
<1>1. requests[r].st = "relay" /\ UNCHANGED <<sessions, deployments, served, lost, overlapped, careless>>
  BY DEF RelayTimesOut
<1>2. requests' = [requests EXCEPT ![r] = q]
  BY DEF RelayTimesOut
<1>3. requests[r] \in RequestRecords /\ RequestInv(requests[r])
  BY RequestsAre DEF IInv
<1>4. q \in RequestRecords /\ q.st = "abandoned" /\ q.kind = requests[r].kind
      /\ q.session = requests[r].session /\ q.count = requests[r].count /\ q.impl = requests[r].impl
  BY <1>3, DoneIsRecord DEF RequestRecords
<1> HIDE DEF q
<1>5. Keeps(r, q) /\ RequestInv(q) /\ q.st \notin {"record", "relay", "create"}
  BY <1>1, <1>3, <1>4 DEF Keeps, RequestInv, Open
<1>6. \A s \in Orderly, a \in TrackedAction :
        /\ sessions'[s].meta.callCount[a] \in Nat
        /\ sessions[s].meta.callCount[a] =< sessions'[s].meta.callCount[a]
  BY <1>1, RowsAre DEF IInv, Orderly, Rows, Metas
<1>7. AccountInv'
  <2>1. careless \subseteq careless' /\ overlapped \subseteq overlapped' /\ DOMAIN sessions' = DOMAIN sessions
        /\ \A s \in DOMAIN sessions : sessions'[s].account = sessions[s].account
    BY <1>1
  <2> QED
    BY <1>2, <1>4, <1>5, <1>6, <2>1, AccountFrame
<1>8. careless' \subseteq Accounts /\ requests[r].st # "record"
  BY <1>1 DEF IInv, TypeOK
<1> QED
  BY <1>1, <1>2, <1>4, <1>5, <1>7, <1>8, QuietStep

\* What is executed for nobody is lost: it is pending in no request.
LEMMA LateStep ==
    ASSUME IInv, NEW r \in Requests, requests[r].st = "abandoned", Answer(r),
           UNCHANGED <<sessions, overlapped, careless>>,
           served' \in [SessionIds -> [TrackedAction -> Nat]],
           lost' \in [SessionIds -> [TrackedAction -> Nat]],
           \A t \in SessionIds \ DOMAIN sessions : served'[t] = served[t] /\ lost'[t] = lost[t],
           \A t \in SessionIds, a \in TrackedAction :
                /\ served[t][a] =< served'[t][a]
                /\ served'[t][a] + lost[t][a] = lost'[t][a] + served[t][a],
           deployments' \in Seq(DeploymentRecords), Len(deployments') =< MaxDeploys,
           DeploymentInv', WalletInv'
    PROVE  IInv'
<1>1. requests' = [requests EXCEPT ![r] = Done] /\ Done \in RequestRecords /\ Done.st = "done"
      /\ Keeps(r, Done) /\ RequestInv(Done)
  BY DoneIsRecord DEF Answer, Keeps, RequestInv, Open
<1>2. /\ requests' \in [Requests -> RequestRecords] /\ requests'[r] = Done
      /\ \A x \in Requests : x # r => requests'[x] = requests[x]
  BY <1>1, RequestBecomes DEF IInv
<1>3. \A x \in Requests : requests'[x].st \in Open \/ requests[x].st \in Open =>
            requests'[x] = requests[x]
  BY <1>1, <1>2 DEF Open
<1>4. \A t : /\ OpenRequests(t)' = OpenRequests(t)
             /\ \A x \in OpenRequests(t) : x \in Requests /\ requests'[x] = requests[x]
  <2>1. \A t : OpenRequests(t) = {x \in Requests : requests[x].st \in Open /\ requests[x].session = t}
    BY DEF OpenRequests
  <2>2. \A t : OpenRequests(t)' = {x \in Requests : requests'[x].st \in Open /\ requests'[x].session = t}
    BY DEF OpenRequests
  <2> QED
    BY <1>3, <2>1, <2>2
<1>5. Orderly' = Orderly /\ Orderly \subseteq DOMAIN sessions /\ DOMAIN sessions \subseteq SessionIds
  BY RowsAre DEF Orderly, IInv
<1>6. \A t \in SessionIds, a \in TrackedAction :
        /\ served[t][a] \in Nat /\ lost[t][a] \in Nat /\ served'[t][a] \in Nat /\ lost'[t][a] \in Nat
        /\ served[t][a] =< served'[t][a]
        /\ served'[t][a] + lost[t][a] = lost'[t][a] + served[t][a]
  BY DEF IInv, TypeOK
<1>7. \A t \in DOMAIN sessions, a \in TrackedAction : sessions[t].meta.callCount[a] \in Nat
  BY RowsAre DEF IInv, Rows, Metas
<1>8. \A x \in Requests, a \in TrackedAction :
        requests[x].meta.callCount[a] \in Nat /\ Pending(requests[x], a) \in Nat
  <2>1. \A x \in Requests : requests[x] \in RequestRecords
    BY RequestsAre DEF IInv
  <2>2. \A x \in Requests, a \in TrackedAction : requests[x].meta.callCount[a] \in Nat
    BY <2>1 DEF RequestRecords, Metas
  <2> QED
    BY <2>1, <2>2, PendingIs
<1>9. TypeOK'
  BY <1>2 DEF IInv, TypeOK, RequestRecords, DeploymentRecords
<1>10. \A x \in Requests : RequestInv(requests[x])'
  <2>1. RequestInv(Done)'
    BY <1>1 DEF RequestInv
  <2> QED
    BY <1>2, <2>1 DEF IInv, RequestInv
<1>11. ChargeInv'
  <2>1. ASSUME NEW t \in DOMAIN sessions, NEW a \in TrackedAction
        PROVE  sessions[t].meta.callCount[a] =< served'[t][a]
    <3>1. sessions[t].meta.callCount[a] =< served[t][a]
      BY DEF IInv, ChargeInv, NeverOvercharged
    <3>2. t \in SessionIds
      BY <1>5
    <3> QED
      BY <1>6, <1>7, <3>1, <3>2
  <2>2. ASSUME NEW x \in Requests, requests'[x].st \in Open, NEW a \in TrackedAction
        PROVE  requests'[x].meta.callCount[a] + Pending(requests'[x], a)
                    =< served'[requests'[x].session][a]
    <3>1. requests'[x] = requests[x] /\ requests[x].st \in Open
      BY <1>3, <2>2
    <3>2. requests[x].meta.callCount[a] + Pending(requests[x], a) =< served[requests[x].session][a]
      BY <3>1 DEF IInv, ChargeInv
    <3>3. requests[x].session \in SessionIds
      BY <1>5, <3>1 DEF IInv, RequestInv
    <3>4. PICK t \in SessionIds : t = requests[x].session
      BY <3>3
    <3>5. served[t][a] =< served'[t][a] /\ served[t][a] \in Nat /\ served'[t][a] \in Nat
          /\ requests[x].meta.callCount[a] + Pending(requests[x], a) \in Nat
      BY <1>6, <1>8
    <3>6. requests[x].meta.callCount[a] + Pending(requests[x], a) =< served'[t][a]
      BY <3>2, <3>4, <3>5
    <3> QED
      BY <3>1, <3>4, <3>6
  <2>3. \A t \in SessionIds \ DOMAIN sessions : served'[t] = NoCounts /\ lost'[t] = NoCounts
    BY DEF IInv, ChargeInv
  <2>4. NeverOvercharged'
    BY <2>1 DEF NeverOvercharged
  <2> QED
    BY <2>2, <2>3, <2>4 DEF ChargeInv, Pending
<1>12. CopyInv'
  BY <1>4, <1>5 DEF IInv, CopyInv
<1>13. LedgerInv'
  <2> SUFFICES ASSUME NEW t \in Orderly, NEW a \in TrackedAction
               PROVE  /\ OpenRequests(t)' = {} => served'[t][a] = lost'[t][a] + sessions[t].meta.callCount[a]
                      /\ \A x \in OpenRequests(t)' : served'[t][a] = lost'[t][a]
                            + sessions[t].meta.callCount[a] + Pending(requests'[x], a)
    BY <1>5 DEF LedgerInv, Pending
  <2>1. /\ OpenRequests(t) = {} => served[t][a] = lost[t][a] + sessions[t].meta.callCount[a]
        /\ \A x \in OpenRequests(t) :
            served[t][a] = lost[t][a] + sessions[t].meta.callCount[a] + Pending(requests[x], a)
    BY DEF IInv, LedgerInv
  <2>2. /\ served[t][a] \in Nat /\ lost[t][a] \in Nat /\ served'[t][a] \in Nat /\ lost'[t][a] \in Nat
        /\ served'[t][a] + lost[t][a] = lost'[t][a] + served[t][a]
        /\ sessions[t].meta.callCount[a] \in Nat
    BY <1>5, <1>6, <1>7
  <2>3. CASE OpenRequests(t)' = {}
    <3>1. OpenRequests(t) = {}
      BY <1>4, <2>3
    <3>2. served[t][a] = lost[t][a] + sessions[t].meta.callCount[a]
      BY <2>1, <3>1
    <3>3. served'[t][a] = lost'[t][a] + sessions[t].meta.callCount[a]
      BY ONLY <2>2, <3>2
    <3> QED
      BY <2>3, <3>3
  <2>4. ASSUME NEW x \in OpenRequests(t)'
        PROVE  served'[t][a] = lost'[t][a] + sessions[t].meta.callCount[a] + Pending(requests'[x], a)
    <3>1. x \in OpenRequests(t) /\ x \in Requests /\ requests'[x] = requests[x]
      BY <1>4, <2>4
    <3>2. Pending(requests[x], a) \in Nat
      BY <1>8, <3>1
    <3>3. served[t][a] = lost[t][a] + sessions[t].meta.callCount[a] + Pending(requests[x], a)
      BY <2>1, <3>1
    <3>4. served'[t][a] = lost'[t][a] + sessions[t].meta.callCount[a] + Pending(requests[x], a)
      BY ONLY <2>2, <3>2, <3>3
    <3> QED
      BY <3>1, <3>4
  <2> QED
    BY <2>3, <2>4
<1>14. GuardInv'
  BY <1>3, <1>5 DEF IInv, GuardInv, QuotaGuard
<1>15. AccountInv'
  <2>1. \A t \in Orderly, a \in TrackedAction :
            /\ sessions'[t].meta.callCount[a] \in Nat
            /\ sessions[t].meta.callCount[a] =< sessions'[t].meta.callCount[a]
    BY <1>5, <1>7
  <2>2. Done.st # "create" /\ careless \subseteq careless' /\ overlapped \subseteq overlapped'
        /\ DOMAIN sessions' = DOMAIN sessions
        /\ \A t \in DOMAIN sessions : sessions'[t].account = sessions[t].account
    BY <1>1
  <2> QED
    BY <1>1, <2>1, <2>2, AccountFrame
<1> QED
  BY <1>9, <1>10, <1>11, <1>12, <1>13, <1>14, <1>15 DEF IInv

LEMMA LateExecutionStep ==
    ASSUME IInv, NEW r \in Requests, LateExecution(r)
    PROVE  IInv'
<1>1. requests[r].st = "abandoned" /\ Executed(requests[r]) /\ Uncharged(requests[r]) /\ Answer(r)
      /\ UNCHANGED <<sessions, overlapped, careless>>
  BY DEF LateExecution
<1> DEFINE s == requests[r].session
           k == requests[r].kind
<1>2. Relaying(r)
  BY <1>1, RelayedRequest
<1>3. requests' = [requests EXCEPT ![r] = Done] /\ Done \in RequestRecords /\ Done.st = "done"
      /\ Keeps(r, Done) /\ Done.st \notin Open
  BY <1>1, <1>2, DoneIsRecord DEF Answer, Relaying, Open
<1>4. served \in [SessionIds -> [TrackedAction -> Nat]] /\ lost \in [SessionIds -> [TrackedAction -> Nat]]
  BY DEF IInv, TypeOK
<1>5. CASE k \in TrackedAction
  <2>1. /\ served' = [served EXCEPT ![s][k] = @ + requests[r].count] /\ deployments' = deployments
        /\ lost' = [lost EXCEPT ![s][k] = @ + requests[r].count]
    BY <1>1, <1>2, <1>5 DEF Executed, Uncharged, Relaying
  <2>2. deployments' \in Seq(DeploymentRecords) /\ Len(deployments') =< MaxDeploys
    BY <2>1 DEF IInv, TypeOK, DeploymentRecords
  <2>3. DeploymentInv' /\ WalletInv'
    BY <1>1, <1>3, <2>1, DeploymentsStay
  <2>4. /\ served' \in [SessionIds -> [TrackedAction -> Nat]]
        /\ \A t \in SessionIds : t # s => served'[t] = served[t]
        /\ \A a \in TrackedAction : served'[s][a] =
                IF a = k THEN served[s][a] + requests[r].count ELSE served[s][a]
    BY <1>2, <1>4, <1>5, <2>1, CountIs DEF Relaying
  <2>5. /\ lost' \in [SessionIds -> [TrackedAction -> Nat]]
        /\ \A t \in SessionIds : t # s => lost'[t] = lost[t]
        /\ \A a \in TrackedAction : lost'[s][a] =
                IF a = k THEN lost[s][a] + requests[r].count ELSE lost[s][a]
    BY <1>2, <1>4, <1>5, <2>1, CountIs DEF Relaying
  <2>6. ASSUME NEW t \in SessionIds, NEW a \in TrackedAction
        PROVE  /\ served[t][a] =< served'[t][a]
               /\ served'[t][a] + lost[t][a] = lost'[t][a] + served[t][a]
    <3>1. served[t][a] \in Nat /\ lost[t][a] \in Nat /\ requests[r].count \in Nat
      BY <1>2, <1>4 DEF Relaying
    <3>2. CASE t = s
      BY <2>4, <2>5, <3>1, <3>2
    <3>3. CASE t # s
      BY <2>4, <2>5, <3>1, <3>3
    <3> QED
      BY <3>2, <3>3
  <2>7. \A t \in SessionIds \ DOMAIN sessions : served'[t] = served[t] /\ lost'[t] = lost[t]
    BY <1>2, <2>4, <2>5 DEF Relaying
  <2> QED
    BY <1>1, <2>2, <2>3, <2>4, <2>5, <2>6, <2>7, LateStep
<1>6. CASE k = "deployWallet"
  <2>1. /\ deployments' \in Seq(DeploymentRecords) /\ Len(deployments') \in 0 .. MaxDeploys
        /\ Len(deployments') =< MaxDeploys /\ served' = served /\ lost' = lost
    BY <1>1, <1>6, DeploymentIsAppended DEF Uncharged
  <2>2. DeploymentInv' /\ WalletInv'
    BY <1>1, <1>3, <1>6, DeploymentIsSent
  <2>3. \A t \in SessionIds, a \in TrackedAction :
            /\ served[t][a] =< served'[t][a]
            /\ served'[t][a] + lost[t][a] = lost'[t][a] + served[t][a]
    <3>1. \A t \in SessionIds, a \in TrackedAction : served[t][a] \in Nat /\ lost[t][a] \in Nat
      BY <1>4
    <3> QED
      BY <2>1, <3>1
  <2> QED
    BY <1>1, <1>4, <2>1, <2>2, <2>3, LateStep
<1> QED
  BY <1>2, <1>5, <1>6 DEF Relaying

\* What was executed is lost when it cannot be written.
LEMMA NotRecordedStep ==
    ASSUME IInv, NEW r \in Requests, NotRecorded(r)
    PROVE  IInv'
<1>1. requests[r].st = "record" /\ Uncharged(requests[r])
      /\ UNCHANGED <<sessions, deployments, served, overlapped, careless>>
  BY DEF NotRecorded
<1> DEFINE s == requests[r].session
           k == requests[r].kind
<1>2. Relaying(r) /\ requests[r].st \in {"relay", "record"}
  BY <1>1, RelayedRequest
<1>3. requests' = [requests EXCEPT ![r] = Done] /\ Done \in RequestRecords /\ Done.st = "done"
      /\ Keeps(r, Done) /\ RequestInv(Done) /\ Done.st \notin Open
  BY <1>2, DoneIsRecord DEF NotRecorded, Answer, Relaying, Open
<1>4. /\ deployments' \in Seq(DeploymentRecords) /\ Len(deployments') =< MaxDeploys
      /\ served' \in [SessionIds -> [TrackedAction -> Nat]] /\ served' = served
      /\ lost \in [SessionIds -> [TrackedAction -> Nat]]
  BY <1>1 DEF IInv, TypeOK, DeploymentRecords
<1>5. DeploymentInv' /\ WalletInv'
  BY <1>1, <1>3, DeploymentsStay
<1>6. /\ lost' \in [SessionIds -> [TrackedAction -> Nat]]
      /\ \A t \in SessionIds : t # s => lost'[t] = lost[t]
      /\ \A a \in TrackedAction : lost'[s][a] = lost[s][a] + Pending(requests[r], a)
  <2>1. CASE k \in TrackedAction
    <3>1. lost' = [lost EXCEPT ![s][k] = @ + requests[r].count]
      BY <1>1, <1>2, <2>1 DEF Uncharged, Relaying
    <3>2. /\ lost' \in [SessionIds -> [TrackedAction -> Nat]]
          /\ \A t \in SessionIds : t # s => lost'[t] = lost[t]
          /\ \A a \in TrackedAction : lost'[s][a] =
                IF a = k THEN lost[s][a] + requests[r].count ELSE lost[s][a]
      BY <1>2, <1>4, <2>1, <3>1, CountIs DEF Relaying
    <3> QED
      BY <1>1, <1>2, <3>2 DEF Relaying
  <2>2. CASE k = "deployWallet"
    <3>1. lost' = lost /\ \A a \in TrackedAction : Pending(requests[r], a) = 0
      BY <1>1, <1>2, <2>2 DEF Uncharged, Relaying
    <3>2. \A a \in TrackedAction : lost[s][a] \in Nat
      BY <1>2 DEF Relaying
    <3> QED
      BY <1>4, <3>1, <3>2
  <2> QED
    BY <1>2, <2>1, <2>2 DEF Relaying
<1>7. Settles(requests[r], Done)
  <2> SUFFICES ASSUME NEW a \in TrackedAction
               PROVE  /\ served[s][a] =< served'[s][a]
                      /\ served'[s][a] + lost[s][a] + Pending(requests[r], a)
                            = lost'[s][a] + served[s][a] + Pending(Done, a)
    BY <1>3 DEF Settles
  <2>1. /\ served[s][a] \in Nat /\ lost[s][a] \in Nat /\ Pending(Done, a) = 0
        /\ Pending(requests[r], a) \in Nat
    BY <1>2 DEF Relaying
  <2>2. lost'[s][a] = lost[s][a] + Pending(requests[r], a) /\ served'[s][a] = served[s][a]
    BY <1>4, <1>6
  <2> QED
    BY ONLY <2>1, <2>2
<1> QED
  BY <1>1, <1>2, <1>3, <1>4, <1>5, <1>6, <1>7, RelayerStep

-----------------------------------------------------------------------------
(* A handler writes its copy *)

\* The copy is written with what is pending added.
Charges(p, m) == \A a \in TrackedAction : m.callCount[a] = p.meta.callCount[a] + Pending(p, a)

LEMMA WriteStep ==
    ASSUME IInv, NEW r \in Requests, NEW m \in Metas, NEW s,
           requests[r].st = "record", s = requests[r].session, Charges(requests[r], m),
           sessions' = [sessions EXCEPT ![s].meta = m], Answer(r),
           UNCHANGED <<served, lost, overlapped, careless>>,
           deployments' \in Seq(DeploymentRecords), Len(deployments') =< MaxDeploys,
           DeploymentInv', WalletInv'
    PROVE  IInv'
<1>1. Relaying(r)
  BY RelayedRequest
<1>2. requests' = [requests EXCEPT ![r] = Done] /\ Done \in RequestRecords /\ Done.st = "done"
      /\ Keeps(r, Done) /\ RequestInv(Done) /\ Done.st \notin Open
  BY <1>1, DoneIsRecord DEF Answer, Relaying, Open
<1>3. /\ requests' \in [Requests -> RequestRecords] /\ requests'[r] = Done
      /\ \A x \in Requests : x # r => requests'[x] = requests[x]
  BY <1>2, RequestBecomes DEF IInv
<1>4. \A t : OpenRequests(t)' = OpenRequests(t) \ {r}
  <2>1. \A t : /\ OpenRequests(t)' \subseteq OpenRequests(t)
               /\ OpenRequests(t) \ {r} \subseteq OpenRequests(t)'
               /\ r \in OpenRequests(t)' => Done.st \in Open
    BY <1>2, OpenFrame DEF IInv
  <2> QED
    BY <1>2, <2>1
<1>5. s \in DOMAIN sessions /\ DOMAIN sessions \subseteq SessionIds /\ r \in OpenRequests(s)
      /\ \A t : t # s => r \notin OpenRequests(t)
  BY <1>1, RowsAre DEF IInv, Relaying, OpenRequests, Open
<1>6. /\ sessions' \in Seq(Rows) /\ Len(sessions') = Len(sessions)
      /\ DOMAIN sessions' = DOMAIN sessions
      /\ sessions'[s].meta = m
      /\ \A t \in DOMAIN sessions :
            /\ sessions'[t].account = sessions[t].account
            /\ t # s => sessions'[t] = sessions[t]
  <2>1. TypeOK
    BY DEF IInv
  <2>2. sessions' = [sessions EXCEPT ![s].meta = m] /\ m \in Metas
    OBVIOUS
  <2> QED
    BY ONLY <1>5, <2>1, <2>2, RowBecomes
<1>7. Orderly' = Orderly /\ Orderly \subseteq DOMAIN sessions
  BY <1>6 DEF Orderly
<1>8. \A t : \A x \in OpenRequests(t)' : x \in Requests /\ x # r /\ requests'[x] = requests[x] /\ x \in OpenRequests(t)
  BY <1>3, <1>4 DEF OpenRequests
<1>9. s \in Orderly => /\ OpenRequests(s) = {r} /\ OpenRequests(s)' = {}
                       /\ requests[r].meta = sessions[s].meta
  BY <1>4, <1>5 DEF IInv, CopyInv
<1>10. ASSUME NEW a \in TrackedAction
       PROVE  /\ m.callCount[a] = requests[r].meta.callCount[a] + Pending(requests[r], a)
              /\ m.callCount[a] \in Nat /\ Pending(requests[r], a) \in Nat
              /\ requests[r].meta.callCount[a] \in Nat
              /\ served[s][a] \in Nat /\ lost[s][a] \in Nat
  BY <1>1, PendingIs DEF Relaying, Charges, RequestRecords, Metas
<1>11. TypeOK'
  BY <1>3, <1>6 DEF IInv, TypeOK, RequestRecords, DeploymentRecords, Rows
<1>12. \A x \in Requests : RequestInv(requests[x])'
  <2>1. RequestInv(Done)'
    BY <1>2 DEF RequestInv
  <2> QED
    BY <1>3, <1>6, <2>1 DEF IInv, RequestInv
<1>13. ChargeInv'
  <2>1. \A a \in TrackedAction : m.callCount[a] =< served[s][a]
    <3> SUFFICES ASSUME NEW a \in TrackedAction PROVE m.callCount[a] =< served[s][a]
      OBVIOUS
    <3>1. requests[r].meta.callCount[a] + Pending(requests[r], a) =< served[s][a]
      BY DEF IInv, ChargeInv, Open
    <3> QED
      BY <1>10, <3>1
  <2>2. NeverOvercharged'
    BY <1>5, <1>6, <2>1 DEF IInv, ChargeInv, NeverOvercharged
  <2>3. \A x \in Requests : requests'[x].st \in Open => requests'[x] = requests[x]
    BY <1>2, <1>3
  <2> QED
    BY <1>6, <2>2, <2>3 DEF IInv, ChargeInv, Pending
<1>14. CopyInv'
  <2> SUFFICES ASSUME NEW t \in Orderly, NEW x \in OpenRequests(t)'
               PROVE  OpenRequests(t)' = {x} /\ requests'[x].meta = sessions'[t].meta
    BY <1>7 DEF CopyInv
  <2>1. t # s /\ x \in OpenRequests(t) /\ requests'[x] = requests[x]
    BY <1>8, <1>9
  <2>2. OpenRequests(t) = {x} /\ requests[x].meta = sessions[t].meta
    BY <2>1 DEF IInv, CopyInv
  <2> QED
    BY <1>4, <1>5, <1>6, <1>7, <2>1, <2>2
<1>15. LedgerInv'
  <2> SUFFICES ASSUME NEW t \in Orderly, NEW a \in TrackedAction
               PROVE  /\ OpenRequests(t)' = {} => served[t][a] = lost[t][a] + sessions'[t].meta.callCount[a]
                      /\ \A x \in OpenRequests(t)' : served[t][a] = lost[t][a]
                            + sessions'[t].meta.callCount[a] + Pending(requests'[x], a)
    BY <1>7 DEF LedgerInv, Pending
  <2>1. /\ OpenRequests(t) = {} => served[t][a] = lost[t][a] + sessions[t].meta.callCount[a]
        /\ \A x \in OpenRequests(t) :
            served[t][a] = lost[t][a] + sessions[t].meta.callCount[a] + Pending(requests[x], a)
    BY DEF IInv, LedgerInv
  <2>2. CASE t = s
    <3>1. served[s][a] = lost[s][a] + requests[r].meta.callCount[a] + Pending(requests[r], a)
      BY <1>5, <1>9, <2>1, <2>2
    <3>2. served[s][a] = lost[s][a] + m.callCount[a]
      BY <1>10, <3>1
    <3> QED
      BY <1>6, <1>9, <2>2, <3>2
  <2>3. CASE t # s
    <3>1. OpenRequests(t)' = OpenRequests(t) /\ sessions'[t] = sessions[t]
      <4>1. r \notin OpenRequests(t) /\ t \in DOMAIN sessions
        BY <1>5, <1>7, <2>3
      <4> QED
        BY <1>4, <1>6, <2>3, <4>1
    <3> QED
      BY <1>8, <2>1, <3>1
  <2> QED
    BY <2>2, <2>3
<1>16. GuardInv'
  <2>1. ASSUME s \in Orderly, NEW a \in TrackedAction
        PROVE  m.callCount[a] =< Quota[a] - 1 + MaxOf(a)
    <3>1. Quota[a] \in Nat /\ MaxOf(a) \in Nat
      BY SessionAssumption DEF SessionAssumption, MaxOf
    <3>2. CASE requests[r].kind = a
      <4>1. Pending(requests[r], a) =< MaxOf(a)
        BY <1>1, <3>2, RequestedBound DEF Relaying, RequestInv, Open
      <4>2. requests[r].meta.callCount[a] < Quota[a]
        BY <3>2 DEF IInv, GuardInv, Open, QuotaGuard
      <4> QED
        BY <1>10, <3>1, <4>1, <4>2
    <3>3. CASE requests[r].kind # a
      <4>1. Pending(requests[r], a) = 0
        BY <3>3 DEF Pending
      <4>2. requests[r].meta.callCount[a] =< Quota[a] - 1 + MaxOf(a)
        BY <1>9, <2>1 DEF IInv, GuardInv
      <4> QED
        BY <1>10, <3>1, <4>1, <4>2
    <3> QED
      BY <3>2, <3>3
  <2>2. \A x \in Requests : requests'[x].st \in Open => requests'[x] = requests[x]
    BY <1>2, <1>3
  <2>3. \A t \in Orderly', a \in TrackedAction :
            sessions'[t].meta.callCount[a] =< Quota[a] - 1 + MaxOf(a)
    BY <1>6, <1>7, <2>1 DEF IInv, GuardInv
  <2> QED
    BY <2>2, <2>3 DEF IInv, GuardInv, QuotaGuard
<1>17. AccountInv'
  <2>1. ASSUME NEW t \in Orderly, NEW a \in TrackedAction
        PROVE  /\ sessions'[t].meta.callCount[a] \in Nat
               /\ sessions[t].meta.callCount[a] =< sessions'[t].meta.callCount[a]
    <3>1. CASE t = s
      BY <1>6, <1>9, <1>10, <3>1
    <3>2. CASE t # s
      BY <1>6, <1>7, <3>2, RowsAre DEF IInv, Rows, Metas
    <3> QED
      BY <3>1, <3>2
  <2>2. Done.st # "create" /\ careless \subseteq careless' /\ overlapped \subseteq overlapped'
    BY <1>2
  <2>3. \A t \in DOMAIN sessions : sessions'[t].account = sessions[t].account
    BY <1>6
  <2> QED
    BY <1>2, <1>6, <2>1, <2>2, <2>3, AccountFrame
<1> QED
  BY <1>11, <1>12, <1>13, <1>14, <1>15, <1>16, <1>17 DEF IInv

LEMMA incrementUsageStep ==
    ASSUME IInv, NEW r \in Requests, incrementUsage(r)
    PROVE  IInv'
<1> DEFINE p == requests[r]
           s == p.session
<1>1. p.st = "record" /\ p.kind \in TrackedAction /\ Answer(r)
      /\ UNCHANGED <<deployments, served, lost, overlapped, careless>>
  BY DEF incrementUsage
<1>2. PICK m : m = [p.meta EXCEPT !.callCount[p.kind] = @ + p.count]
  OBVIOUS
<1>3. sessions' = [sessions EXCEPT ![s].meta = m]
  BY <1>2 DEF incrementUsage
<1>4. Relaying(r)
  BY <1>1, RelayedRequest
<1>5. p.meta \in Metas /\ p.count \in Nat
  BY <1>4 DEF Relaying, RequestRecords
<1>6. m \in Metas /\ m.walletDeploy = p.meta.walletDeploy
      /\ \A a \in TrackedAction : m.callCount[a] =
            IF a = p.kind THEN p.meta.callCount[a] + p.count ELSE p.meta.callCount[a]
  BY <1>1, <1>2, <1>5 DEF Metas
<1>7. Charges(p, m)
  <2> SUFFICES ASSUME NEW a \in TrackedAction
               PROVE  m.callCount[a] = p.meta.callCount[a] + Pending(p, a)
    BY DEF Charges
  <2>1. p.meta.callCount[a] \in Nat /\ Pending(p, a) = IF a = p.kind THEN p.count ELSE 0
    BY <1>1, <1>5 DEF Pending, Metas
  <2> QED
    BY <1>5, <1>6, <2>1
<1>8. /\ DOMAIN sessions' = DOMAIN sessions /\ sessions'[s].meta = m
      /\ \A t \in DOMAIN sessions : t # s => sessions'[t] = sessions[t]
  <2>1. TypeOK /\ s \in DOMAIN sessions /\ m \in Metas
    BY <1>4, <1>6 DEF IInv, Relaying
  <2> HIDE DEF s
  <2> QED
    BY ONLY <1>3, <2>1, RowBecomes
<1>9. requests' = [requests EXCEPT ![r] = Done] /\ Done \in RequestRecords /\ Done.st \notin Open
      /\ Keeps(r, Done) /\ Done.st = "done"
  BY <1>1, <1>4, DoneIsRecord DEF Answer, Relaying, Open
<1>10. requests'[r] = Done /\ \A x \in Requests : x # r => requests'[x] = requests[x]
  BY <1>9, RequestBecomes DEF IInv
<1> HIDE DEF s
<1>11. DeploymentInv'
  <2>1. m.walletDeploy \in {NoDeploy} \cup DOMAIN deployments
    BY <1>1, <1>6 DEF IInv, DeploymentInv, Open
  <2>2. \A x \in Requests : requests'[x].st \in Open => requests'[x] = requests[x]
    BY <1>9, <1>10
  <2>3. \A t \in DOMAIN sessions : sessions'[t].meta.walletDeploy \in {NoDeploy} \cup DOMAIN deployments
    BY <1>8, <2>1 DEF IInv, DeploymentInv
  <2> QED
    BY <1>1, <1>8, <2>2, <2>3 DEF IInv, DeploymentInv, hasDeployInProgress
<1>12. WalletInv'
  <2>1. \A t : Recorded(t)' = Recorded(t)
    BY <1>1 DEF Recorded
  <2>2. \A t : OpenRequests(t)' \subseteq OpenRequests(t) /\ r \notin OpenRequests(t)'
    BY <1>9, OpenFrame DEF IInv
  <2>3. \A t : \A x \in OpenRequests(t)' : x \in Requests /\ requests'[x] = requests[x] /\ x \in OpenRequests(t)
    BY <1>10, <2>2 DEF OpenRequests
  <2>4. Orderly' = Orderly /\ Orderly \subseteq DOMAIN sessions
    BY <1>1, <1>8 DEF Orderly
  <2>5. s \in Orderly => m.walletDeploy = sessions[s].meta.walletDeploy
    <3>1. r \in OpenRequests(s)
      BY <1>1 DEF OpenRequests, Open, s
    <3> QED
      BY <1>6, <3>1 DEF IInv, CopyInv
  <2>6. \A t \in Orderly : sessions'[t].meta.walletDeploy = sessions[t].meta.walletDeploy
    BY <1>8, <2>4, <2>5
  <2> QED
    BY <2>1, <2>3, <2>4, <2>6 DEF IInv, WalletInv
<1>13. deployments' \in Seq(DeploymentRecords) /\ Len(deployments') =< MaxDeploys
  BY <1>1 DEF IInv, TypeOK, DeploymentRecords
<1>14. UNCHANGED <<served, lost, overlapped, careless>> /\ s = requests[r].session
  BY <1>1 DEF s
<1> QED
  BY <1>1, <1>3, <1>6, <1>7, <1>11, <1>12, <1>13, <1>14, WriteStep

\* The deployment that is recorded is the last of its session's.
LEMMA RecordDeployStep ==
    ASSUME IInv, NEW r \in Requests, RecordDeploy(r)
    PROVE  IInv'
<1> DEFINE p == requests[r]
<1>0. PICK s, h : s = p.session /\ h = p.hash
  OBVIOUS
<1>1. p.st = "record" /\ p.kind = "deployWallet" /\ Answer(r)
      /\ UNCHANGED <<served, lost, overlapped, careless>>
      /\ deployments' = [deployments EXCEPT ![h].recorded = TRUE]
  BY <1>0 DEF RecordDeploy
<1>2. PICK m : m = [p.meta EXCEPT !.walletDeploy = h]
  OBVIOUS
<1>3. sessions' = [sessions EXCEPT ![s].meta = m]
  BY <1>0, <1>2 DEF RecordDeploy
<1>4. Relaying(r)
  BY <1>1, RelayedRequest
<1>5. p.meta \in Metas /\ h \in 0 .. MaxDeploys
  BY <1>0, <1>4 DEF Relaying, RequestRecords
<1>6. m \in Metas /\ m.walletDeploy = h /\ m.callCount = p.meta.callCount
  BY <1>2, <1>5 DEF Metas
<1>7. Charges(p, m)
  <2> SUFFICES ASSUME NEW a \in TrackedAction
               PROVE  m.callCount[a] = p.meta.callCount[a] + Pending(p, a)
    BY DEF Charges
  <2>1. p.meta.callCount[a] \in Nat /\ Pending(p, a) = 0
    BY <1>1, <1>4, <1>5 DEF Pending, Metas, Relaying
  <2> QED
    BY <1>6, <2>1
<1>8. /\ DOMAIN sessions' = DOMAIN sessions /\ sessions'[s].meta = m
      /\ \A t \in DOMAIN sessions : t # s => sessions'[t] = sessions[t]
  <2>1. TypeOK /\ s \in DOMAIN sessions /\ m \in Metas
    BY <1>0, <1>4, <1>6 DEF IInv, Relaying
  <2> QED
    BY ONLY <1>3, <2>1, RowBecomes
<1>9. requests' = [requests EXCEPT ![r] = Done] /\ Done \in RequestRecords /\ Done.st \notin Open
      /\ Keeps(r, Done) /\ Done.st = "done"
  BY <1>1, <1>4, DoneIsRecord DEF Answer, Relaying, Open
<1>10. requests'[r] = Done /\ \A x \in Requests : x # r => requests'[x] = requests[x]
  BY <1>9, RequestBecomes DEF IInv
<1>11. h \in DOMAIN deployments /\ deployments[h].session = s /\ s \in DOMAIN sessions
  BY <1>0, <1>1, <1>4 DEF IInv, DeploymentInv, Open, Relaying
<1>12. PICK e : e = [deployments[h] EXCEPT !.recorded = TRUE]
  OBVIOUS
<1>13. e \in DeploymentRecords /\ e.recorded /\ e.session = s
       /\ e.impl = deployments[h].impl /\ e.late = deployments[h].late
  BY <1>11, <1>12, DeploymentsAre DEF IInv, DeploymentRecords
<1>14. /\ deployments' \in Seq(DeploymentRecords) /\ Len(deployments') = Len(deployments)
       /\ DOMAIN deployments' = DOMAIN deployments /\ deployments'[h] = e
       /\ \A x \in DOMAIN deployments : x # h => deployments'[x] = deployments[x]
  <2>1. deployments' = [deployments EXCEPT ![h] = e] /\ TypeOK
    BY <1>1, <1>12 DEF IInv
  <2> QED
    BY ONLY <1>11, <1>13, <2>1, DeploymentBecomes
<1>15. Len(deployments') =< MaxDeploys
  BY <1>14 DEF IInv, TypeOK
<1>16. \A x \in DOMAIN deployments : deployments'[x].session = deployments[x].session
            /\ deployments'[x].impl = deployments[x].impl /\ deployments'[x].late = deployments[x].late
  BY <1>11, <1>13, <1>14
<1>17. DeploymentInv'
  <2>1. \A x \in Requests : requests'[x].st \in Open => requests'[x] = requests[x]
    BY <1>9, <1>10
  <2>2. \A t \in DOMAIN sessions : sessions'[t].meta.walletDeploy \in {NoDeploy} \cup DOMAIN deployments
    BY <1>6, <1>8, <1>11 DEF IInv, DeploymentInv
  <2>3. \A n, impl : n.walletDeploy \in {NoDeploy} \cup DOMAIN deployments =>
            (hasDeployInProgress(n, impl)' <=> hasDeployInProgress(n, impl))
    BY <1>16 DEF hasDeployInProgress
  <2>4. ASSUME NEW x \in Requests, requests'[x].st \in Open
        PROVE  hasDeployInProgress(requests[x].meta, requests[x].impl)'
                    <=> hasDeployInProgress(requests[x].meta, requests[x].impl)
    <3>1. requests[x].meta.walletDeploy \in {NoDeploy} \cup DOMAIN deployments /\ requests'[x] = requests[x]
      BY <2>1, <2>4 DEF IInv, DeploymentInv
    <3> QED
      BY <2>3, <3>1
  <2> QED
    BY <1>8, <1>14, <1>16, <2>1, <2>2, <2>4 DEF IInv, DeploymentInv
<1>18. WalletInv'
  <2>1. Recorded(s)' = Recorded(s) \cup {h} /\ \A t : t # s => Recorded(t)' = Recorded(t)
    <3>1. \A t : Recorded(t)' = {x \in DOMAIN deployments :
                                    deployments'[x].recorded /\ deployments[x].session = t}
      BY <1>14, <1>16 DEF Recorded
    <3>2. \A x \in DOMAIN deployments :
            deployments'[x].recorded <=> deployments[x].recorded \/ x = h
      BY <1>13, <1>14
    <3> QED
      BY <1>11, <3>1, <3>2 DEF Recorded
  <2>2. \A t : OpenRequests(t)' \subseteq OpenRequests(t) /\ r \notin OpenRequests(t)'
    BY <1>9, OpenFrame DEF IInv
  <2>3. \A t : \A x \in OpenRequests(t)' : x \in Requests /\ requests'[x] = requests[x] /\ x \in OpenRequests(t)
    BY <1>10, <2>2 DEF OpenRequests
  <2>4. Orderly' = Orderly /\ Orderly \subseteq DOMAIN sessions
    BY <1>1, <1>8 DEF Orderly
  <2>5. r \in OpenRequests(s)
    BY <1>0, <1>1 DEF OpenRequests, Open
  <2>6. s \in Orderly => OpenRequests(s)' = {} /\ \A d \in Recorded(s) : d =< h
    <3>1. s \in Orderly => OpenRequests(s) = {r}
      BY <2>5 DEF IInv, CopyInv
    <3>2. s \in Orderly => \A d \in Recorded(s) : d =< h
      BY <1>0, <1>1, <2>5 DEF IInv, WalletInv
    <3> QED
      BY <2>2, <3>1, <3>2
  <2>7. h \in Nat
    BY <1>5, SessionAssumption DEF SessionAssumption
  <2> SUFFICES ASSUME NEW t \in Orderly
               PROVE  /\ sessions'[t].meta.walletDeploy # NoDeploy => sessions'[t].meta.walletDeploy \in Recorded(t)'
                      /\ \A d \in Recorded(t)' : d =< sessions'[t].meta.walletDeploy
                      /\ \A x \in OpenRequests(t)', d \in Recorded(t)' :
                            requests'[x].kind = "deployWallet" /\ requests'[x].st = "record" => d =< requests'[x].hash
    BY <2>4 DEF WalletInv
  <2>8. CASE t = s
    <3>1. sessions'[t].meta.walletDeploy = h /\ h \in Recorded(t)' /\ OpenRequests(t)' = {}
      BY <1>6, <1>8, <2>1, <2>6, <2>8
    <3>2. \A d \in Recorded(t)' : d =< h
      BY <2>1, <2>6, <2>7, <2>8
    <3> QED
      BY <3>1, <3>2
  <2>9. CASE t # s
    BY <1>8, <2>1, <2>3, <2>4, <2>9 DEF IInv, WalletInv
  <2> QED
    BY <2>8, <2>9
<1>19. s = requests[r].session /\ UNCHANGED <<served, lost, overlapped, careless>>
  BY <1>0, <1>1
<1> QED
  BY <1>1, <1>3, <1>6, <1>7, <1>14, <1>15, <1>17, <1>18, <1>19, WriteStep

-----------------------------------------------------------------------------
(* The chain and the clock *)

\* A deployment settles or gets late: neither changes whose it is, and one that
\* is not in progress does not come back.
LEMMA ChainStep ==
    ASSUME IInv, NEW d \in DOMAIN deployments, NEW e \in DeploymentRecords,
           deployments' = [deployments EXCEPT ![d] = e],
           e.session = deployments[d].session, e.impl = deployments[d].impl,
           e.recorded = deployments[d].recorded, deployments[d].late => e.late,
           UNCHANGED <<sessions, requests, served, lost, overlapped, careless>>
    PROVE  IInv'
<1>1. /\ deployments' \in Seq(DeploymentRecords) /\ Len(deployments') = Len(deployments)
      /\ DOMAIN deployments' = DOMAIN deployments /\ deployments'[d] = e
      /\ \A x \in DOMAIN deployments : x # d => deployments'[x] = deployments[x]
  BY DeploymentBecomes DEF IInv
<1>2. \A x \in DOMAIN deployments :
        /\ deployments'[x].session = deployments[x].session /\ deployments'[x].impl = deployments[x].impl
        /\ deployments'[x].recorded = deployments[x].recorded /\ (deployments[x].late => deployments'[x].late)
  BY <1>1
<1>3. \A t : OpenRequests(t)' = OpenRequests(t) /\ Recorded(t)' = Recorded(t)
  BY <1>1, <1>2 DEF OpenRequests, Recorded
<1>4. Orderly' = Orderly
  BY DEF Orderly
<1>5. TypeOK'
  BY <1>1 DEF IInv, TypeOK, DeploymentRecords
<1>6. (\A r \in Requests : RequestInv(requests[r])') /\ ChargeInv'
  BY DEF IInv, RequestInv, ChargeInv, NeverOvercharged, Pending
<1>7. CopyInv'
  BY <1>3, <1>4 DEF IInv, CopyInv
<1>8. LedgerInv'
  BY <1>3, <1>4 DEF IInv, LedgerInv, Pending
<1>9. GuardInv'
  BY <1>4 DEF IInv, GuardInv, QuotaGuard
<1>10. AccountInv'
  BY <1>4 DEF IInv, AccountInv, Creating, hasQuota
<1>11. DeploymentInv'
  <2>1. \A m, impl : m.walletDeploy \in {NoDeploy} \cup DOMAIN deployments =>
            (hasDeployInProgress(m, impl)' => hasDeployInProgress(m, impl))
    BY <1>2 DEF hasDeployInProgress
  <2>2. ASSUME NEW x \in Requests, requests[x].st \in Open
        PROVE  hasDeployInProgress(requests[x].meta, requests[x].impl)'
                    => hasDeployInProgress(requests[x].meta, requests[x].impl)
    BY <2>1, <2>2 DEF IInv, DeploymentInv
  <2> QED
    BY <1>1, <1>2, <2>2 DEF IInv, DeploymentInv
<1>12. WalletInv'
  BY <1>3, <1>4 DEF IInv, WalletInv
<1> QED
  BY <1>5, <1>6, <1>7, <1>8, <1>9, <1>10, <1>11, <1>12 DEF IInv

LEMMA DeploySettlesStep == ASSUME IInv, DeploySettles PROVE IInv'
<1>1. PICK d \in DOMAIN deployments, st \in {"deployed", "reverted", "replaced"} :
        deployments' = [deployments EXCEPT ![d].st = st]
  BY DEF DeploySettles
<1>2. PICK e : e = [deployments[d] EXCEPT !.st = st]
  OBVIOUS
<1>3. deployments[d] \in DeploymentRecords
  BY DeploymentsAre DEF IInv
<1>4. e \in DeploymentRecords /\ e.session = deployments[d].session /\ e.impl = deployments[d].impl
      /\ e.recorded = deployments[d].recorded /\ (deployments[d].late => e.late)
  BY <1>2, <1>3 DEF DeploymentRecords
<1>5. deployments' = [deployments EXCEPT ![d] = e]
      /\ UNCHANGED <<sessions, requests, served, lost, overlapped, careless>>
  BY <1>1, <1>2 DEF DeploySettles
<1> QED
  BY <1>4, <1>5, ChainStep

LEMMA DeadlinePassesStep == ASSUME IInv, DeadlinePasses PROVE IInv'
<1>1. PICK d \in DOMAIN deployments : deployments' = [deployments EXCEPT ![d].late = TRUE]
  BY DEF DeadlinePasses
<1>2. PICK e : e = [deployments[d] EXCEPT !.late = TRUE]
  OBVIOUS
<1>3. deployments[d] \in DeploymentRecords
  BY DeploymentsAre DEF IInv
<1>4. e \in DeploymentRecords /\ e.session = deployments[d].session /\ e.impl = deployments[d].impl
      /\ e.recorded = deployments[d].recorded /\ e.late
  BY <1>2, <1>3 DEF DeploymentRecords
<1>5. deployments' = [deployments EXCEPT ![d] = e]
      /\ UNCHANGED <<sessions, requests, served, lost, overlapped, careless>>
  BY <1>1, <1>2 DEF DeadlinePasses
<1> QED
  BY <1>4, <1>5, ChainStep

-----------------------------------------------------------------------------
(* The invariant *)

LEMMA StutterIInv == ASSUME IInv, UNCHANGED vars PROVE IInv'
<1> USE DEF vars
<1>1. \A t : OpenRequests(t)' = OpenRequests(t) /\ Recorded(t)' = Recorded(t)
  BY DEF OpenRequests, Recorded
<1>2. TypeOK' /\ (\A r \in Requests : RequestInv(requests[r])') /\ ChargeInv'
  BY DEF IInv, TypeOK, RequestInv, ChargeInv, NeverOvercharged, Pending
<1>3. CopyInv' /\ LedgerInv'
  BY <1>1 DEF IInv, CopyInv, LedgerInv, Orderly, Pending
<1>4. GuardInv' /\ AccountInv'
  BY DEF IInv, GuardInv, QuotaGuard, AccountInv, Creating, hasQuota, Orderly
<1>5. DeploymentInv' /\ WalletInv'
  BY <1>1 DEF IInv, DeploymentInv, WalletInv, hasDeployInProgress, Orderly
<1> QED
  BY <1>2, <1>3, <1>4, <1>5 DEF IInv

LEMMA HandlerIInv == ASSUME IInv, NEW r \in Requests, Handler(r) PROVE IInv'
BY StartSessionStep, CreateSessionStep, TrackedRequestStep, DeployWalletStep, LookUpWalletStep,
   StartDeployStep, RelayedStep, RelayTimesOutStep, LateExecutionStep, incrementUsageStep,
   RecordDeployStep, NotRecordedStep, RejectedStep DEF Handler

LEMMA NextIInv == IInv /\ [Next]_vars => IInv'
BY StutterIInv, HandlerIInv, DeploySettlesStep, DeadlinePassesStep DEF Next

LEMMA SpecIInv == Spec => []IInv
BY InitIInv, NextIInv, PTL DEF Spec

-----------------------------------------------------------------------------
(* The properties *)

\* Every variable has its type, whichever requests come and however they end.
THEOREM TypeCorrect == Spec => []TypeOK
<1>1. IInv => TypeOK
  BY DEF IInv
<1> QED
  BY <1>1, SpecIInv, PTL

\* No session is charged for more than the relayer executed for it: the copy of
\* the row a handler writes back is never ahead of the relayer, in whichever
\* order parallel handlers write.  (incrementUsage, deployWallet)
THEOREM ChargedWhatWasServed == Spec => []NeverOvercharged
<1>1. IInv => NeverOvercharged
  BY DEF IInv, ChargeInv
<1> QED
  BY <1>1, SpecIInv, PTL

\* A client that makes one request at a time gets no more out of a session than
\* its quota and one last request, for every quota.  (QuotaGuard, incrementUsage)
THEOREM QuotaHolds == Spec => []QuotaIsEnforced
<1>1. ASSUME IInv PROVE QuotaIsEnforced
  <2> SUFFICES ASSUME NEW s \in Orderly, NEW a \in TrackedAction
               PROVE  served[s][a] - lost[s][a] =< Quota[a] - 1 + MaxOf(a)
    BY RequestedBound DEF QuotaIsEnforced, Orderly
  <2>1. /\ OpenRequests(s) = {} => served[s][a] = lost[s][a] + sessions[s].meta.callCount[a]
        /\ \A r \in OpenRequests(s) :
            served[s][a] = lost[s][a] + sessions[s].meta.callCount[a] + Pending(requests[r], a)
    BY <1>1 DEF IInv, LedgerInv
  <2>2. sessions[s].meta.callCount[a] =< Quota[a] - 1 + MaxOf(a)
    BY <1>1 DEF IInv, GuardInv
  <2>3. sessions[s] \in Rows /\ s \in SessionIds
    BY <1>1, RowsAre DEF IInv, Orderly
  <2>4. sessions[s].meta.callCount[a] \in Nat /\ lost[s][a] \in Nat /\ served[s][a] \in Nat
        /\ Quota[a] \in Nat /\ MaxOf(a) \in Nat
    BY <1>1, <2>3, SessionAssumption DEF IInv, TypeOK, Rows, Metas, SessionAssumption, MaxOf
  <2>5. CASE OpenRequests(s) = {}
    BY <2>1, <2>2, <2>4, <2>5
  <2>6. ASSUME NEW r \in OpenRequests(s)
        PROVE  served[s][a] - lost[s][a] =< Quota[a] - 1 + MaxOf(a)
    <3>1. served[s][a] = lost[s][a] + sessions[s].meta.callCount[a] + Pending(requests[r], a)
      BY <2>1
    <3>2. r \in Requests /\ requests[r].st \in Open /\ RequestInv(requests[r])
          /\ requests[r] \in RequestRecords
      BY <1>1, RequestsAre DEF OpenRequests, IInv
    <3>3. CASE requests[r].st = "record" /\ requests[r].kind = a
      <4>1. Pending(requests[r], a) \in Nat /\ Pending(requests[r], a) =< MaxOf(a)
        BY <3>2, <3>3, RequestedBound DEF Pending, RequestInv
      <4>2. sessions[s].meta.callCount[a] < Quota[a]
        <5>1. requests[r].meta = sessions[s].meta
          BY <1>1 DEF IInv, CopyInv
        <5>2. QuotaGuard(requests[r].meta, a)
          BY <1>1, <3>2, <3>3 DEF IInv, GuardInv
        <5> QED
          BY <5>1, <5>2 DEF QuotaGuard
      <4> QED
        BY <2>4, <3>1, <4>1, <4>2
    <3>4. CASE ~ (requests[r].st = "record" /\ requests[r].kind = a)
      <4>1. Pending(requests[r], a) = 0
        BY <3>4 DEF Pending
      <4> QED
        BY <2>2, <2>4, <3>1, <4>1
    <3> QED
      BY <3>3, <3>4
  <2> QED
    BY <2>5, <2>6
<1> QED
  BY <1>1, SpecIInv, PTL

\* An account whose client makes one request at a time and spells its address
\* without capitals has one session at most that it can still use for every
\* action.  (findOrCreateForAccount)
THEOREM OneUsableSession == Spec => []OneSessionWithQuota
<1>1. ASSUME IInv PROVE OneSessionWithQuota
  <2> SUFFICES ASSUME NEW s \in Orderly, NEW t \in Orderly,
                      sessions[s].account = sessions[t].account, sessions[s].account \notin careless,
                      hasQuota(sessions[s].meta), hasQuota(sessions[t].meta)
               PROVE  s = t
    BY DEF OneSessionWithQuota, Orderly
  <2>1. sessions[s] \in Rows /\ s \in Nat /\ t \in Nat /\ t \in DOMAIN sessions /\ s \in DOMAIN sessions
    BY <1>1, RowsAre DEF IInv, Orderly
  <2>2. sessions[s].account \in Accounts \ careless
    BY <2>1 DEF Rows
  <2>3. ~ (s < t) /\ ~ (t < s)
    BY <1>1, <2>1, <2>2 DEF IInv, AccountInv
  <2> QED
    BY <2>1, <2>3
<1> QED
  BY <1>1, SpecIInv, PTL

\* checkSession reports the wallet a client was told about last, once it is
\* deployed and until its deadline: no write of meta loses the deployment, for a
\* client that makes one request at a time.  (checkSession, getWallet)
THEOREM WalletReported == Spec => []WalletIsReported
<1>1. ASSUME IInv PROVE WalletIsReported
  <2> SUFFICES ASSUME NEW d \in DOMAIN deployments, deployments[d].recorded,
                      deployments[d].st = "deployed", ~deployments[d].late,
                      deployments[d].session \notin overlapped,
                      \A e \in DOMAIN deployments :
                        deployments[e].recorded /\ deployments[e].session = deployments[d].session => e =< d
               PROVE  checkSession(deployments[d].session)
    BY DEF WalletIsReported, LastTold
  <2> DEFINE s == deployments[d].session
             w == sessions[s].meta.walletDeploy
  <2>1. s \in Orderly
    BY <1>1 DEF IInv, DeploymentInv, Orderly
  <2>2. d \in Recorded(s) /\ d \in Nat /\ d # NoDeploy
    BY <1>1, DeploymentsAre DEF Recorded, IInv, NoDeploy
  <2>3. d =< w /\ (w # NoDeploy => w \in Recorded(s))
    BY <1>1, <2>1, <2>2 DEF IInv, WalletInv
  <2>4. w \in Nat
    BY <1>1, <2>1, RowsAre, SessionAssumption DEF IInv, Orderly, Rows, Metas, SessionAssumption
  <2>5. w # NoDeploy
    BY <1>1, <2>2, <2>3, <2>4, DeploymentsAre DEF IInv, NoDeploy
  <2>6. w =< d
    BY <2>3, <2>5 DEF Recorded
  <2>7. w = d
    BY <2>2, <2>3, <2>4, <2>6
  <2> QED
    BY <2>5, <2>7 DEF checkSession, getWallet, hasDeployInProgress
<1> QED
  BY <1>1, SpecIInv, PTL

\* A deployment that is not sent late is sent for a request that found none in
\* progress.
LEMMA SentByRequest ==
    ASSUME IInv, Next, ~ForAbandoned, Len(deployments') = Len(deployments) + 1
    PROVE  \E r \in Requests : requests[r].st = "relay" /\ requests[r].kind = "deployWallet"
                               /\ Executed(requests[r])
<1>1. Len(deployments) \in Nat
  BY DeploymentsAre DEF IInv
<1>2. deployments' # deployments
  BY <1>1
<1>3. ~DeploySettles
  <2> SUFFICES ASSUME DeploySettles PROVE FALSE
    OBVIOUS
  <2>1. PICK d \in DOMAIN deployments, st \in {"deployed", "reverted", "replaced"} :
            deployments' = [deployments EXCEPT ![d].st = st]
    BY DEF DeploySettles
  <2>2. PICK e : e = [deployments[d] EXCEPT !.st = st]
    OBVIOUS
  <2>3. e \in DeploymentRecords /\ deployments' = [deployments EXCEPT ![d] = e] /\ TypeOK
    BY <2>1, <2>2, DeploymentsAre DEF IInv, DeploymentRecords
  <2>4. Len(deployments') = Len(deployments)
    BY ONLY <2>3, d \in DOMAIN deployments, DeploymentBecomes
  <2> QED
    BY <1>1, <2>4
<1>4. ~DeadlinePasses
  <2> SUFFICES ASSUME DeadlinePasses PROVE FALSE
    OBVIOUS
  <2>1. PICK d \in DOMAIN deployments : deployments' = [deployments EXCEPT ![d].late = TRUE]
    BY DEF DeadlinePasses
  <2>2. PICK e : e = [deployments[d] EXCEPT !.late = TRUE]
    OBVIOUS
  <2>3. e \in DeploymentRecords /\ deployments' = [deployments EXCEPT ![d] = e] /\ TypeOK
    BY <2>1, <2>2, DeploymentsAre DEF IInv, DeploymentRecords
  <2>4. Len(deployments') = Len(deployments)
    BY ONLY <2>3, d \in DOMAIN deployments, DeploymentBecomes
  <2> QED
    BY <1>1, <2>4
<1>5. PICK r \in Requests : Handler(r)
  BY <1>3, <1>4 DEF Next
<1>6. ~RecordDeploy(r)
  <2> SUFFICES ASSUME RecordDeploy(r) PROVE FALSE
    OBVIOUS
  <2>1. PICK h : h = requests[r].hash
    OBVIOUS
  <2>2. PICK e : e = [deployments[h] EXCEPT !.recorded = TRUE]
    OBVIOUS
  <2>3. h \in DOMAIN deployments /\ deployments' = [deployments EXCEPT ![h] = e] /\ TypeOK
    BY <2>1, <2>2 DEF RecordDeploy, IInv, DeploymentInv, Open
  <2>4. e \in DeploymentRecords
    BY <2>2, <2>3, DeploymentsAre DEF IInv, DeploymentRecords
  <2>5. Len(deployments') = Len(deployments)
    BY ONLY <2>3, <2>4, DeploymentBecomes
  <2> QED
    BY <1>1, <2>5
<1>0. ~LateExecution(r)
  <2> SUFFICES ASSUME LateExecution(r) PROVE FALSE
    OBVIOUS
  <2>1. requests[r].st = "abandoned" /\ requests' = [requests EXCEPT ![r] = Done]
    BY DEF LateExecution, Answer
  <2>2. requests'[r].st = "done"
    BY <2>1, DoneIsRecord, RequestBecomes DEF IInv
  <2> QED
    BY <2>1, <2>2 DEF ForAbandoned
<1>7. Relayed(r)
  BY <1>0, <1>2, <1>5, <1>6 DEF Handler, StartSession, CreateSession, TrackedRequest, DeployWallet,
     Authenticated, LookUpWallet, StartDeploy, RelayTimesOut, incrementUsage, NotRecorded, Rejected
<1>8. requests[r].st = "relay" /\ Executed(requests[r])
  BY <1>7 DEF Relayed
<1>9. requests[r].kind = "deployWallet"
  BY <1>2, <1>8 DEF Executed
<1> QED
  BY <1>8, <1>9

\* No second deployment of a wallet is sent before the deadline of the last one
\* the client was told about, if it makes one request at a time: the copy of the
\* row its request works on names that deployment, and hasDeployInProgress was
\* asked of it.  Only what the relayer executes for a request that has timed out
\* escapes it.  (WalletService.deployWallet, RelayerProxyService.execute)
THEOREM DeploysOneAtATime == Spec => OneDeployAtATime
<1> DEFINE A == \A d \in DOMAIN deployments :
        LET next == Len(deployments) + 1 IN
        /\ Len(deployments') = next /\ ~ForAbandoned
        /\ deployments[d].session = deployments'[next].session
        /\ deployments[d].impl = deployments'[next].impl
        /\ LastTold(d) /\ deployments[d].session \notin overlapped
        => deployments[d].late
<1>1. ASSUME IInv, [Next]_vars PROVE [A]_vars
  <2> SUFFICES ASSUME Next, NEW d \in DOMAIN deployments, Len(deployments') = Len(deployments) + 1,
                      ~ForAbandoned,
                      deployments[d].session = deployments'[Len(deployments')].session,
                      deployments[d].impl = deployments'[Len(deployments')].impl,
                      LastTold(d), deployments[d].session \notin overlapped
               PROVE  deployments[d].late
    BY <1>1
  <2>1. PICK r \in Requests : requests[r].st = "relay" /\ requests[r].kind = "deployWallet"
                              /\ Executed(requests[r])
    BY <1>1, SentByRequest
  <2> DEFINE s == requests[r].session
             w == sessions[s].meta.walletDeploy
  <2>2. deployments[d].session = s /\ deployments[d].impl = requests[r].impl
        /\ s \in Orderly /\ r \in OpenRequests(s)
    BY <1>1, <2>1, DeploymentIsAppended DEF Orderly
  <2>3. requests[r].meta = sessions[s].meta
    BY <1>1, <2>2 DEF IInv, CopyInv
  <2>4. d \in Recorded(s) /\ d \in Nat /\ 1 =< d
    BY <1>1, <2>2, DeploymentsAre DEF Recorded, IInv, LastTold
  <2>5. d =< w /\ (w # NoDeploy => w \in Recorded(s))
    BY <1>1, <2>2, <2>4 DEF IInv, WalletInv
  <2>6. w \in Nat
    BY <1>1, <2>2, RowsAre, SessionAssumption DEF IInv, Orderly, Rows, Metas, SessionAssumption
  <2>7. w # NoDeploy
    BY <2>4, <2>5, <2>6 DEF NoDeploy
  <2>8. w =< d
    BY <2>2, <2>5, <2>7 DEF Recorded, LastTold
  <2>9. w = d
    BY <2>4, <2>5, <2>6, <2>8
  <2>10. ~hasDeployInProgress(requests[r].meta, requests[r].impl)
    BY <1>1, <2>1 DEF IInv, DeploymentInv, Open
  <2> QED
    BY <2>2, <2>3, <2>7, <2>9, <2>10 DEF hasDeployInProgress
<1> QED
  BY <1>1, SpecIInv, PTL DEF Spec, OneDeployAtATime
===============================================================================
