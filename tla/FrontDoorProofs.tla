---------------------------- MODULE FrontDoorProofs ----------------------------
(***************************************************************************)
(* Proofs about FrontDoor, for any requests, limit, ttl, rules, quota and  *)
(* number of tries.                                                        *)
(*                                                                         *)
(* The throttler: the records are what is left of the admissions, in their *)
(* order, and every admission without a record is over.  The gateway: what *)
(* a request has been found to satisfy stays so, and a captcha token is    *)
(* spent by the request that passes with it.  The relayer's query: a call  *)
(* that nobody has disturbed finds the quota its transfer has added.       *)
(* The parser: the offset of the second call of a batch is where the       *)
(* contract finds what is left of the data, and the part from there on     *)
(* begins with the same method, however far it goes.                       *)
(***************************************************************************)
EXTENDS FrontDoor, NaturalsLemmas, SequenceTheorems, FiniteSetTheorems, TLAPS

RequestsType ==
    [st : {"new", "add", "rules", "relayer", "session", "200", "400", "401", "429", "500"},
     pending : SUBSET Rules, ok : BOOLEAN]
QueriesType ==
    [st : {"idle", "query", "replenish", "done"}, tries : 0 .. Tries, late : 0 .. Tries,
     result : OdisQueryErrorTypes \cup {"none", "signature", "Exception"}]

\* The records are the last admissions; the admissions before are over.
RecordsInv ==
    /\ records \in Seq(Nat) /\ admitted \in Seq(Nat) /\ Len(records) =< Len(admitted)
    /\ \A k \in 1 .. Len(records) :
        records[k] = admitted[(Len(admitted) - Len(records)) + k] + Ttl
    /\ \A k \in 1 .. (Len(admitted) - Len(records)) : admitted[k] + Ttl =< now
    /\ \A j, k \in 1 .. Len(records) : j =< k => records[j] =< records[k]

\* Whoever is about to add a record has found room for it, and the records
\* that are about to be added are more than one only in a race.
Adds(r) == requests[r].st = "add"

LimitInv ==
    /\ \A r \in DOMAIN load : Adds(r) => load[r].endpoint = "startSession"
    /\ promised => Len(records) < Limit
    /\ Cardinality(Adding) =< peak
    /\ Len(records) + Cardinality(Adding) < Limit + peak

\* The request has passed the rule.
Passed(r, rule) ==
    /\ rule \in enabled
    /\ \/ requests[r].st = "session"
       \/ requests[r].st = "rules" /\ requests[r].ok /\ rule \notin requests[r].pending

RulesInv ==
    \A r \in DOMAIN load :
        /\ Passed(r, "SIGNATURE") => load[r].signed
        /\ Passed(r, "DEVICE_ATTESTATION") => load[r].device # "none"
        /\ Passed(r, "CAPTCHA") /\ load[r].token # BypassToken =>
            /\ load[r].token \in spent
            /\ \A q \in DOMAIN load \ {r} : Passed(q, "CAPTCHA") => load[q].token # load[r].token

\* A call that was not disturbed and has made its transfer has quota.
Calm(r, q) ==
    r \notin disturbed =>
        /\ q.st = "query" /\ q.tries > 1 => quota > 0
        /\ q.st = "replenish" => q.tries = 1

QueryInv(r, q) ==
    /\ q.st = "idle" => q.late = 0 /\ q.result = "none"
    /\ q.st \in {"query", "replenish"} => q.tries >= 1 /\ q.late < q.tries /\ q.result = "none"
    /\ q.result = "OutOfQuota" => r \in disturbed

OdisInv == \A r \in DOMAIN load : QueryInv(r, queries[r]) /\ Calm(r, queries[r])

\* The inductive invariant.
IInv == TypeOK /\ RecordsInv /\ LimitInv /\ RulesInv /\ OdisInv

-----------------------------------------------------------------------------
(* One request changes *)

\* The type of the state, in terms of the sets above.
LEMMA TypeParts ==
    TypeOK <=>
        /\ load \in Loads /\ enabled \in EnabledFor(load)
        /\ requests \in [DOMAIN load -> RequestsType]
        /\ now \in 0 .. MaxTime
        /\ \A k \in DOMAIN records : records[k] \in (now + 1) .. (now + Ttl)
        /\ spent \subseteq {load[r].token : r \in DOMAIN load}
        /\ promised \in BOOLEAN /\ peak \in Nat
        /\ quota \in Nat /\ disturbed \subseteq DOMAIN load
        /\ queries \in [DOMAIN load -> QueriesType]
  BY Zenon DEF TypeOK, RequestsType, QueriesType

LEMMA TypePartsNext ==
    TypeOK' <=>
        /\ load' \in Loads /\ enabled' \in EnabledFor(load')
        /\ requests' \in [DOMAIN load' -> RequestsType]
        /\ now' \in 0 .. MaxTime
        /\ \A k \in DOMAIN records' : records'[k] \in (now' + 1) .. (now' + Ttl)
        /\ spent' \subseteq {load'[r].token : r \in DOMAIN load'}
        /\ promised' \in BOOLEAN /\ peak' \in Nat
        /\ quota' \in Nat /\ disturbed' \subseteq DOMAIN load'
        /\ queries' \in [DOMAIN load' -> QueriesType]
  BY Zenon DEF TypeOK, RequestsType, QueriesType

\* The request of r becomes q, and no other one changes.
LEMMA RequestBecomes ==
    ASSUME TypeOK, NEW r \in DOMAIN load, NEW q \in RequestsType,
           requests' = [requests EXCEPT ![r] = q]
    PROVE  /\ requests' \in [DOMAIN load -> RequestsType]
           /\ requests'[r] = q
           /\ \A x \in DOMAIN load : x # r => requests'[x] = requests[x]
<1>1. requests \in [DOMAIN load -> RequestsType]
  BY TypeParts
<1> HIDE DEF RequestsType
<1> QED
  BY <1>1

\* A request that is at a new place has no rules to pass.
LEMMA NewAt ==
    ASSUME NEW st \in {"new", "add", "rules", "relayer", "session", "200", "400", "401", "429", "500"}
    PROVE  /\ [New EXCEPT !.st = st] \in RequestsType
           /\ [New EXCEPT !.st = st].st = st
           /\ [New EXCEPT !.st = st].pending = {}
  BY DEF New, RequestsType

\* A step that changes nothing the records depend on.
LEMMA RecordsFrame ==
    ASSUME RecordsInv, UNCHANGED <<records, admitted, now>>
    PROVE  RecordsInv'
  BY Zenon DEF RecordsInv

\* The requests between reading and adding a record can be counted.
LEMMA AddingFinite ==
    ASSUME TypeOK
    PROVE  IsFiniteSet(Adding) /\ Cardinality(Adding) \in Nat
<1>1. IsFiniteSet(DOMAIN load) /\ Adding \subseteq DOMAIN load
  BY FrontAssumption DEF TypeOK, Adding
<1> QED
  BY <1>1, FS_Subset, FS_CardinalityType

\* Their number when some have gone, when one has, and when one has come.
LEMMA AddingShrinks ==
    ASSUME TypeOK, UNCHANGED load, \A x \in DOMAIN load : Adds(x)' => Adds(x)
    PROVE  Cardinality(Adding') \in Nat /\ Cardinality(Adding') =< Cardinality(Adding)
<1>1. Adding' \subseteq Adding
  BY DEF Adding, Adds
<1> QED
  BY <1>1, AddingFinite, FS_Subset, FS_CardinalityType

LEMMA AddingLoses ==
    ASSUME TypeOK, UNCHANGED load, NEW r \in DOMAIN load, Adds(r), ~Adds(r)',
           \A x \in DOMAIN load : x # r => requests'[x] = requests[x]
    PROVE  Cardinality(Adding') = Cardinality(Adding) - 1
<1>1. Adding' = Adding \ {r} /\ r \in Adding
  BY DEF Adding, Adds
<1> QED
  BY <1>1, AddingFinite, FS_RemoveElement

LEMMA AddingGains ==
    ASSUME TypeOK, UNCHANGED load, NEW r \in DOMAIN load, Adds(r)',
           \A x \in DOMAIN load : x # r => requests'[x] = requests[x]
    PROVE  Cardinality(Adding') \in Nat
<1>1. Adding' = Adding \cup {r}
  BY DEF Adding, Adds
<1>2. IsFiniteSet(Adding')
  BY <1>1, AddingFinite, FS_AddElement
<1> QED
  BY <1>2, FS_CardinalityType

\* A step that adds no record and lets nobody read them.
LEMMA LimitFrame ==
    ASSUME TypeOK, RecordsInv, LimitInv, UNCHANGED <<load, promised, peak>>,
           Len(records') \in Nat, Len(records') =< Len(records),
           \A x \in DOMAIN load : Adds(x)' => Adds(x)
    PROVE  LimitInv'
<1>1. /\ Cardinality(Adding) \in Nat /\ Cardinality(Adding') \in Nat
      /\ Cardinality(Adding') =< Cardinality(Adding)
  BY AddingFinite, AddingShrinks
<1>2. Limit \in Nat /\ peak \in Nat /\ Len(records) \in Nat
  BY FrontAssumption DEF TypeOK, RecordsInv
<1> PICK a, b, n, m : a = Cardinality(Adding) /\ b = Cardinality(Adding')
                      /\ n = Len(records) /\ m = Len(records')
  OBVIOUS
<1>3. a =< peak /\ n + a < Limit + peak /\ (promised => n < Limit)
  BY DEF LimitInv
<1>4. b =< peak /\ m + b < Limit + peak /\ (promised => m < Limit)
  BY <1>1, <1>2, <1>3
<1>5. \A x \in DOMAIN load' : Adds(x)' => load'[x].endpoint = "startSession"
  BY DEF LimitInv
<1> QED
  BY <1>4, <1>5 DEF LimitInv

\* A step that the throttler does not see.
LEMMA LimitQuiet ==
    ASSUME LimitInv, UNCHANGED <<load, records, requests, promised, peak>>
    PROVE  LimitInv'
  BY Zenon DEF LimitInv, Adds, Adding

\* A step of a request.
LEMMA LimitStep ==
    ASSUME TypeOK, RecordsInv, LimitInv, UNCHANGED <<load, records, promised, peak>>,
           NEW r \in DOMAIN load,
           \A x \in DOMAIN load : x # r => requests'[x] = requests[x],
           requests'[r].st # "add"
    PROVE  LimitInv'
<1>1. \A x \in DOMAIN load : Adds(x)' => Adds(x)
  BY DEF Adds
<1>2. Len(records') \in Nat /\ Len(records') =< Len(records)
  BY DEF RecordsInv
<1> QED
  BY <1>1, <1>2, LimitFrame

\* A step of the API leaves the queries to the relayer.
LEMMA OdisFrame ==
    ASSUME OdisInv, UNCHANGED <<load, odisVars>>
    PROVE  OdisInv'
  BY Zenon DEF OdisInv, QueryInv, Calm, odisVars

\* What one request is found to satisfy, and what the rules keep of it.
LEMMA RulesStep ==
    ASSUME RulesInv, UNCHANGED <<load, enabled>>, spent \subseteq spent', NEW r \in DOMAIN load,
           \A x \in DOMAIN load : x # r => requests'[x] = requests[x],
           Passed(r, "SIGNATURE")' => Passed(r, "SIGNATURE") \/ load[r].signed,
           Passed(r, "DEVICE_ATTESTATION")' =>
                Passed(r, "DEVICE_ATTESTATION") \/ load[r].device # "none",
           Passed(r, "CAPTCHA")' =>
                \/ Passed(r, "CAPTCHA") \/ load[r].token = BypassToken
                \/ load[r].token \notin spent /\ load[r].token \in spent'
    PROVE  RulesInv'
<1>1. \A x \in DOMAIN load, rule \in Rules : x # r /\ Passed(x, rule)' => Passed(x, rule)
  BY Zenon DEF Passed
<1>2. ASSUME NEW x \in DOMAIN load
      PROVE  /\ Passed(x, "SIGNATURE")' => load[x].signed
             /\ Passed(x, "DEVICE_ATTESTATION")' => load[x].device # "none"
  <2>1. /\ Passed(x, "SIGNATURE") => load[x].signed
        /\ Passed(x, "DEVICE_ATTESTATION") => load[x].device # "none"
    BY Zenon DEF RulesInv
  <2>2. "SIGNATURE" \in Rules /\ "DEVICE_ATTESTATION" \in Rules
    BY Zenon DEF Rules
  <2> QED
    BY <1>1, <2>1, <2>2, Zenon
<1>3. ASSUME NEW x \in DOMAIN load, Passed(x, "CAPTCHA")', load[x].token # BypassToken
      PROVE  /\ load[x].token \in spent'
             /\ \A q \in DOMAIN load \ {x} : Passed(q, "CAPTCHA")' => load[q].token # load[x].token
  <2>1. "CAPTCHA" \in Rules
    BY Zenon DEF Rules
  <2>2. \A y \in DOMAIN load : Passed(y, "CAPTCHA") /\ load[y].token # BypassToken =>
            /\ load[y].token \in spent
            /\ \A q \in DOMAIN load \ {y} : Passed(q, "CAPTCHA") => load[q].token # load[y].token
    BY Zenon DEF RulesInv
  <2>3. load[x].token \in spent'
    BY <1>1, <1>3, <2>1, <2>2, Zenon
  <2>4. ASSUME NEW q \in DOMAIN load \ {x}, Passed(q, "CAPTCHA")', load[q].token = load[x].token
        PROVE  FALSE
    <3>1. CASE Passed(x, "CAPTCHA") /\ Passed(q, "CAPTCHA")
      BY <1>3, <2>2, <2>4, <3>1, Zenon
    <3>2. CASE ~Passed(x, "CAPTCHA")
      <4>1. x = r /\ load[x].token \notin spent
        BY <1>1, <1>3, <2>1, <3>2, Zenon
      <4>2. Passed(q, "CAPTCHA") /\ load[q].token # BypassToken
        BY <1>1, <1>3, <2>1, <2>4, <4>1, Zenon
      <4> QED
        BY <2>2, <2>4, <4>1, <4>2, Zenon
    <3>3. CASE ~Passed(q, "CAPTCHA")
      <4>1. q = r /\ load[q].token \notin spent
        BY <1>1, <1>3, <2>1, <2>4, <3>3, Zenon
      <4>2. Passed(x, "CAPTCHA")
        BY <1>1, <1>3, <2>1, <2>4, <4>1, Zenon
      <4> QED
        BY <1>3, <2>2, <2>4, <4>1, <4>2, Zenon
    <3> QED
      BY <3>1, <3>2, <3>3, Zenon
  <2> QED
    BY <2>3, <2>4, Zenon
<1> QED
  BY <1>2, <1>3, Zenon DEF RulesInv

\* A request outside of the rules has passed none.
LEMMA RulesFrame ==
    ASSUME RulesInv, UNCHANGED <<load, enabled, spent>>, NEW r \in DOMAIN load,
           \A x \in DOMAIN load : x # r => requests'[x] = requests[x],
           requests'[r].st \notin {"rules", "session"}
    PROVE  RulesInv'
<1>1. \A rule : ~Passed(r, rule)'
  BY Zenon DEF Passed
<1> QED
  BY <1>1, RulesStep, Zenon

\* A request goes on to where no rule and no record counts for it.
LEMMA SetIInv ==
    ASSUME IInv, NEW r \in DOMAIN load, NEW q \in RequestsType,
           q.st \in {"new", "relayer", "200", "400", "401", "429", "500"},
           Set(r, q), UNCHANGED <<load, enabled, now, records, spent, admitted, promised, peak>>
    PROVE  /\ requests' \in [DOMAIN load -> RequestsType]
           /\ RecordsInv' /\ LimitInv' /\ RulesInv'
<1>1. TypeOK
  BY DEF IInv
<1>2. requests' = [requests EXCEPT ![r] = q]
  BY DEF Set
<1>3. /\ requests' \in [DOMAIN load -> RequestsType]
      /\ requests'[r] = q
      /\ \A x \in DOMAIN load : x # r => requests'[x] = requests[x]
  BY ONLY <1>1, <1>2, RequestBecomes, r \in DOMAIN load, q \in RequestsType
<1>4. requests'[r].st # "add" /\ requests'[r].st \notin {"rules", "session"}
  BY <1>3
<1> QED
  BY <1>3, <1>4, RecordsFrame, LimitStep, RulesFrame DEF IInv

\* A request is answered.
LEMMA LeavesIInv ==
    ASSUME IInv, NEW r \in DOMAIN load,
           NEW st \in {"new", "relayer", "200", "400", "401", "429", "500"},
           Answer(r, st), UNCHANGED <<load, enabled, now, records, spent, admitted, promised, peak>>
    PROVE  /\ requests' \in [DOMAIN load -> RequestsType]
           /\ RecordsInv' /\ LimitInv' /\ RulesInv'
<1>1. PICK q : q = [New EXCEPT !.st = st]
  OBVIOUS
<1>2. q \in RequestsType /\ q.st = st
  BY <1>1, NewAt
<1>3. Set(r, q)
  BY <1>1 DEF Answer, Set
<1> QED
  BY <1>2, <1>3, SetIInv

\* A step that changes the requests and what the captcha service has accepted.
LEMMA GateType ==
    ASSUME TypeOK, UNCHANGED <<gateVars, now, records, promised, peak>>,
           requests' \in [DOMAIN load -> RequestsType],
           spent' \subseteq {load[r].token : r \in DOMAIN load}
    PROVE  TypeOK'
<1>1. UNCHANGED <<load, enabled, now, records, promised, peak, quota, queries, disturbed>>
  BY Zenon DEF gateVars, odisVars
<1> QED
  BY <1>1, TypeParts, TypePartsNext, Zenon

\* A request is answered by a step that touches neither the throttler nor a rule.
LEMMA AnswerIInv ==
    ASSUME IInv, NEW r \in DOMAIN load,
           NEW st \in {"new", "relayer", "200", "400", "401", "429", "500"},
           Answer(r, st), UNCHANGED <<gateVars, now, records, spent, admitted, promised, peak>>
    PROVE  IInv'
<1>1. UNCHANGED <<load, enabled, now, records, spent, admitted, promised, peak>>
      /\ UNCHANGED <<load, odisVars>>
  BY Zenon DEF gateVars
<1>2. /\ requests' \in [DOMAIN load -> RequestsType]
      /\ RecordsInv' /\ LimitInv' /\ RulesInv'
  BY <1>1, LeavesIInv
<1>3. OdisInv'
  BY <1>1, OdisFrame DEF IInv
<1>4. TypeOK
  BY DEF IInv
<1>5. spent' \subseteq {load[x].token : x \in DOMAIN load}
  BY <1>1, <1>4, TypeParts, Zenon
<1>6. TypeOK'
  BY <1>2, <1>4, <1>5, GateType, Zenon
<1> QED
  BY <1>2, <1>3, <1>6 DEF IInv

-----------------------------------------------------------------------------
(* The throttler *)

LEMMA ReadRecordsIInv ==
    ASSUME IInv, NEW r \in DOMAIN load, ReadRecords(r)
    PROVE  IInv'
<1>1. /\ TypeOK /\ RecordsInv /\ LimitInv /\ RulesInv /\ OdisInv
      /\ Len(records) \in Nat /\ Limit \in Nat \ {0}
  BY FrontAssumption DEF IInv, RecordsInv
<1>2. /\ UNCHANGED <<load, odisVars>> /\ UNCHANGED <<records, admitted, now>>
      /\ UNCHANGED <<load, enabled, spent>> /\ UNCHANGED <<records, quota, queries, disturbed>>
  BY Zenon DEF ReadRecords, gateVars, odisVars
<1>3. /\ load[r].endpoint \in {"ready", "startSession"}
      /\ promised' = (promised \/ (load[r].endpoint = "ready" /\ ~Throttled(Len(records))))
      /\ peak' = IF Cardinality(Adding') > peak THEN Cardinality(Adding') ELSE peak
  BY Zenon DEF ReadRecords
<1>4. PICK st \in {"429", "200", "add"} :
        /\ requests' = [requests EXCEPT ![r] = [New EXCEPT !.st = st]]
        /\ st = "add" => load[r].endpoint = "startSession" /\ Len(records) < Limit
  BY <1>1 DEF ReadRecords, Throttled, checkOnly, Answer, Set
<1>5. PICK q : q = [New EXCEPT !.st = st]
  OBVIOUS
<1>6. q \in RequestsType /\ q.st = st
  BY <1>5, NewAt
<1>7. /\ requests' \in [DOMAIN load -> RequestsType]
      /\ requests'[r] = q
      /\ \A x \in DOMAIN load : x # r => requests'[x] = requests[x]
  BY <1>1, <1>4, <1>5, <1>6, RequestBecomes
<1>8. RecordsInv' /\ OdisInv'
  BY <1>1, <1>2, RecordsFrame, OdisFrame
<1>9. RulesInv'
  <2>1. requests'[r].st \notin {"rules", "session"}
    BY <1>6, <1>7
  <2> QED
    BY <1>1, <1>2, <1>7, <2>1, RulesFrame
<1>10. Cardinality(Adding') \in Nat /\ peak \in Nat
  <2>1. CASE Adds(r)'
    BY <1>1, <1>2, <1>7, <2>1, AddingGains, TypeParts
  <2>2. CASE ~Adds(r)'
    <3>1. \A x \in DOMAIN load : Adds(x)' => Adds(x)
      BY <1>7, <2>2 DEF Adds
    <3> QED
      BY <1>1, <1>2, <3>1, AddingShrinks, TypeParts
  <2> QED
    BY <2>1, <2>2
<1>11. TypeOK'
  <2>1. promised' \in BOOLEAN
    BY ONLY <1>3, Zenon
  <2>2. peak' \in Nat
    BY ONLY <1>3, <1>10
  <2> QED
    BY <1>1, <1>2, <1>7, <2>1, <2>2, TypeParts, TypePartsNext, Zenon
<1>12. LimitInv'
  <2>1. \A x \in DOMAIN load : Adds(x)' => Adds(x) \/ (x = r /\ st = "add")
    BY <1>6, <1>7 DEF Adds
  <2>2. \A x \in DOMAIN load' : Adds(x)' => load'[x].endpoint = "startSession"
    BY <1>1, <1>2, <1>4, <2>1 DEF LimitInv
  <2>3. promised' => Len(records') < Limit
    <3>1. promised' => promised \/ ~Throttled(Len(records))
      BY ONLY <1>3, Zenon
    <3>2. promised => Len(records) < Limit
      BY <1>1, Zenon DEF LimitInv
    <3>3. ~Throttled(Len(records)) => Len(records) < Limit
      BY ONLY <1>1, SMT DEF Throttled
    <3>4. records' = records
      BY <1>2
    <3> QED
      BY ONLY <3>1, <3>2, <3>3, <3>4, Zenon
  <2> PICK a, b, n : a = Cardinality(Adding) /\ b = Cardinality(Adding') /\ n = Len(records)
    OBVIOUS
  <2>4. /\ n \in Nat /\ a \in Nat /\ b \in Nat /\ peak \in Nat /\ Limit \in Nat
        /\ peak' = IF b > peak THEN b ELSE peak
        /\ a =< peak /\ n + a < Limit + peak
    BY <1>1, <1>3, <1>10, AddingFinite DEF LimitInv
  <2>5. b =< peak'
    BY ONLY <2>4
  <2>6. n + b < Limit + peak'
    <3>1. CASE st = "add"
      <4>1. n < Limit
        BY <1>4, <3>1
      <4> QED
        BY ONLY <2>4, <4>1
    <3>2. CASE st # "add"
      <4>1. \A x \in DOMAIN load : Adds(x)' => Adds(x)
        BY <2>1, <3>2
      <4>2. b =< a
        BY <1>1, <1>2, <4>1, AddingShrinks
      <4> QED
        BY ONLY <2>4, <4>2
    <3> QED
      BY <3>1, <3>2
  <2> QED
    BY <1>2, <2>2, <2>3, <2>5, <2>6 DEF LimitInv
<1> QED
  BY <1>8, <1>9, <1>11, <1>12 DEF IInv

LEMMA AddRecordIInv ==
    ASSUME IInv, NEW r \in DOMAIN load, AddRecord(r)
    PROVE  IInv'
<1>1. /\ TypeOK /\ RecordsInv /\ LimitInv /\ RulesInv /\ OdisInv
      /\ Limit \in Nat \ {0} /\ Ttl \in Nat \ {0} /\ MaxTime \in Nat
  BY FrontAssumption DEF IInv
<1>2. /\ UNCHANGED <<load, odisVars>>
      /\ UNCHANGED <<load, enabled, spent>> /\ UNCHANGED <<now, peak, quota, queries, disturbed>>
  BY Zenon DEF AddRecord, gateVars, odisVars
<1>3. Adds(r) /\ load[r].endpoint = "startSession"
  BY <1>1, Zenon DEF AddRecord, LimitInv, Adds
<1>4. /\ records' = Append(records, now + Ttl) /\ admitted' = Append(admitted, now)
      /\ promised' = FALSE
      /\ requests' = [requests EXCEPT ![r] = [New EXCEPT !.st = "rules", !.pending = enabled]]
  BY <1>3 DEF AddRecord, Set
<1>5. now \in Nat /\ enabled \in SUBSET Rules
  BY <1>1, TypeParts, FrontAssumption
<1>6. PICK q : q = [New EXCEPT !.st = "rules", !.pending = enabled]
  OBVIOUS
<1>7. q \in RequestsType /\ q.st = "rules" /\ q.pending = enabled
  BY <1>5, <1>6 DEF RequestsType, New
<1>8. /\ requests' \in [DOMAIN load -> RequestsType]
      /\ requests'[r] = q
      /\ \A x \in DOMAIN load : x # r => requests'[x] = requests[x]
  BY <1>1, <1>4, <1>6, <1>7, RequestBecomes
<1>9. /\ records' \in Seq(Nat) /\ Len(records') = Len(records) + 1
      /\ \A k \in 1 .. Len(records) : records'[k] = records[k]
      /\ records'[Len(records) + 1] = now + Ttl
  BY <1>1, <1>4, <1>5, AppendProperties DEF RecordsInv
<1>10. /\ admitted' \in Seq(Nat) /\ Len(admitted') = Len(admitted) + 1
       /\ \A k \in 1 .. Len(admitted) : admitted'[k] = admitted[k]
       /\ admitted'[Len(admitted) + 1] = now
  BY <1>1, <1>4, <1>5, AppendProperties DEF RecordsInv
<1>11. /\ \A k \in 1 .. Len(records) : records[k] \in (now + 1) .. (now + Ttl)
       /\ DOMAIN records = 1 .. Len(records) /\ Len(records) \in Nat /\ Len(admitted) \in Nat
  <2>1. DOMAIN records = 1 .. Len(records) /\ Len(records) \in Nat /\ Len(admitted) \in Nat
    BY <1>1 DEF RecordsInv
  <2>2. \A k \in DOMAIN records : records[k] \in (now + 1) .. (now + Ttl)
    BY <1>1, TypeParts, Zenon
  <2> QED
    BY <2>1, <2>2, Zenon
<1>12. RecordsInv'
  <2> DEFINE n == Len(records)
             m == Len(admitted)
  <2>1. /\ n \in Nat /\ m \in Nat /\ n =< m
        /\ \A k \in 1 .. n : records[k] = admitted[(m - n) + k] + Ttl
        /\ \A k \in 1 .. (m - n) : admitted[k] + Ttl =< now
        /\ \A j, k \in 1 .. n : j =< k => records[j] =< records[k]
        /\ \A k \in 1 .. n : records[k] \in Nat /\ records[k] =< now + Ttl
    BY <1>1, <1>5, <1>11 DEF RecordsInv
  <2>2. /\ Len(records') = n + 1 /\ Len(admitted') = m + 1 /\ now' = now
        /\ \A k \in 1 .. n : records'[k] = records[k]
        /\ \A k \in 1 .. m : admitted'[k] = admitted[k]
        /\ records'[n + 1] = now + Ttl /\ admitted'[m + 1] = now
    BY <1>2, <1>9, <1>10
  <2>3. now \in Nat /\ Ttl \in Nat
    BY <1>1, <1>5
  <2> HIDE DEF n, m
  <2>4. ASSUME NEW k \in 1 .. Len(records')
        PROVE  records'[k] = admitted'[(Len(admitted') - Len(records')) + k] + Ttl
    <3>1. CASE k = n + 1
      <4>1. (Len(admitted') - Len(records')) + k = m + 1
        BY ONLY <2>1, <2>2, <3>1
      <4> QED
        BY ONLY <2>2, <3>1, <4>1
    <3>2. CASE k \in 1 .. n
      <4>1. /\ (Len(admitted') - Len(records')) + k = (m - n) + k
            /\ (m - n) + k \in 1 .. m
        BY ONLY <2>1, <2>2, <3>2
      <4> QED
        BY ONLY <2>1, <2>2, <3>2, <4>1
    <3> QED
      BY ONLY <2>1, <2>2, <3>1, <3>2, k \in 1 .. Len(records')
  <2>5. ASSUME NEW k \in 1 .. (Len(admitted') - Len(records'))
        PROVE  admitted'[k] + Ttl =< now'
    <3>1. k \in 1 .. (m - n) /\ k \in 1 .. m
      BY ONLY <2>1, <2>2, k \in 1 .. (Len(admitted') - Len(records'))
    <3> QED
      BY ONLY <2>1, <2>2, <3>1
  <2>6. ASSUME NEW j \in 1 .. Len(records'), NEW k \in 1 .. Len(records'), j =< k
        PROVE  records'[j] =< records'[k]
    <3>1. CASE k \in 1 .. n
      <4>1. j \in 1 .. n
        BY ONLY <2>1, <2>2, <2>6, <3>1, j \in 1 .. Len(records')
      <4> QED
        BY ONLY <2>1, <2>2, <2>6, <3>1, <4>1
    <3>2. CASE k = n + 1
      <4>1. j \in 1 .. n \/ j = n + 1
        BY ONLY <2>1, <2>2, j \in 1 .. Len(records')
      <4>2. CASE j \in 1 .. n
        BY ONLY <2>1, <2>2, <3>2, <4>2
      <4>3. CASE j = n + 1
        BY ONLY <2>2, <2>3, <3>2, <4>3
      <4> QED
        BY ONLY <4>1, <4>2, <4>3
    <3> QED
      BY ONLY <2>1, <2>2, <3>1, <3>2, k \in 1 .. Len(records')
  <2>7. Len(records') =< Len(admitted')
    BY ONLY <2>1, <2>2
  <2> QED
    BY ONLY <1>9, <1>10, <2>4, <2>5, <2>6, <2>7 DEF RecordsInv
<1>13. OdisInv'
  BY <1>1, <1>2, OdisFrame
<1>14. RulesInv'
  <2>1. \A rule : ~Passed(r, rule)'
    BY <1>2, <1>7, <1>8 DEF Passed
  <2>2. spent \subseteq spent'
    BY <1>2
  <2> QED
    BY <1>1, <1>2, <1>8, <2>1, <2>2, RulesStep, Zenon
<1>15. TypeOK'
  <2>1. \A k \in DOMAIN records' : records'[k] \in (now' + 1) .. (now' + Ttl)
    <3>1. DOMAIN records' = 1 .. Len(records')
      BY <1>9
    <3>2. ASSUME NEW k \in 1 .. Len(records')
          PROVE  records'[k] \in (now + 1) .. (now + Ttl)
      <4>1. k \in 1 .. Len(records) \/ k = Len(records) + 1
        BY ONLY <1>9, <1>11, k \in 1 .. Len(records')
      <4>2. CASE k \in 1 .. Len(records)
        BY ONLY <1>9, <1>11, <4>2
      <4>3. CASE k = Len(records) + 1
        <5>1. now + Ttl \in (now + 1) .. (now + Ttl)
          BY ONLY <1>1, <1>5, SMT
        <5> QED
          BY ONLY <1>9, <4>3, <5>1
      <4> QED
        BY ONLY <4>1, <4>2, <4>3
    <3>3. now' = now
      BY <1>2
    <3> QED
      BY ONLY <3>1, <3>2, <3>3, Zenon
  <2>2. promised' \in BOOLEAN
    BY <1>4, Zenon
  <2> QED
    BY <1>1, <1>2, <1>8, <2>1, <2>2, TypeParts, TypePartsNext, Zenon
<1>16. LimitInv'
  <2>1. \A x \in DOMAIN load : Adds(x)' => x # r /\ Adds(x)
    BY <1>7, <1>8 DEF Adds
  <2>2. \A x \in DOMAIN load' : Adds(x)' => load'[x].endpoint = "startSession"
    BY <1>1, <1>2, <2>1 DEF LimitInv
  <2> PICK a, b, n, m : a = Cardinality(Adding) /\ b = Cardinality(Adding')
                        /\ n = Len(records) /\ m = Len(records')
    OBVIOUS
  <2>3. b = a - 1
    BY <1>1, <1>2, <1>3, <1>8, <2>1, AddingLoses
  <2>4. /\ n \in Nat /\ m = n + 1 /\ a \in Nat /\ peak \in Nat /\ Limit \in Nat
        /\ a =< peak /\ n + a < Limit + peak
    BY <1>1, <1>9, AddingFinite, TypeParts DEF LimitInv, RecordsInv
  <2>5. b =< peak /\ m + b < Limit + peak
    BY ONLY <2>3, <2>4
  <2> QED
    BY <1>2, <1>4, <2>2, <2>5 DEF LimitInv
<1> QED
  BY <1>12, <1>13, <1>14, <1>15, <1>16 DEF IInv

\* The records that are due are the first ones.
LEMMA DueAreFirst ==
    ASSUME NEW s \in Seq(Nat), NEW t \in Nat,
           \A j, k \in 1 .. Len(s) : j =< k => s[j] =< s[k]
    PROVE  \E d \in 0 .. Len(s) :
                /\ Cardinality({k \in DOMAIN s : s[k] =< t}) = d
                /\ \A k \in 1 .. Len(s) : (k =< d <=> s[k] =< t)
<1> DEFINE due == {k \in DOMAIN s : s[k] =< t}
           late == {k \in 1 .. Len(s) : s[k] > t}
<1>1. Len(s) \in Nat /\ DOMAIN s = 1 .. Len(s) /\ \A k \in 1 .. Len(s) : s[k] \in Nat
  OBVIOUS
<1>2. ASSUME NEW d \in 0 .. Len(s), \A k \in 1 .. Len(s) : (k =< d <=> s[k] =< t)
      PROVE  Cardinality(due) = d
  <2>1. due = 1 .. d
    BY <1>1, <1>2
  <2>2. d \in Int /\ 1 \in Int
    BY <1>1
  <2>3. Cardinality(1 .. d) = IF 1 > d THEN 0 ELSE d - 1 + 1
    BY ONLY <2>2, FS_Interval
  <2>4. (IF 1 > d THEN 0 ELSE d - 1 + 1) = d
    BY ONLY <1>1, d \in 0 .. Len(s)
  <2> QED
    BY ONLY <2>1, <2>3, <2>4
<1>3. CASE late = {}
  <2>1. \A k \in 1 .. Len(s) : (k =< Len(s) <=> s[k] =< t)
    BY <1>1, <1>3
  <2>2. Len(s) \in 0 .. Len(s)
    BY ONLY <1>1
  <2> QED
    BY <1>2, <2>1, <2>2
<1>4. CASE late # {}
  <2>1. late \subseteq Nat
    BY <1>1
  <2>2. Min(late) \in late /\ \A y \in late : Min(late) =< y
    BY ONLY <1>4, <2>1, MinOfNaturals
  <2>3. PICK e : e = Min(late)
    OBVIOUS
  <2>4. e \in 1 .. Len(s) /\ s[e] > t /\ \A y \in 1 .. Len(s) : s[y] > t => e =< y
    BY <2>2, <2>3
  <2>5. ASSUME NEW k \in 1 .. Len(s)
        PROVE  k =< e - 1 <=> s[k] =< t
    <3>1. k < e => ~ (s[k] > t)
      BY ONLY <1>1, <2>4, k \in 1 .. Len(s)
    <3>2. e =< k => s[e] =< s[k]
      BY <2>4
    <3> QED
      BY ONLY <1>1, <2>4, <3>1, <3>2, k \in 1 .. Len(s), t \in Nat
  <2>6. e - 1 \in 0 .. Len(s)
    BY ONLY <1>1, <2>4
  <2> QED
    BY <1>2, <2>5, <2>6
<1> QED
  BY <1>3, <1>4

LEMMA TickIInv ==
    ASSUME IInv, Tick
    PROVE  IInv'
<1>1. /\ TypeOK /\ RecordsInv /\ LimitInv /\ RulesInv /\ OdisInv
      /\ Limit \in Nat \ {0} /\ Ttl \in Nat \ {0} /\ MaxTime \in Nat
  BY FrontAssumption DEF IInv
<1>2. /\ UNCHANGED <<load, odisVars>>
      /\ UNCHANGED <<load, enabled, spent, requests>>
      /\ UNCHANGED <<admitted, promised, peak, quota, queries, disturbed>>
      /\ now < MaxTime /\ now' = now + 1
  BY Zenon DEF Tick, gateVars, odisVars
<1> DEFINE n == Len(records)
           m == Len(admitted)
<1>3. /\ n \in Nat /\ m \in Nat /\ n =< m /\ now \in 0 .. MaxTime
      /\ records \in Seq(Nat) /\ admitted \in Seq(Nat) /\ DOMAIN records = 1 .. n
      /\ \A k \in 1 .. n : records[k] = admitted[(m - n) + k] + Ttl
      /\ \A k \in 1 .. (m - n) : admitted[k] + Ttl =< now
      /\ \A j, k \in 1 .. n : j =< k => records[j] =< records[k]
      /\ \A k \in 1 .. n : records[k] \in (now + 1) .. (now + Ttl)
      /\ \A k \in 1 .. m : admitted[k] \in Nat
  BY <1>1, TypeParts DEF RecordsInv
<1>4. PICK d \in 0 .. n :
        /\ Cardinality({k \in DOMAIN records : records[k] =< now + 1}) = d
        /\ \A k \in 1 .. n : (k =< d <=> records[k] =< now + 1)
  <2>1. now + 1 \in Nat
    BY <1>3
  <2> QED
    BY <1>3, <2>1, DueAreFirst
<1>5. records' = SubSeq(records, d + 1, n)
  BY <1>4 DEF Tick
<1>6. /\ records' \in Seq(Nat) /\ Len(records') = n - d
      /\ \A k \in 1 .. (n - d) : records'[k] = records[d + k]
  <2>1. d + 1 \in Int /\ n \in Int /\ d \in Nat /\ d =< n
    BY ONLY <1>3, d \in 0 .. n
  <2>2. \A i \in (d + 1) .. n : records[i] \in Nat
    BY <1>3, <2>1
  <2>3. /\ SubSeq(records, d + 1, n) \in Seq(Nat)
        /\ Len(SubSeq(records, d + 1, n)) = IF d + 1 =< n THEN n - (d + 1) + 1 ELSE 0
        /\ \A i \in 1 .. (n - (d + 1) + 1) : SubSeq(records, d + 1, n)[i] = records[(d + 1) + i - 1]
    BY ONLY <2>1, <2>2, SubSeqProperties
  <2>4. n - (d + 1) + 1 = n - d /\ (d + 1 =< n \/ n - d = 0)
        /\ \A i \in 1 .. (n - d) : (d + 1) + i - 1 = d + i
    <3> HIDE DEF n
    <3> QED
      BY ONLY <2>1
  <2> QED
    BY ONLY <1>5, <2>3, <2>4
<1> HIDE DEF n, m
<1>7. ASSUME NEW k \in 1 .. (n - d)
      PROVE  /\ d + k \in 1 .. n /\ (m - (n - d)) + k = (m - n) + (d + k)
             /\ records'[k] = records[d + k] /\ records[d + k] > now + 1
  <2>1. d + k \in 1 .. n /\ (m - (n - d)) + k = (m - n) + (d + k) /\ ~ (d + k =< d)
    BY ONLY <1>3, d \in 0 .. n, k \in 1 .. (n - d)
  <2>2. records'[k] = records[d + k]
    BY ONLY <1>6, k \in 1 .. (n - d)
  <2>3. ~ (records[d + k] =< now + 1) /\ records[d + k] \in (now + 1) .. (now + Ttl)
    BY ONLY <1>3, <1>4, <2>1
  <2> QED
    BY ONLY <1>1, <1>3, <2>1, <2>2, <2>3
<1>8. RecordsInv'
  <2>1. Len(records') =< Len(admitted') /\ Len(admitted') = m
    BY ONLY <1>2, <1>3, <1>6, d \in 0 .. n DEF m
  <2>2. ASSUME NEW k \in 1 .. (n - d)
        PROVE  records'[k] = admitted[(m - (n - d)) + k] + Ttl
    BY ONLY <1>3, <1>7, k \in 1 .. (n - d)
  <2>3. ASSUME NEW k \in 1 .. (m - (n - d))
        PROVE  admitted[k] + Ttl =< now + 1
    <3>1. CASE k \in 1 .. (m - n)
      <4>1. admitted[k] + Ttl =< now /\ admitted[k] \in Nat
        BY ONLY <1>3, <3>1
      <4> QED
        BY ONLY <1>1, <1>3, <4>1
    <3>2. CASE k \notin 1 .. (m - n)
      <4>1. PICK j \in 1 .. d : k = (m - n) + j /\ j \in 1 .. n
        <5>1. k - (m - n) \in 1 .. d /\ k = (m - n) + (k - (m - n)) /\ k - (m - n) \in 1 .. n
          BY ONLY <1>3, <3>2, d \in 0 .. n, k \in 1 .. (m - (n - d))
        <5> QED
          BY ONLY <5>1
      <4>2. records[j] = admitted[k] + Ttl /\ j =< d
        BY ONLY <1>3, <4>1, d \in 0 .. n
      <4> QED
        BY ONLY <1>4, <4>1, <4>2
    <3> QED
      BY ONLY <3>1, <3>2
  <2>4. ASSUME NEW j \in 1 .. (n - d), NEW k \in 1 .. (n - d), j =< k
        PROVE  records'[j] =< records'[k]
    <3>1. d + j \in 1 .. n /\ d + k \in 1 .. n /\ d + j =< d + k
      BY ONLY <1>3, <2>4, d \in 0 .. n, j \in 1 .. (n - d), k \in 1 .. (n - d)
    <3>2. records[d + j] =< records[d + k]
      BY ONLY <1>3, <3>1
    <3> QED
      BY ONLY <1>7, <3>2, j \in 1 .. (n - d), k \in 1 .. (n - d)
  <2>5. admitted' \in Seq(Nat) /\ admitted' = admitted /\ now' = now + 1
    BY ONLY <1>2, <1>3
  <2> QED
    BY ONLY <1>6, <2>1, <2>2, <2>3, <2>4, <2>5 DEF RecordsInv
<1>9. TypeOK'
  <2>1. now' \in 0 .. MaxTime
    BY ONLY <1>1, <1>2, <1>3
  <2>2. \A k \in DOMAIN records' : records'[k] \in (now' + 1) .. (now' + Ttl)
    <3>1. DOMAIN records' = 1 .. (n - d)
      BY ONLY <1>6
    <3>2. ASSUME NEW k \in 1 .. (n - d)
          PROVE  records'[k] \in ((now + 1) + 1) .. ((now + 1) + Ttl)
      <4>1. records[d + k] \in (now + 1) .. (now + Ttl)
        BY ONLY <1>3, <1>7, k \in 1 .. (n - d)
      <4> QED
        BY ONLY <1>1, <1>3, <1>7, <4>1, k \in 1 .. (n - d)
    <3> QED
      BY ONLY <1>2, <3>1, <3>2, Zenon
  <2> QED
    BY <1>1, <1>2, <2>1, <2>2, TypeParts, TypePartsNext, Zenon
<1>10. LimitInv'
  <2>1. Len(records') =< Len(records) /\ Len(records) \in Nat /\ Len(records') \in Nat
    BY ONLY <1>3, <1>6, d \in 0 .. n DEF n
  <2>2. \A x \in DOMAIN load : Adds(x)' => Adds(x)
    BY <1>2 DEF Adds
  <2> QED
    BY <1>1, <1>2, <2>1, <2>2, LimitFrame
<1>11. RulesInv'
  BY <1>1, <1>2, Zenon DEF RulesInv, Passed
<1>12. OdisInv'
  BY <1>1, <1>2, OdisFrame
<1> QED
  BY <1>8, <1>9, <1>10, <1>11, <1>12 DEF IInv

-----------------------------------------------------------------------------
(* The gateway's rules *)

\* A rule answers; the request has passed it if the answer is yes.
LEMMA VerdictStep ==
    ASSUME IInv, NEW r \in DOMAIN load, NEW rule \in Rules, NEW ok,
           Verifying(r, rule), Verdict(r, rule, ok), UNCHANGED <<load, enabled>>
    PROVE  /\ requests' \in [DOMAIN load -> RequestsType]
           /\ \A x \in DOMAIN load : x # r => requests'[x] = requests[x]
           /\ requests'[r].st \in {"rules", "500"}
           /\ \A y \in Rules : Passed(r, y)' => Passed(r, y) \/ (y = rule /\ ok)
<1>1. TypeOK
  BY DEF IInv
<1>2. /\ requests[r] \in RequestsType /\ requests[r].st \in {"rules", "500"}
      /\ rule \in requests[r].pending
  BY <1>1, TypeParts DEF Verifying
<1>3. PICK p : p = requests[r].pending \ {rule}
  OBVIOUS
<1>4. PICK b : b = (requests[r].ok /\ ok)
  BY Zenon
<1>5. b \in BOOLEAN
  BY ONLY <1>4, Zenon
<1>6. b => requests[r].ok /\ ok
  BY ONLY <1>4, Zenon
<1>7. PICK q : q = [requests[r] EXCEPT !.pending = p, !.ok = b]
  OBVIOUS
<1>8. /\ q \in RequestsType /\ q.st = requests[r].st /\ q.pending = p /\ q.ok = b
  <2>1. p \in SUBSET Rules
    BY <1>2, <1>3 DEF RequestsType
  <2> QED
    BY ONLY <1>2, <1>5, <1>7, <2>1 DEF RequestsType
<1>9. requests' = [requests EXCEPT ![r] = q]
  BY <1>3, <1>4, <1>7, Zenon DEF Verdict, Set
<1>10. /\ requests' \in [DOMAIN load -> RequestsType]
       /\ requests'[r] = q
       /\ \A x \in DOMAIN load : x # r => requests'[x] = requests[x]
  BY <1>1, <1>8, <1>9, RequestBecomes
<1>11. ASSUME NEW y \in Rules, Passed(r, y)'
       PROVE  Passed(r, y) \/ (y = rule /\ ok)
  <2>1. y \in enabled /\ b /\ y \notin p /\ requests[r].st = "rules"
    <3>1. enabled' = enabled
      OBVIOUS
    <3>2. /\ y \in enabled' /\ requests'[r].ok /\ y \notin requests'[r].pending
          /\ requests'[r].st = "rules"
      <4>1. requests'[r].st # "session"
        BY ONLY <1>2, <1>8, <1>10
      <4> QED
        BY ONLY <1>11, <4>1, Zenon DEF Passed
    <3> QED
      BY ONLY <1>8, <1>10, <3>1, <3>2, Zenon
  <2>2. y = rule \/ y \notin requests[r].pending
    BY ONLY <1>3, <2>1, Zenon
  <2> QED
    BY ONLY <1>2, <1>6, <2>1, <2>2, Zenon DEF Passed
<1>12. requests'[r].st \in {"rules", "500"}
  BY ONLY <1>2, <1>8, <1>10
<1> QED
  BY ONLY <1>10, <1>11, <1>12, Zenon

\* A rule answers: whatever it vouches for is true of the request.
LEMMA VerdictIInv ==
    ASSUME IInv, NEW r \in DOMAIN load, NEW rule \in Rules, NEW ok,
           Verifying(r, rule), Verdict(r, rule, ok),
           UNCHANGED <<gateVars, now, records, admitted, promised, peak>>,
           spent \subseteq spent', spent' \subseteq {load[x].token : x \in DOMAIN load},
           ok /\ rule = "SIGNATURE" => load[r].signed,
           ok /\ rule = "DEVICE_ATTESTATION" => load[r].device # "none",
           ok /\ rule = "CAPTCHA" =>
                load[r].token = BypassToken \/ (load[r].token \notin spent /\ load[r].token \in spent')
    PROVE  IInv'
<1>1. /\ UNCHANGED <<load, enabled>> /\ UNCHANGED <<load, odisVars>>
      /\ UNCHANGED <<records, admitted, now>> /\ UNCHANGED <<load, records, promised, peak>>
      /\ UNCHANGED <<gateVars, now, records, promised, peak>>
  BY Zenon DEF gateVars
<1>2. TypeOK /\ RecordsInv /\ LimitInv /\ RulesInv /\ OdisInv
  BY DEF IInv
<1>3. /\ requests' \in [DOMAIN load -> RequestsType]
      /\ \A x \in DOMAIN load : x # r => requests'[x] = requests[x]
      /\ requests'[r].st \in {"rules", "500"}
      /\ \A y \in Rules : Passed(r, y)' => Passed(r, y) \/ (y = rule /\ ok)
  BY <1>1, VerdictStep, Zenon
<1>4. "SIGNATURE" \in Rules /\ "DEVICE_ATTESTATION" \in Rules /\ "CAPTCHA" \in Rules
  BY DEF Rules
<1>5. RulesInv'
  <2>1. Passed(r, "SIGNATURE")' => Passed(r, "SIGNATURE") \/ load[r].signed
    BY <1>3, <1>4, Zenon
  <2>2. Passed(r, "DEVICE_ATTESTATION")' =>
            Passed(r, "DEVICE_ATTESTATION") \/ load[r].device # "none"
    BY <1>3, <1>4, Zenon
  <2>3. Passed(r, "CAPTCHA")' =>
            \/ Passed(r, "CAPTCHA") \/ load[r].token = BypassToken
            \/ load[r].token \notin spent /\ load[r].token \in spent'
    BY <1>3, <1>4, Zenon
  <2> QED
    BY <1>1, <1>2, <1>3, <2>1, <2>2, <2>3, RulesStep, Zenon
<1>6. requests'[r].st # "add"
  BY <1>3
<1>7. LimitInv'
  BY <1>1, <1>2, <1>3, <1>6, LimitStep, Zenon
<1>8. RecordsInv' /\ OdisInv'
  BY <1>1, <1>2, RecordsFrame, OdisFrame, Zenon
<1>9. TypeOK'
  BY <1>1, <1>2, <1>3, GateType, Zenon
<1> QED
  BY <1>5, <1>7, <1>8, <1>9 DEF IInv

\* The rules are four, and each has its own action.
LEMMA RuleIInv ==
    ASSUME IInv, NEW r \in DOMAIN load,
           DailyCapRule(r) \/ CaptchaRule(r) \/ DeviceAttestationRule(r) \/ SignatureRule(r)
    PROVE  IInv'
<1>1. /\ "SIGNATURE" \in Rules /\ "DEVICE_ATTESTATION" \in Rules
      /\ "CAPTCHA" \in Rules /\ "DAILY_CAP" \in Rules
  BY DEF Rules
<1>2. spent \subseteq {load[x].token : x \in DOMAIN load}
  BY TypeParts DEF IInv
<1>3. /\ "DAILY_CAP" # "SIGNATURE" /\ "DAILY_CAP" # "DEVICE_ATTESTATION" /\ "DAILY_CAP" # "CAPTCHA"
      /\ "CAPTCHA" # "SIGNATURE" /\ "CAPTCHA" # "DEVICE_ATTESTATION"
      /\ "SIGNATURE" # "DEVICE_ATTESTATION"
  OBVIOUS
<1>4. CASE UNCHANGED spent
      /\ (DailyCapRule(r) \/ CaptchaRule(r) \/ DeviceAttestationRule(r) \/ SignatureRule(r))
  <2>1. spent \subseteq spent' /\ spent' \subseteq {load[x].token : x \in DOMAIN load}
    BY <1>2, <1>4
  <2>2. CASE DailyCapRule(r)
    <3>1. /\ Verifying(r, "DAILY_CAP") /\ Verdict(r, "DAILY_CAP", TRUE)
          /\ UNCHANGED <<gateVars, now, records, admitted, promised, peak>>
      BY <2>2, Zenon DEF DailyCapRule
    <3> QED
      BY <1>1, <1>3, <2>1, <3>1, VerdictIInv, Zenon
  <2>3. CASE SignatureRule(r)
    <3>1. /\ Verifying(r, "SIGNATURE") /\ Verdict(r, "SIGNATURE", load[r].signed)
          /\ UNCHANGED <<gateVars, now, records, admitted, promised, peak>>
      BY <2>3, Zenon DEF SignatureRule
    <3> QED
      BY <1>1, <1>3, <2>1, <3>1, VerdictIInv, Zenon
  <2>4. CASE DeviceAttestationRule(r)
    <3>1. /\ Verifying(r, "DEVICE_ATTESTATION")
          /\ \/ load[r].device # "none" /\ Verdict(r, "DEVICE_ATTESTATION", TRUE)
             \/ Verdict(r, "DEVICE_ATTESTATION", FALSE)
             \/ Set(r, Rejected(r))
          /\ UNCHANGED <<gateVars, now, records, admitted, promised, peak>>
          /\ UNCHANGED <<gateVars, now, records, spent, admitted, promised, peak>>
      BY <2>4, Zenon DEF DeviceAttestationRule
    <3>2. CASE load[r].device # "none" /\ Verdict(r, "DEVICE_ATTESTATION", TRUE)
      BY <1>1, <1>3, <2>1, <3>1, <3>2, VerdictIInv, Zenon
    <3>3. CASE Verdict(r, "DEVICE_ATTESTATION", FALSE)
      BY <1>1, <2>1, <3>1, <3>3, VerdictIInv, Zenon
    <3>4. CASE Set(r, Rejected(r))
      <4>1. Rejected(r) \in RequestsType /\ Rejected(r).st = "500"
        BY TypeParts DEF IInv, Rejected, RequestsType
      <4>2. UNCHANGED <<load, enabled, now, records, spent, admitted, promised, peak>>
            /\ UNCHANGED <<load, odisVars>>
        BY <3>1, Zenon DEF gateVars
      <4>3. TypeOK /\ spent' \subseteq {load[x].token : x \in DOMAIN load}
        BY <2>1 DEF IInv
      <4>4. /\ requests' \in [DOMAIN load -> RequestsType]
            /\ RecordsInv' /\ LimitInv' /\ RulesInv'
        BY <3>4, <4>1, <4>2, SetIInv
      <4>5. OdisInv'
        BY <4>2, OdisFrame DEF IInv
      <4>6. TypeOK'
        BY <3>1, <4>2, <4>3, <4>4, GateType, Zenon
      <4> QED
        BY <4>4, <4>5, <4>6 DEF IInv
    <3> QED
      BY <3>1, <3>2, <3>3, <3>4, Zenon
  <2>5. CASE CaptchaRule(r)
    <3>1. /\ Verifying(r, "CAPTCHA")
          /\ UNCHANGED <<gateVars, now, records, admitted, promised, peak>>
      BY <2>5, Zenon DEF CaptchaRule
    <3>2. \/ load[r].token = BypassToken /\ Verdict(r, "CAPTCHA", TRUE)
          \/ Verdict(r, "CAPTCHA", FALSE)
          \/ load[r].token \notin spent /\ load[r].token \in spent' /\ Verdict(r, "CAPTCHA", TRUE)
      BY <2>5, Zenon DEF CaptchaRule
    <3>3. CASE load[r].token = BypassToken /\ Verdict(r, "CAPTCHA", TRUE)
      BY <1>1, <1>3, <2>1, <3>1, <3>3, VerdictIInv, Zenon
    <3>4. CASE Verdict(r, "CAPTCHA", FALSE)
      BY <1>1, <2>1, <3>1, <3>4, VerdictIInv, Zenon
    <3>5. CASE /\ load[r].token \notin spent /\ load[r].token \in spent'
               /\ Verdict(r, "CAPTCHA", TRUE)
      BY <1>1, <1>3, <2>1, <3>1, <3>5, VerdictIInv, Zenon
    <3> QED
      BY <3>2, <3>3, <3>4, <3>5, Zenon
  <2> QED
    BY <1>4, <2>2, <2>3, <2>4, <2>5, Zenon
<1>5. CASE ~ UNCHANGED spent
  <2>1. /\ Verifying(r, "CAPTCHA")
        /\ UNCHANGED <<gateVars, now, records, admitted, promised, peak>>
        /\ load[r].token \notin spent
        /\ spent' = spent \cup {load[r].token}
        /\ Verdict(r, "CAPTCHA", TRUE) \/ Verdict(r, "CAPTCHA", FALSE)
    BY <1>5, Zenon DEF CaptchaRule, DailyCapRule, DeviceAttestationRule, SignatureRule
  <2>2. /\ spent \subseteq spent' /\ spent' \subseteq {load[x].token : x \in DOMAIN load}
        /\ load[r].token \in spent'
    BY <1>2, <2>1
  <2>3. CASE Verdict(r, "CAPTCHA", TRUE)
    BY <1>1, <1>3, <2>1, <2>2, <2>3, VerdictIInv, Zenon
  <2>4. CASE Verdict(r, "CAPTCHA", FALSE)
    BY <1>1, <2>1, <2>2, <2>4, VerdictIInv, Zenon
  <2> QED
    BY <2>1, <2>3, <2>4, Zenon
<1> QED
  BY <1>4, <1>5, Zenon

LEMMA StartSessionIInv ==
    ASSUME IInv, NEW r \in DOMAIN load, StartSession(r)
    PROVE  IInv'
<1>1. /\ requests[r].st = "rules" /\ requests[r].pending = {}
      /\ UNCHANGED <<gateVars, now, records, spent, admitted, promised, peak>>
      /\ (requests[r].ok /\ Answer(r, "session")) \/ Answer(r, "401")
  BY Zenon DEF StartSession, Verified
<1>2. CASE Answer(r, "401")
  BY <1>1, <1>2, AnswerIInv
<1>3. CASE requests[r].ok /\ Answer(r, "session")
  <2>1. /\ UNCHANGED <<load, enabled>> /\ UNCHANGED <<load, odisVars>>
        /\ UNCHANGED <<records, admitted, now>> /\ UNCHANGED <<load, records, promised, peak>>
        /\ UNCHANGED <<gateVars, now, records, promised, peak>> /\ UNCHANGED spent
    BY <1>1, Zenon DEF gateVars
  <2>2. TypeOK /\ RecordsInv /\ LimitInv /\ RulesInv /\ OdisInv
    BY DEF IInv
  <2>3. PICK q : q = [New EXCEPT !.st = "session"]
    OBVIOUS
  <2>4. q \in RequestsType /\ q.st = "session"
    BY <2>3, NewAt
  <2>5. /\ requests' \in [DOMAIN load -> RequestsType]
        /\ requests'[r] = q
        /\ \A x \in DOMAIN load : x # r => requests'[x] = requests[x]
    BY <1>3, <2>2, <2>3, <2>4, RequestBecomes DEF Answer
  <2>6. \A rule : Passed(r, rule)' => Passed(r, rule)
    BY <1>1, <1>3, <2>1, Zenon DEF Passed
  <2>7. RulesInv'
    <3>1. spent \subseteq spent'
      BY <2>1
    <3> QED
      BY <2>1, <2>2, <2>5, <2>6, <3>1, RulesStep, Zenon
  <2>8. requests'[r].st # "add"
    BY <2>4, <2>5
  <2>9. LimitInv'
    BY <2>1, <2>2, <2>5, <2>8, LimitStep, Zenon
  <2>10. RecordsInv' /\ OdisInv'
    BY <2>1, <2>2, RecordsFrame, OdisFrame, Zenon
  <2>11. spent' \subseteq {load[x].token : x \in DOMAIN load}
    BY <2>1, <2>2, TypeParts, Zenon
  <2>12. TypeOK'
    BY <2>1, <2>2, <2>5, <2>11, GateType, Zenon
  <2> QED
    BY <2>7, <2>9, <2>10, <2>12 DEF IInv
<1> QED
  BY <1>1, <1>2, <1>3, Zenon

\* The parser's two endpoints answer, whatever it finds.
LEMMA MetaTransactionIInv ==
    ASSUME IInv, NEW r \in DOMAIN load,
           SubmitMetaTransaction(r) \/ RequestSubsidisedAttestations(r)
    PROVE  IInv'
<1>1. /\ UNCHANGED <<gateVars, now, records, spent, admitted, promised, peak>>
      /\ Answer(r, "200") \/ Answer(r, "400") \/ Answer(r, "500")
  <2>1. CASE SubmitMetaTransaction(r)
    <3>1. PICK tx \in Transactions :
            \/ Answer(r, "200")
            \/ Answer(r, IF parse(tx, DefaultFilter) = "TypeError" THEN "500" ELSE "400")
      BY <2>1, Zenon DEF SubmitMetaTransaction
    <3>2. Answer(r, "200") \/ Answer(r, "400") \/ Answer(r, "500")
      <4>1. CASE parse(tx, DefaultFilter) = "TypeError"
        BY <3>1, <4>1
      <4>2. CASE parse(tx, DefaultFilter) # "TypeError"
        BY <3>1, <4>2
      <4> QED
        BY <4>1, <4>2
    <3> QED
      BY <2>1, <3>2, Zenon DEF SubmitMetaTransaction
  <2>2. CASE RequestSubsidisedAttestations(r)
    BY <2>2, Zenon DEF RequestSubsidisedAttestations
  <2> QED
    BY <2>1, <2>2
<1> QED
  BY <1>1, AnswerIInv

-----------------------------------------------------------------------------
(* The relayer's queries *)

\* The query of r becomes q, and no other one changes.
LEMMA QueryBecomes ==
    ASSUME TypeOK, NEW r \in DOMAIN load, NEW q \in QueriesType, Query(r, q)
    PROVE  /\ queries' \in [DOMAIN load -> QueriesType]
           /\ queries'[r] = q
           /\ \A x \in DOMAIN load : x # r => queries'[x] = queries[x]
<1>1. queries \in [DOMAIN load -> QueriesType]
  BY TypeParts
<1> HIDE DEF QueriesType
<1> QED
  BY <1>1 DEF Query

\* The query of r changes as it may, and the others keep their quota or are
\* marked as disturbed.
LEMMA QueryStepIInv ==
    ASSUME TypeOK, OdisInv, UNCHANGED load, NEW r \in DOMAIN load,
           NEW q \in QueriesType, Query(r, q),
           quota' \in Nat, disturbed' \subseteq DOMAIN load, disturbed \subseteq disturbed',
           QueryInv(r, q)', Calm(r, q)',
           \A x \in DOMAIN load :
                x # r => quota' >= quota \/ (queries[x].st \in {"query", "replenish"} => x \in disturbed')
    PROVE  OdisInv' /\ queries' \in [DOMAIN load -> QueriesType]
<1>1. /\ queries' \in [DOMAIN load -> QueriesType]
      /\ queries'[r] = q
      /\ \A x \in DOMAIN load : x # r => queries'[x] = queries[x]
  BY QueryBecomes
<1>2. quota \in Nat
  BY TypeParts
<1>3. ASSUME NEW x \in DOMAIN load
      PROVE  \E w : w = queries'[x] /\ QueryInv(x, w)' /\ Calm(x, w)'
  <2>1. CASE x = r
    BY <1>1, <2>1, Zenon
  <2>2. CASE x # r
    <3>1. PICK w : w = queries[x]
      OBVIOUS
    <3>2. queries'[x] = w
      BY <1>1, <2>2, <3>1
    <3>3. QueryInv(x, w) /\ Calm(x, w)
      BY <3>1 DEF OdisInv
    <3>4. QueryInv(x, w)'
      BY <3>3, Zenon DEF QueryInv
    <3>5. Calm(x, w)'
      <4>1. CASE quota' >= quota
        <5>1. quota > 0 => quota' > 0
          BY ONLY <1>2, <4>1, quota' \in Nat
        <5> QED
          BY <3>3, <5>1, Zenon DEF Calm
      <4>2. CASE w.st \in {"query", "replenish"} => x \in disturbed'
        BY <3>3, <4>2 DEF Calm
      <4> QED
        BY <2>2, <3>1, <4>1, <4>2
    <3> QED
      BY <3>2, <3>4, <3>5
  <2> QED
    BY <2>1, <2>2
<1>4. ASSUME NEW x \in DOMAIN load
      PROVE  (QueryInv(x, queries[x]) /\ Calm(x, queries[x]))'
  <2>1. PICK w : w = queries'[x] /\ QueryInv(x, w)' /\ Calm(x, w)'
    BY <1>3
  <2> QED
    BY ONLY <2>1 DEF QueryInv, Calm
<1>5. OdisInv'
  BY <1>4 DEF OdisInv
<1> QED
  BY <1>1, <1>5

\* What is known of a call that is under way.
LEMMA QueryKnown ==
    ASSUME TypeOK, OdisInv, NEW r \in DOMAIN load
    PROVE  /\ queries[r] \in QueriesType /\ QueryInv(r, queries[r]) /\ Calm(r, queries[r])
           /\ quota \in Nat /\ disturbed \subseteq DOMAIN load
           /\ DOMAIN queries = DOMAIN load
           /\ queries[r].tries \in Nat /\ queries[r].tries =< Tries /\ queries[r].late \in Nat
<1>1. queries \in [DOMAIN load -> QueriesType] /\ quota \in Nat /\ disturbed \subseteq DOMAIN load
  BY TypeParts
<1>2. queries[r] \in QueriesType /\ DOMAIN queries = DOMAIN load
  <2> HIDE DEF QueriesType
  <2> QED
    BY <1>1
<1>3. queries[r].tries \in 0 .. Tries /\ queries[r].late \in 0 .. Tries
  BY ONLY <1>2 DEF QueriesType
<1>4. queries[r].tries \in Nat /\ queries[r].tries =< Tries /\ queries[r].late \in Nat
  BY ONLY <1>3, OdisAssumption
<1> QED
  BY <1>1, <1>2, <1>4 DEF OdisInv

\* The call is made: its first try begins.
LEMMA QueryBegins ==
    ASSUME TypeOK, OdisInv, UNCHANGED load, NEW r \in DOMAIN load, getPhoneNumberSignature(r)
    PROVE  OdisInv' /\ queries' \in [DOMAIN load -> QueriesType] /\ UNCHANGED <<quota, disturbed>>
<1>1. /\ queries[r] \in QueriesType /\ QueryInv(r, queries[r]) /\ Calm(r, queries[r])
      /\ quota \in Nat /\ disturbed \subseteq DOMAIN load
  BY QueryKnown
<1>2. /\ queries[r].st = "idle" /\ UNCHANGED <<quota, disturbed>>
      /\ Query(r, [queries[r] EXCEPT !.st = "query", !.tries = 1])
  BY DEF getPhoneNumberSignature
<1>3. PICK q : q = [queries[r] EXCEPT !.st = "query", !.tries = 1]
  OBVIOUS
<1>4. /\ q \in QueriesType /\ q.st = "query" /\ q.tries = 1 /\ q.late = queries[r].late
      /\ q.result = queries[r].result
  <2>1. 1 \in 0 .. Tries
    BY ONLY OdisAssumption
  <2> QED
    BY ONLY <1>1, <1>3, <2>1 DEF QueriesType
<1>5. queries[r].late = 0 /\ queries[r].result = "none"
  BY <1>1, <1>2 DEF QueryInv
<1>6. QueryInv(r, q)' /\ Calm(r, q)'
  BY <1>4, <1>5 DEF QueryInv, Calm
<1>7. quota' >= quota /\ quota' \in Nat /\ disturbed' \subseteq DOMAIN load /\ disturbed \subseteq disturbed'
  BY <1>1, <1>2
<1>8. Query(r, q)
  BY <1>2, <1>3
<1> QED
  BY <1>2, <1>4, <1>6, <1>7, <1>8, QueryStepIInv

\* A try that fails is the last one, or another one begins.
LEMMA TryFailsTo ==
    ASSUME NEW r, NEW p \in QueriesType, NEW error \in OdisQueryErrorTypes, TryFails(r, p, error)
    PROVE  \E q \in QueriesType :
                /\ Query(r, q) /\ q.late = p.late
                /\ \/ /\ Retries(error, p.tries) /\ q.st = "query" /\ q.result = p.result
                      /\ q.tries = p.tries + 1
                   \/ /\ ~Retries(error, p.tries) /\ q.st = "done" /\ q.result = error
<1>1. p.tries \in 0 .. Tries /\ Tries \in Nat
  BY OdisAssumption DEF QueriesType
<1>2. CASE Retries(error, p.tries)
  <2>1. PICK q : q = [p EXCEPT !.st = "query", !.tries = @ + 1]
    OBVIOUS
  <2>2. p.tries + 1 \in 0 .. Tries
    BY <1>1, <1>2 DEF Retries
  <2>3. /\ q \in QueriesType /\ q.late = p.late /\ q.st = "query" /\ q.result = p.result
        /\ q.tries = p.tries + 1
    BY ONLY <2>1, <2>2, p \in QueriesType DEF QueriesType
  <2>4. Query(r, q)
    BY <1>2, <2>1, Zenon DEF TryFails
  <2> QED
    BY <1>2, <2>3, <2>4, Zenon
<1>3. CASE ~Retries(error, p.tries)
  <2>1. PICK q : q = [p EXCEPT !.st = "done", !.result = error]
    OBVIOUS
  <2>2. error \in OdisQueryErrorTypes \cup {"none", "signature", "Exception"}
    BY Zenon
  <2>3. /\ q \in QueriesType /\ q.late = p.late /\ q.st = "done" /\ q.result = error
    BY ONLY <2>1, <2>2, p \in QueriesType DEF QueriesType
  <2>4. Query(r, q)
    BY <1>3, <2>1, Zenon DEF TryFails
  <2> QED
    BY <1>3, <2>3, <2>4, Zenon
<1> QED
  BY <1>2, <1>3

LEMMA OdisStepInv ==
    ASSUME TypeOK, OdisInv, UNCHANGED load, NEW r \in DOMAIN load, OdisStep(r)
    PROVE  /\ OdisInv' /\ queries' \in [DOMAIN load -> QueriesType]
           /\ quota' \in Nat /\ disturbed' \subseteq DOMAIN load
<1> DEFINE Under(x) == queries[x].st \in {"query", "replenish"}
<1>1. /\ queries[r] \in QueriesType /\ QueryInv(r, queries[r]) /\ Calm(r, queries[r])
      /\ quota \in Nat /\ disturbed \subseteq DOMAIN load /\ DOMAIN queries = DOMAIN load
      /\ queries[r].tries \in Nat /\ queries[r].tries =< Tries /\ queries[r].late \in Nat
  BY QueryKnown
<1>2. /\ Under(r) => queries[r].tries >= 1 /\ queries[r].late < queries[r].tries
      /\ Under(r) => queries[r].result = "none"
  BY <1>1 DEF QueryInv
<1>3. Tries \in Nat \ {0, 1} /\ Grant \in Nat \ {0}
  BY OdisAssumption
<1>4. ASSUME NEW q \in QueriesType, Query(r, q), QueryInv(r, q)', Calm(r, q)',
             quota' \in Nat, disturbed' \subseteq DOMAIN load, disturbed \subseteq disturbed',
             quota' >= quota \/ (\A x \in DOMAIN load : x # r /\ Under(x) => x \in disturbed')
      PROVE  /\ OdisInv' /\ queries' \in [DOMAIN load -> QueriesType]
             /\ quota' \in Nat /\ disturbed' \subseteq DOMAIN load
  <2>1. \A x \in DOMAIN load :
            x # r => quota' >= quota \/ (queries[x].st \in {"query", "replenish"} => x \in disturbed')
    BY <1>4
  <2> QED
    BY <1>4, <2>1, QueryStepIInv, Zenon
<1>5. CASE Signed(r)
  <2>1. PICK q : q = [queries[r] EXCEPT !.st = "done", !.result = "signature"]
    OBVIOUS
  <2>2. q \in QueriesType /\ q.st = "done" /\ q.result = "signature"
    BY ONLY <1>1, <2>1 DEF QueriesType
  <2>3. QueryInv(r, q)' /\ Calm(r, q)'
    BY ONLY <2>2 DEF QueryInv, Calm
  <2>4. /\ Query(r, q) /\ quota > 0 /\ quota' = quota - 1
        /\ disturbed' = disturbed \cup {x \in DOMAIN queries \ {r} : Under(x)}
    BY <1>5, <2>1, Zenon DEF Signed, Charged
  <2>5. quota' \in Nat
    BY ONLY <1>1, <2>4
  <2>6. /\ disturbed \subseteq disturbed' /\ disturbed' \subseteq DOMAIN load
        /\ \A x \in DOMAIN load : x # r /\ Under(x) => x \in disturbed'
    BY ONLY <1>1, <2>4, Zenon
  <2> QED
    BY <1>4, <2>2, <2>3, <2>4, <2>5, <2>6, Zenon
<1>6. CASE QuotaRefused(r)
  <2>1. PICK q : q = [queries[r] EXCEPT !.st = "replenish"]
    OBVIOUS
  <2>2. /\ q \in QueriesType /\ q.st = "replenish" /\ q.tries = queries[r].tries
        /\ q.late = queries[r].late /\ q.result = queries[r].result
    BY ONLY <1>1, <2>1 DEF QueriesType
  <2>3. /\ Query(r, q) /\ quota = 0 /\ UNCHANGED <<quota, disturbed>> /\ queries[r].st = "query"
    BY <1>6, <2>1, Zenon DEF QuotaRefused
  <2>4. QueryInv(r, q)'
    BY ONLY <1>2, <2>2, <2>3 DEF QueryInv
  <2>5. Calm(r, q)'
    <3>1. r \notin disturbed => ~ (queries[r].tries > 1)
      BY ONLY <1>1, <2>3 DEF Calm
    <3>2. r \notin disturbed => queries[r].tries = 1
      BY ONLY <1>1, <1>2, <2>3, <3>1
    <3> QED
      BY ONLY <2>2, <2>3, <3>2 DEF Calm
  <2>6. quota' \in Nat /\ quota' >= quota /\ disturbed' = disturbed
    BY ONLY <1>1, <2>3
  <2> QED
    BY <1>1, <1>4, <2>2, <2>3, <2>4, <2>5, <2>6
<1>7. CASE QueryFails(r)
  <2>1. "Unknown" \in OdisQueryErrorTypes /\ \A n : ~Retries("Unknown", n)
    BY DEF OdisQueryErrorTypes, Retries, BailOnErrorTypes
  <2>2. TryFails(r, queries[r], "Unknown") /\ UNCHANGED <<quota, disturbed>>
    BY <1>7, Zenon DEF QueryFails
  <2>3. PICK q \in QueriesType : Query(r, q) /\ q.st = "done" /\ q.result = "Unknown"
    BY <1>1, <2>1, <2>2, TryFailsTo, Zenon
  <2>4. QueryInv(r, q)' /\ Calm(r, q)'
    BY ONLY <2>3 DEF QueryInv, Calm
  <2>5. quota' \in Nat /\ quota' >= quota /\ disturbed' = disturbed
    BY ONLY <1>1, <2>2
  <2> QED
    BY <1>1, <1>4, <2>3, <2>4, <2>5
<1>8. CASE QueryTimesOut(r)
  <2>1. PICK p : p = [queries[r] EXCEPT !.late = @ + 1]
    OBVIOUS
  <2>2. /\ queries[r].st = "query" /\ TryFails(r, p, "Timeout")
        /\ disturbed' = disturbed \cup {r} /\ quota' = quota
    BY <1>8, <2>1, Zenon DEF QueryTimesOut
  <2>3. queries[r].late + 1 \in 0 .. Tries
    BY ONLY <1>1, <1>2, <1>3, <2>2
  <2>4. /\ p \in QueriesType /\ p.tries = queries[r].tries /\ p.late = queries[r].late + 1
        /\ p.result = queries[r].result
    BY ONLY <1>1, <2>1, <2>3 DEF QueriesType
  <2>5. "Timeout" \in OdisQueryErrorTypes
    BY DEF OdisQueryErrorTypes
  <2>6. PICK q \in QueriesType :
            /\ Query(r, q) /\ q.late = p.late
            /\ \/ /\ Retries("Timeout", p.tries) /\ q.st = "query" /\ q.result = p.result
                  /\ q.tries = p.tries + 1
               \/ /\ ~Retries("Timeout", p.tries) /\ q.st = "done" /\ q.result = "Timeout"
    BY ONLY <2>2, <2>4, <2>5, TryFailsTo
  <2>7. QueryInv(r, q)'
    <3>1. q.st = "query" => q.tries >= 1 /\ q.late < q.tries /\ q.result = "none"
      BY ONLY <1>1, <1>2, <2>2, <2>4, <2>6
    <3> QED
      BY ONLY <1>2, <2>2, <2>4, <2>6, <3>1 DEF QueryInv
  <2>8. Calm(r, q)'
    BY ONLY <2>2, Zenon DEF Calm
  <2>9. /\ quota' \in Nat /\ quota' >= quota
        /\ disturbed' \subseteq DOMAIN load /\ disturbed \subseteq disturbed'
    BY ONLY <1>1, <2>2, r \in DOMAIN load
  <2> QED
    BY <1>4, <2>6, <2>7, <2>8, <2>9
<1>9. CASE LateQueryEnds(r)
  <2>1. PICK q : q = [queries[r] EXCEPT !.late = @ - 1]
    OBVIOUS
  <2>2. /\ Query(r, q) /\ queries[r].late > 0
        /\ \/ /\ quota > 0 /\ quota' = quota - 1
              /\ disturbed' = disturbed \cup {x \in DOMAIN queries : Under(x)}
           \/ quota' = quota /\ disturbed' = disturbed
    BY <1>9, <2>1, Zenon DEF LateQueryEnds
  <2>3. queries[r].late - 1 \in 0 .. Tries
    <3>1. queries[r].late \in 0 .. Tries
      BY ONLY <1>1 DEF QueriesType
    <3> QED
      BY ONLY <1>3, <2>2, <3>1
  <2>4. /\ q \in QueriesType /\ q.st = queries[r].st /\ q.tries = queries[r].tries
        /\ q.late = queries[r].late - 1 /\ q.result = queries[r].result
    BY ONLY <1>1, <2>1, <2>3 DEF QueriesType
  <2>5. /\ quota' \in Nat /\ disturbed' \subseteq DOMAIN load /\ disturbed \subseteq disturbed'
    BY ONLY <1>1, <2>2
  <2>6. quota' >= quota \/ \A x \in DOMAIN load : Under(x) => x \in disturbed'
    BY ONLY <1>1, <2>2
  <2>7. QueryInv(r, q)'
    <3>1. queries[r].st # "idle"
      BY ONLY <1>1, <2>2 DEF QueryInv
    <3>2. Under(r) => q.tries >= 1 /\ q.late < q.tries
      BY ONLY <1>1, <1>2, <2>4
    <3>3. queries[r].result = "OutOfQuota" => r \in disturbed'
      BY ONLY <1>1, <2>5 DEF QueryInv
    <3> QED
      BY ONLY <1>2, <2>4, <3>1, <3>2, <3>3 DEF QueryInv
  <2>8. Calm(r, q)'
    <3>1. CASE quota' >= quota
      BY ONLY <1>1, <2>4, <2>5, <3>1 DEF Calm
    <3>2. CASE Under(r) => r \in disturbed'
      BY ONLY <2>4, <3>2 DEF Calm
    <3> QED
      BY <2>6, <3>1, <3>2
  <2> QED
    BY <1>4, <2>2, <2>4, <2>5, <2>6, <2>7, <2>8, Zenon
<1>10. CASE Replenished(r)
  <2>1. /\ queries[r].st = "replenish" /\ quota' = quota + Grant
        /\ TryFails(r, queries[r], "OutOfQuota") /\ disturbed' = disturbed
    BY <1>10, Zenon DEF Replenished
  <2>2. "OutOfQuota" \in OdisQueryErrorTypes
    BY DEF OdisQueryErrorTypes
  <2>3. PICK q \in QueriesType :
            /\ Query(r, q) /\ q.late = queries[r].late
            /\ \/ /\ Retries("OutOfQuota", queries[r].tries)
                  /\ q.st = "query" /\ q.result = queries[r].result
                  /\ q.tries = queries[r].tries + 1
               \/ /\ ~Retries("OutOfQuota", queries[r].tries)
                  /\ q.st = "done" /\ q.result = "OutOfQuota"
    <3>1. queries[r] \in QueriesType
      BY <1>1
    <3> QED
      BY ONLY <2>1, <2>2, <3>1, TryFailsTo
  <2>4. quota' \in Nat /\ quota' >= quota /\ quota' > 0
    BY ONLY <1>1, <1>3, <2>1
  <2>5. ~Retries("OutOfQuota", queries[r].tries) => r \in disturbed'
    <3>1. r \notin disturbed => queries[r].tries = 1
      BY ONLY <1>1, <2>1 DEF Calm
    <3>2. Retries("OutOfQuota", 1)
      BY ONLY <1>3 DEF Retries, BailOnErrorTypes
    <3> QED
      BY ONLY <2>1, <3>1, <3>2, Zenon
  <2>6. QueryInv(r, q)'
    <3>1. q.st = "query" => q.tries >= 1 /\ q.late < q.tries /\ q.result = "none"
      BY ONLY <1>1, <1>2, <2>1, <2>3
    <3> QED
      BY ONLY <1>2, <2>1, <2>3, <2>5, <3>1 DEF QueryInv
  <2>7. Calm(r, q)'
    BY ONLY <2>3, <2>4 DEF Calm
  <2> QED
    BY <1>1, <1>4, <2>1, <2>3, <2>4, <2>6, <2>7
<1>11. CASE ReplenishFails(r)
  <2>1. PICK q : q = [queries[r] EXCEPT !.st = "done", !.result = "Exception"]
    OBVIOUS
  <2>2. q \in QueriesType /\ q.st = "done" /\ q.result = "Exception"
    BY ONLY <1>1, <2>1 DEF QueriesType
  <2>3. QueryInv(r, q)' /\ Calm(r, q)'
    BY ONLY <2>2 DEF QueryInv, Calm
  <2>4. Query(r, q) /\ UNCHANGED <<quota, disturbed>>
    BY <1>11, <2>1, Zenon DEF ReplenishFails
  <2>5. quota' \in Nat /\ quota' >= quota /\ disturbed' = disturbed
    BY ONLY <1>1, <2>4
  <2> QED
    BY <1>1, <1>4, <2>2, <2>3, <2>4, <2>5
<1> QED
  BY <1>5, <1>6, <1>7, <1>8, <1>9, <1>10, <1>11, Zenon DEF OdisStep

\* A call of the relayer, from the API's side and from the relayer's.
LEMMA PepperIInv ==
    ASSUME IInv, NEW r \in DOMAIN load,
           \/ DistributedBlindedPepper(r) \/ PepperAnswered(r) \/ PepperTimesOut(r)
           \/ RelayerQueries(r)
    PROVE  IInv'
<1>1. TypeOK /\ RecordsInv /\ LimitInv /\ RulesInv /\ OdisInv
  BY DEF IInv
<1>2. UNCHANGED <<load, enabled, now, records, spent, relayed, refused, admitted, promised, peak>>
  BY Zenon DEF DistributedBlindedPepper, PepperAnswered, PepperTimesOut, RelayerQueries, doorVars
<1>3. CASE DistributedBlindedPepper(r)
  <2>1. Answer(r, "relayer") /\ getPhoneNumberSignature(r)
    BY <1>3, Zenon DEF DistributedBlindedPepper, Answer, Set
  <2>2. /\ requests' \in [DOMAIN load -> RequestsType]
        /\ RecordsInv' /\ LimitInv' /\ RulesInv'
    BY <1>2, <2>1, LeavesIInv
  <2>3. OdisInv' /\ queries' \in [DOMAIN load -> QueriesType] /\ UNCHANGED <<quota, disturbed>>
    BY <1>1, <1>2, <2>1, QueryBegins
  <2>4. TypeOK'
    BY <1>1, <1>2, <2>2, <2>3, TypeParts, TypePartsNext, Zenon
  <2> QED
    BY <2>2, <2>3, <2>4 DEF IInv
<1>4. CASE PepperAnswered(r) \/ PepperTimesOut(r)
  <2>1. Answer(r, "200") \/ Answer(r, "500")
    <3>1. CASE PepperAnswered(r) /\ queries[r].result = "signature"
      BY <3>1 DEF PepperAnswered
    <3>2. CASE PepperAnswered(r) /\ queries[r].result # "signature"
      BY <3>2 DEF PepperAnswered
    <3>3. CASE PepperTimesOut(r)
      BY <3>3 DEF PepperTimesOut
    <3> QED
      BY <1>4, <3>1, <3>2, <3>3
  <2>2. UNCHANGED odisVars
    BY <1>4, Zenon DEF PepperAnswered, PepperTimesOut
  <2>3. UNCHANGED <<gateVars, now, records, spent, admitted, promised, peak>>
    BY <1>2, <2>2, Zenon DEF gateVars
  <2> QED
    BY <2>1, <2>3, AnswerIInv
<1>5. CASE RelayerQueries(r)
  <2>1. OdisStep(r) /\ UNCHANGED requests
    BY <1>5, Zenon DEF RelayerQueries
  <2>2. /\ OdisInv' /\ queries' \in [DOMAIN load -> QueriesType]
        /\ quota' \in Nat /\ disturbed' \subseteq DOMAIN load
    BY <1>1, <1>2, <2>1, OdisStepInv
  <2>3. RecordsInv' /\ LimitInv' /\ RulesInv'
    BY <1>1, <1>2, <2>1, RecordsFrame, LimitQuiet, Zenon DEF RulesInv, Passed
  <2>4. TypeOK'
    BY <1>1, <1>2, <2>1, <2>2, TypeParts, TypePartsNext, Zenon
  <2> QED
    BY <2>2, <2>3, <2>4 DEF IInv
<1> QED
  BY <1>3, <1>4, <1>5, Zenon

-----------------------------------------------------------------------------
(* The specification *)

LEMMA InitIInv == Init => IInv
<1> SUFFICES ASSUME Init PROVE IInv
  OBVIOUS
<1>1. /\ load \in Loads /\ enabled \in EnabledFor(load)
      /\ requests = [r \in DOMAIN load |-> New] /\ queries = [r \in DOMAIN load |-> NoQuery]
      /\ now = 0 /\ records = <<>> /\ spent = {} /\ admitted = <<>>
      /\ promised = FALSE /\ peak = 0 /\ quota = FirstQuota /\ disturbed = {}
  BY DEF Init
<1>2. /\ Limit \in Nat \ {0} /\ Ttl \in Nat \ {0} /\ MaxTime \in Nat
      /\ Tries \in Nat \ {0, 1} /\ FirstQuota \in Nat
  BY FrontAssumption, OdisAssumption
<1>3. \A r \in DOMAIN load : requests[r] = New /\ queries[r] = NoQuery
  BY <1>1
<1>4. New \in RequestsType /\ New.st = "new"
  BY DEF New, RequestsType
<1>5. /\ NoQuery \in QueriesType /\ NoQuery.st = "idle" /\ NoQuery.late = 0
      /\ NoQuery.result = "none"
  <2>1. 0 \in 0 .. Tries
    BY ONLY <1>2
  <2> QED
    BY ONLY <2>1 DEF NoQuery, QueriesType
<1>6. TypeOK
  <2>1. requests \in [DOMAIN load -> RequestsType] /\ queries \in [DOMAIN load -> QueriesType]
    BY <1>1, <1>4, <1>5, Zenon
  <2>2. now \in 0 .. MaxTime /\ quota \in Nat
    BY ONLY <1>1, <1>2
  <2>3. promised \in BOOLEAN /\ peak \in Nat
    BY ONLY <1>1, Zenon
  <2>4. /\ \A k \in DOMAIN records : records[k] \in (now + 1) .. (now + Ttl)
        /\ spent \subseteq {load[r].token : r \in DOMAIN load} /\ disturbed \subseteq DOMAIN load
    BY ONLY <1>1
  <2> QED
    BY ONLY <1>1, <2>1, <2>2, <2>3, <2>4, TypeParts, Zenon
<1>7. RecordsInv
  BY ONLY <1>1 DEF RecordsInv
<1>8. LimitInv
  <2>1. Adding = {}
    BY <1>3, <1>4 DEF Adding
  <2>2. Cardinality(Adding) = 0
    BY <2>1, FS_EmptySet
  <2> QED
    BY ONLY <1>1, <1>2, <1>3, <1>4, <2>2 DEF LimitInv, Adds
<1>9. RulesInv
  BY ONLY <1>3, <1>4 DEF RulesInv, Passed
<1>10. OdisInv
  BY ONLY <1>3, <1>5 DEF OdisInv, QueryInv, Calm
<1> QED
  BY ONLY <1>6, <1>7, <1>8, <1>9, <1>10 DEF IInv

LEMMA NextIInv == IInv /\ [Next]_vars => IInv'
<1> SUFFICES ASSUME IInv, [Next]_vars PROVE IInv'
  OBVIOUS
<1>1. CASE UNCHANGED vars
  <2>1. /\ UNCHANGED <<load, enabled, now, records, spent, admitted, promised, peak>>
        /\ UNCHANGED <<requests, quota, queries, disturbed>> /\ UNCHANGED odisVars
    BY <1>1, Zenon DEF vars, doorVars, odisVars
  <2>2. TypeOK'
    BY <2>1, TypeParts, TypePartsNext, Zenon DEF IInv
  <2>3. RecordsInv' /\ OdisInv'
    BY <2>1, RecordsFrame, OdisFrame, Zenon DEF IInv
  <2>4. LimitInv' /\ RulesInv'
    BY <2>1, LimitQuiet, Zenon DEF IInv, RulesInv, Passed
  <2> QED
    BY <2>2, <2>3, <2>4 DEF IInv
<1>2. CASE Tick
  BY <1>2, TickIInv
<1>3. ASSUME NEW r \in DOMAIN load, Handler(r)
      PROVE  IInv'
  <2>1. CASE ReadRecords(r)
    BY <2>1, ReadRecordsIInv
  <2>2. CASE AddRecord(r)
    BY <2>2, AddRecordIInv
  <2>3. CASE DailyCapRule(r) \/ CaptchaRule(r) \/ DeviceAttestationRule(r) \/ SignatureRule(r)
    BY <2>3, RuleIInv
  <2>4. CASE StartSession(r)
    BY <2>4, StartSessionIInv
  <2>5. CASE SubmitMetaTransaction(r) \/ RequestSubsidisedAttestations(r)
    BY <2>5, MetaTransactionIInv
  <2>6. CASE \/ DistributedBlindedPepper(r) \/ PepperAnswered(r) \/ PepperTimesOut(r)
             \/ RelayerQueries(r)
    BY <2>6, PepperIInv
  <2> QED
    BY <1>3, <2>1, <2>2, <2>3, <2>4, <2>5, <2>6, Zenon DEF Handler
<1> QED
  BY <1>1, <1>2, <1>3, Zenon DEF Next

LEMMA SpecIInv == Spec => []IInv
  BY InitIInv, NextIInv, PTL DEF Spec

\* Every variable keeps its type; in particular a record of the throttler is
\* gone when its ttl is over, and no query is left under way more often than
\* the decorator tries.
THEOREM TypeCorrect == Spec => []TypeOK
<1>1. IInv => TypeOK
  BY DEF IInv
<1> QED
  BY <1>1, SpecIInv, PTL

\* handleRequest of the throttler: for any limit and ttl, at most limit
\* startSession requests are admitted in any period of ttl, and one for every
\* further request that was between getRecord and addRecord at the same time.
THEOREM LimitIsKept == Spec => []LimitPerPeriod
<1>1. IInv => LimitPerPeriod
  <2> SUFFICES ASSUME IInv
               PROVE  Cardinality({k \in DOMAIN admitted : admitted[k] + Ttl > now}) < Limit + peak
    BY DEF LimitPerPeriod
  <2> DEFINE recent == {k \in DOMAIN admitted : admitted[k] + Ttl > now}
             n == Len(records)
             m == Len(admitted)
  <2>0. n \in Nat /\ n < Limit + peak /\ peak \in Nat
    <3>1. /\ Cardinality(Adding) \in Nat /\ peak \in Nat /\ Limit \in Nat /\ Len(records) \in Nat
          /\ Len(records) + Cardinality(Adding) < Limit + peak
      BY FrontAssumption, AddingFinite, TypeParts DEF IInv, RecordsInv, LimitInv
    <3> QED
      BY <3>1
  <2>1. /\ n \in Nat /\ m \in Nat /\ n =< m /\ Limit \in Nat /\ Ttl \in Nat
        /\ DOMAIN admitted = 1 .. m /\ \A k \in 1 .. m : admitted[k] \in Nat
        /\ \A k \in 1 .. (m - n) : admitted[k] + Ttl =< now
        /\ now \in 0 .. MaxTime
    BY FrontAssumption, TypeParts DEF IInv, RecordsInv, LimitInv
  <2>2. recent \in SUBSET ((m - n) + 1 .. m)
    <3>1. ASSUME NEW k \in recent
          PROVE  k \in (m - n) + 1 .. m
      <4>1. k \in 1 .. m /\ admitted[k] + Ttl > now /\ admitted[k] \in Nat
        BY <2>1
      <4>2. k \notin 1 .. (m - n)
        BY ONLY <2>1, <4>1
      <4> HIDE DEF n, m
      <4> QED
        BY ONLY <2>1, <4>1, <4>2
    <3> QED
      BY ONLY <3>1, Zenon
  <2> HIDE DEF n, m, recent
  <2>3. (m - n) + 1 \in Int /\ m \in Int
    BY ONLY <2>1
  <2>4. /\ IsFiniteSet((m - n) + 1 .. m)
        /\ Cardinality((m - n) + 1 .. m)
                = IF (m - n) + 1 > m THEN 0 ELSE m - ((m - n) + 1) + 1
    BY ONLY <2>3, FS_Interval
  <2>5. (IF (m - n) + 1 > m THEN 0 ELSE m - ((m - n) + 1) + 1) = n
    BY ONLY <2>1
  <2>6. IsFiniteSet(recent) /\ Cardinality(recent) =< Cardinality((m - n) + 1 .. m)
    BY ONLY <2>2, <2>4, FS_Subset
  <2>7. Cardinality(recent) \in Nat
    BY ONLY <2>6, FS_CardinalityType
  <2>8. Cardinality(recent) < Limit + peak
    BY ONLY <2>0, <2>1, <2>4, <2>5, <2>6, <2>7
  <2> QED
    BY <2>8 DEF recent
<1> QED
  BY <1>1, SpecIInv, PTL

\* The promise of ready: after it was answered, and until a startSession is
\* admitted, no step throttles a startSession.
THEOREM ReadyIsATruePromise == Spec => ReadyIsKept
<1> DEFINE Kept == \A r \in DOMAIN load :
                        promised /\ load[r].endpoint = "startSession" /\ requests[r].st = "new"
                            => requests'[r].st # "429"
<1>1. IInv /\ [Next]_vars => [Kept]_vars
  <2> SUFFICES ASSUME IInv, Next, NEW r \in DOMAIN load, promised,
                      load[r].endpoint = "startSession", requests[r].st = "new"
               PROVE  requests'[r].st # "429"
    BY DEF Kept
  <2>1. /\ TypeOK /\ Len(records) \in Nat /\ Limit \in Nat /\ Len(records) < Limit
        /\ requests \in [DOMAIN load -> RequestsType]
    BY FrontAssumption, TypeParts DEF IInv, RecordsInv, LimitInv
  <2>2. CASE UNCHANGED requests
    BY <2>2
  <2>3. CASE \E q \in DOMAIN load : Handler(q)
    <3>1. PICK q \in DOMAIN load : Handler(q)
      BY <2>3
    <3>2. CASE q = r
      <4>1. ReadRecords(r) \/ UNCHANGED requests
        BY <3>1, <3>2, Zenon DEF Handler, AddRecord, DailyCapRule, CaptchaRule,
            DeviceAttestationRule, SignatureRule, Verifying, StartSession,
            SubmitMetaTransaction, RequestSubsidisedAttestations,
            DistributedBlindedPepper, PepperAnswered, PepperTimesOut, RelayerQueries
      <4>2. CASE ReadRecords(r)
        <5>1. ~Throttled(Len(records))
          BY ONLY <2>1 DEF Throttled
        <5>2. requests' = [requests EXCEPT ![r] = [New EXCEPT !.st = "add"]]
          BY <4>2, <5>1 DEF ReadRecords, checkOnly, Set
        <5> QED
          BY <2>1, <5>2 DEF New
      <4> QED
        BY <2>2, <4>1, <4>2
    <3>3. CASE q # r
      <4>1. UNCHANGED requests \/ \E w : requests' = [requests EXCEPT ![q] = w]
        BY <3>1, Zenon DEF Handler, ReadRecords, AddRecord, DailyCapRule, CaptchaRule,
            DeviceAttestationRule, SignatureRule, StartSession,
            SubmitMetaTransaction, RequestSubsidisedAttestations,
            DistributedBlindedPepper, PepperAnswered, PepperTimesOut, RelayerQueries,
            Answer, Set, Verdict
      <4>2. requests'[r] = requests[r]
        BY <2>1, <3>3, <4>1
      <4> QED
        BY <4>2
    <3> QED
      BY <3>2, <3>3
  <2> QED
    BY <2>2, <2>3 DEF Next, Tick
<1> QED
  BY <1>1, SpecIInv, PTL DEF Spec, ReadyIsKept

\* GatewayService.verify: for any enabled rules, a session is started only by
\* a request that passed each of them, and no two sessions by one captcha token.
THEOREM OnlyVerifiedSessions == Spec => []SessionsAreVerified
<1>1. IInv => SessionsAreVerified
  <2> SUFFICES ASSUME IInv, NEW r \in DOMAIN load, requests[r].st = "session"
               PROVE  /\ "SIGNATURE" \in enabled => load[r].signed
                      /\ "DEVICE_ATTESTATION" \in enabled => load[r].device # "none"
                      /\ "CAPTCHA" \in enabled /\ load[r].token # BypassToken =>
                            /\ load[r].token \in spent
                            /\ \A q \in DOMAIN load \ {r} :
                                requests[q].st = "session" => load[q].token # load[r].token
    BY Zenon DEF SessionsAreVerified
  <2>1. \A q \in DOMAIN load : \A rule : requests[q].st = "session" /\ rule \in enabled => Passed(q, rule)
    BY Zenon DEF Passed
  <2>2. RulesInv
    BY DEF IInv
  <2> QED
    BY <2>1, <2>2, Zenon DEF RulesInv
<1> QED
  BY <1>1, SpecIInv, PTL

\* getPhoneNumberSignature: with at least two tries, a call that neither lost
\* a try to the timeout nor quota to another query never ends out of quota.
THEOREM TransferIsNotInVain == Spec => []OutOfQuotaOnlyIfDisturbed
<1>1. IInv => OutOfQuotaOnlyIfDisturbed
  BY DEF IInv, OdisInv, QueryInv, OutOfQuotaOnlyIfDisturbed
<1> QED
  BY <1>1, SpecIInv, PTL

-----------------------------------------------------------------------------
(* Meta-transactions: the batch's decoder and the wallet *)

\* Digits put behind those of an offset make it a number at least as large as
\* their sum, and the number itself behind an offset of 0.
LEMMA ConcatBounds ==
    ASSUME NEW from \in Nat, NEW l \in Nat
    PROVE  /\ Concat(from, l) \in Nat
           /\ from = 0 => Concat(from, l) = l
           /\ from + l =< Concat(from, l)
<1> DEFINE n == l + 1
<1> DEFINE Tens(f) == f = [d \in 1 .. n |-> IF d = 1 THEN 10 ELSE 10 * f[d - 1]]
<1> DEFINE tens == CHOOSE f : Tens(f)
<1> DEFINE step == [i \in 1 .. n |-> [x \in Nat |-> 10 * x]]
<1>1. n \in Nat
  OBVIOUS
<1> HIDE DEF n
<1>2. step \in [1 .. n -> [Nat -> Nat]]
  OBVIOUS
<1>3. PICK f \in [1 .. n -> Nat] : Iterates(f, n, 10, step)
  <2>1. 10 \in Nat
    OBVIOUS
  <2> HIDE DEF step
  <2> QED
    BY <1>1, <1>2, <2>1, Recursion, Zenon
<1>4. Tens(f)
  <2>1. ASSUME NEW i \in 1 .. n
        PROVE  (IF i = 1 THEN 10 ELSE step[i - 1][f[i - 1]]) = IF i = 1 THEN 10 ELSE 10 * f[i - 1]
    <3>1. CASE i # 1
      <4>1. i - 1 \in 1 .. n /\ f[i - 1] \in Nat
        BY <1>1, <3>1
      <4>2. step[i - 1] = [x \in Nat |-> 10 * x]
        BY <4>1
      <4> HIDE DEF step
      <4> QED
        BY <3>1, <4>1, <4>2
    <3> HIDE DEF step
    <3> QED
      BY <3>1
  <2>2. f = [i \in 1 .. n |-> IF i = 1 THEN 10 ELSE step[i - 1][f[i - 1]]]
    BY <1>3, Zenon DEF Iterates
  <2> HIDE DEF step
  <2> QED
    BY <2>1, <2>2, Zenon
<1>5. Tens(tens)
  BY <1>4, Zenon
<1> DEFINE larger == {tens[d] : d \in {e \in 1 .. n : l < tens[e]}}
<1>6. Concat(from, l) = from * Min(larger) + l
  BY Zenon DEF Concat, n
<1> HIDE DEF tens, step
<1>7. \A d \in 1 .. n : tens[d] = IF d = 1 THEN 10 ELSE 10 * tens[d - 1]
  BY <1>5
\* A power of ten is larger than its exponent.
<1> DEFINE Growing == {d \in 1 .. n : tens[d] \in Nat /\ d =< tens[d]}
<1>8. 1 .. n \subseteq Growing
  <2>1. 1 \in 1 .. n => 1 \in Growing
    BY <1>7
  <2>2. ASSUME NEW d \in 2 .. n, d - 1 \in Growing
        PROVE  d \in Growing
    <3>1. d \in 1 .. n /\ d # 1 /\ tens[d - 1] \in Nat /\ d - 1 =< tens[d - 1]
      BY <1>1, <2>2
    <3>2. tens[d] = 10 * tens[d - 1]
      BY <1>7, <3>1
    <3> QED
      BY <3>1, <3>2
  <2> HIDE DEF Growing
  <2> QED
    BY <1>1, <2>1, <2>2, Induction
<1>9. \A d \in 1 .. n : tens[d] \in Nat /\ d =< tens[d]
  BY <1>8
<1>10. Min(larger) \in Nat /\ 1 =< Min(larger)
  <2>1. larger \subseteq Nat
    BY <1>9
  <2>2. tens[n] \in larger
    BY <1>1, <1>9 DEF n
  <2>3. \A x \in larger : 1 =< x
    BY <1>9
  <2> HIDE DEF larger
  <2>4. Min(larger) \in larger
    BY <2>1, <2>2, MinOfNaturals
  <2> QED
    BY <2>1, <2>3, <2>4
<1> HIDE DEF larger
<1> DEFINE m == Min(larger)
<1>11. from * m \in Nat /\ from =< from * m /\ (from = 0 => from * m = 0)
  <2>1. m \in Nat /\ 1 =< m
    BY <1>10
  <2> HIDE DEF m
  <2>2. \A k \in Nat : from * (k + 1) = from * k + from /\ from * k \in Nat
    OBVIOUS
  <2>3. m - 1 \in Nat /\ m = (m - 1) + 1
    BY <2>1
  <2>4. from * m = from * (m - 1) + from /\ from * (m - 1) \in Nat
    BY <2>2, <2>3, Zenon
  <2>5. from = 0 => from * m = 0
    BY <2>1
  <2> QED
    BY <2>4, <2>5
<1> QED
  BY <1>6, <1>11

\* The offsets of a batch's transactions: the first is 0, and each is the one
\* before it with the length there behind it.
LEMMA OffsetRecursion ==
    ASSUME NEW lengths \in Seq(Nat)
    PROVE  \A k \in 1 .. Len(lengths) :
               /\ offset(lengths, k) \in Nat
               /\ k = 1 => offset(lengths, k) = 0
               /\ k # 1 => offset(lengths, k) = Concat(offset(lengths, k - 1), lengths[k - 1])
<1> DEFINE n == Len(lengths)
<1> DEFINE Begins(f) == f = [i \in 1 .. n |-> IF i = 1 THEN 0 ELSE Concat(f[i - 1], lengths[i - 1])]
<1> DEFINE begins == CHOOSE f : Begins(f)
<1> DEFINE step == [i \in 1 .. n |-> [x \in Nat |-> Concat(x, lengths[i])]]
<1>1. n \in Nat /\ lengths \in [1 .. n -> Nat]
  OBVIOUS
<1> HIDE DEF n
<1>2. step \in [1 .. n -> [Nat -> Nat]]
  <2>1. \A i \in 1 .. n : \A x \in Nat : Concat(x, lengths[i]) \in Nat
    BY <1>1, ConcatBounds
  <2> QED
    BY <2>1
<1>3. PICK f \in [1 .. n -> Nat] :
          Iterates(f, n, 0, step)
  <2>1. 0 \in Nat
    OBVIOUS
  <2> HIDE DEF step
  <2> QED
    BY <1>1, <1>2, <2>1, Recursion, Zenon
<1>4. Begins(f)
  <2>1. ASSUME NEW i \in 1 .. n
        PROVE  (IF i = 1 THEN 0 ELSE step[i - 1][f[i - 1]])
                = IF i = 1 THEN 0 ELSE Concat(f[i - 1], lengths[i - 1])
    <3>1. CASE i # 1
      <4>1. i - 1 \in 1 .. n /\ f[i - 1] \in Nat
        BY <1>1, <3>1
      <4>2. step[i - 1] = [x \in Nat |-> Concat(x, lengths[i - 1])]
        BY <4>1
      <4> HIDE DEF step
      <4> QED
        BY <3>1, <4>1, <4>2
    <3> HIDE DEF step
    <3> QED
      BY <3>1
  <2>2. f = [i \in 1 .. n |-> IF i = 1 THEN 0 ELSE step[i - 1][f[i - 1]]]
    BY <1>3, Zenon DEF Iterates
  <2> HIDE DEF step
  <2> QED
    BY <2>1, <2>2, Zenon
<1>5. Begins(begins)
  BY <1>4, Zenon
<1>6. \A k : offset(lengths, k) = begins[k]
  BY Zenon DEF offset, n
<1> HIDE DEF begins, step
<1>7. \A i \in 1 .. n : begins[i] = IF i = 1 THEN 0 ELSE Concat(begins[i - 1], lengths[i - 1])
  BY <1>5
<1> DEFINE Typed == {i \in 1 .. n : begins[i] \in Nat}
<1>8. 1 .. n \subseteq Typed
  <2>1. 1 \in 1 .. n => 1 \in Typed
    BY <1>7
  <2>2. ASSUME NEW i \in 2 .. n, i - 1 \in Typed
        PROVE  i \in Typed
    <3>1. i \in 1 .. n /\ i # 1 /\ lengths[i - 1] \in Nat /\ begins[i - 1] \in Nat
      BY <1>1, <2>2
    <3>2. begins[i] = Concat(begins[i - 1], lengths[i - 1])
      BY <1>7, <3>1
    <3>3. Concat(begins[i - 1], lengths[i - 1]) \in Nat
      BY <3>1, ConcatBounds
    <3> QED
      BY <3>1, <3>2, <3>3
  <2> HIDE DEF Typed
  <2> QED
    BY <1>1, <2>1, <2>2, Induction
<1>9. \A i \in 1 .. n : begins[i] \in Nat
  BY <1>8
<1> QED
  BY <1>6, <1>7, <1>9 DEF n

\* And what is left of its data: first all of it, then each time without what
\* the call before has taken.
LEMMA RestRecursion ==
    ASSUME NEW b, b.lengths \in Seq(Nat), NEW D, b.data \in Seq(D)
    PROVE  \A k \in 1 .. Len(b.lengths) :
               /\ Rest(b, k) \in Seq(D)
               /\ Rest(b, k) = IF k = 1 THEN b.data
                               ELSE SubSeq(Rest(b, k - 1), b.lengths[k - 1] + 1, Len(Rest(b, k - 1)))
<1> DEFINE n == Len(b.lengths)
<1> DEFINE After(i, s) == SubSeq(s, b.lengths[i] + 1, Len(s))
<1> DEFINE IsRest(f) ==
        f = [i \in 1 .. n |->
                IF i = 1 THEN b.data
                ELSE SubSeq(f[i - 1], b.lengths[i - 1] + 1, Len(f[i - 1]))]
<1> DEFINE rest == CHOOSE f : IsRest(f)
<1> DEFINE step == [i \in 1 .. n |-> [s \in Seq(D) |-> After(i, s)]]
<1>1. n \in Nat /\ \A i \in 1 .. n : b.lengths[i] \in Nat
  OBVIOUS
<1> HIDE DEF n
<1>0. \A i \in 1 .. n : \A s \in Seq(D) : After(i, s) \in Seq(D)
  BY <1>1, SubSeqProperties
<1>2. step \in [1 .. n -> [Seq(D) -> Seq(D)]]
  <2> HIDE DEF After
  <2> QED
    BY <1>0
<1>3. PICK f \in [1 .. n -> Seq(D)] : Iterates(f, n, b.data, step)
  <2> HIDE DEF step
  <2> QED
    BY <1>1, <1>2, Recursion, Zenon
<1>4. IsRest(f)
  <2>1. ASSUME NEW i \in 1 .. n
        PROVE  (IF i = 1 THEN b.data ELSE step[i - 1][f[i - 1]])
                = IF i = 1 THEN b.data ELSE After(i - 1, f[i - 1])
    <3>1. CASE i # 1
      <4>1. i - 1 \in 1 .. n /\ f[i - 1] \in Seq(D)
        BY <1>1, <3>1
      <4>2. step[i - 1] = [s \in Seq(D) |-> After(i - 1, s)]
        BY <4>1
      <4> HIDE DEF step, After
      <4> QED
        BY <3>1, <4>1, <4>2
    <3> HIDE DEF step
    <3> QED
      BY <3>1
  <2>2. f = [i \in 1 .. n |-> IF i = 1 THEN b.data ELSE step[i - 1][f[i - 1]]]
    BY <1>3, Zenon DEF Iterates
  <2> HIDE DEF step
  <2> QED
    BY <2>1, <2>2, Zenon
<1>5. IsRest(rest)
  BY <1>4, Zenon
<1>6. \A k : Rest(b, k) = rest[k]
  BY Zenon DEF Rest, n
<1> HIDE DEF rest, step
<1>7. \A i \in 1 .. n :
          rest[i] = IF i = 1 THEN b.data
                    ELSE SubSeq(rest[i - 1], b.lengths[i - 1] + 1, Len(rest[i - 1]))
  BY <1>5, Zenon
<1> DEFINE Typed == {i \in 1 .. n : rest[i] \in Seq(D)}
<1>8. 1 .. n \subseteq Typed
  <2>1. 1 \in 1 .. n => 1 \in Typed
    BY <1>7
  <2>2. ASSUME NEW i \in 2 .. n, i - 1 \in Typed
        PROVE  i \in Typed
    <3>1. i \in 1 .. n /\ i # 1 /\ b.lengths[i - 1] + 1 \in Int /\ rest[i - 1] \in Seq(D)
      BY <1>1, <2>2
    <3>2. rest[i] = SubSeq(rest[i - 1], b.lengths[i - 1] + 1, Len(rest[i - 1]))
      BY <1>7, <3>1
    <3>3. rest[i] \in Seq(D)
      <4>1. i - 1 \in 1 .. n
        BY <1>1
      <4>2. After(i - 1, rest[i - 1]) \in Seq(D)
        BY <1>0, <3>1, <4>1, Zenon
      <4> QED
        BY <3>2, <4>2, Zenon
    <3> QED
      BY <3>1, <3>3
  <2> HIDE DEF Typed
  <2> QED
    BY <1>1, <2>1, <2>2, Induction
<1>9. \A i \in 1 .. n : rest[i] \in Seq(D)
  BY <1>8
<1> QED
  BY <1>6, <1>7, <1>9, Zenon DEF n

\* A part of a part.
LEMMA SubSeqOfRest ==
    ASSUME NEW D, NEW s \in Seq(D), NEW o \in 0 .. Len(s), NEW l \in 0 .. Len(s) - o
    PROVE  /\ Len(SubSeq(s, o + 1, Len(s))) = Len(s) - o
           /\ SubSeq(SubSeq(s, o + 1, Len(s)), 1, l) = SubSeq(s, o + 1, o + l)
           /\ SubSeq(SubSeq(s, o + 1, Len(s)), l + 1, Len(s) - o) = SubSeq(s, o + l + 1, Len(s))
<1>1. Len(s) \in Nat /\ o \in Nat /\ l \in Nat /\ o + l =< Len(s)
  OBVIOUS
<1> DEFINE t == SubSeq(s, o + 1, Len(s))
<1>2. t \in Seq(D) /\ Len(t) = Len(s) - o /\ \A i \in 1 .. Len(t) : t[i] = s[o + i]
  <2>1. /\ t \in Seq(D)
        /\ Len(t) = IF o + 1 =< Len(s) THEN Len(s) - (o + 1) + 1 ELSE 0
        /\ \A i \in 1 .. Len(s) - (o + 1) + 1 : t[i] = s[o + 1 + i - 1]
    BY <1>1, SubSeqProperties
  <2> HIDE DEF t
  <2>2. Len(t) = Len(s) - o
    BY <1>1, <2>1
  <2>3. ASSUME NEW i \in 1 .. Len(t) PROVE t[i] = s[o + i]
    <3>1. i \in 1 .. Len(s) - (o + 1) + 1 /\ o + 1 + i - 1 = o + i
      BY <1>1, <2>2
    <3> QED
      BY <2>1, <3>1
  <2> QED
    BY <2>1, <2>2, <2>3
<1> HIDE DEF t
<1>3. SubSeq(t, 1, l) = SubSeq(s, o + 1, o + l)
  <2> DEFINE u == SubSeq(t, 1, l)
  <2> DEFINE v == SubSeq(s, o + 1, o + l)
  <2>1. u \in Seq(D) /\ Len(u) = l /\ \A i \in 1 .. l : u[i] = t[i]
    <3>1. /\ u \in Seq(D) /\ Len(u) = IF 1 =< l THEN l - 1 + 1 ELSE 0
          /\ \A i \in 1 .. l - 1 + 1 : u[i] = t[1 + i - 1]
      BY <1>1, <1>2, SubSeqProperties
    <3> HIDE DEF u
    <3> QED
      BY <1>1, <3>1
  <2>2. v \in Seq(D) /\ Len(v) = l /\ \A i \in 1 .. l : v[i] = s[o + i]
    <3>1. /\ v \in Seq(D) /\ Len(v) = IF o + 1 =< o + l THEN o + l - (o + 1) + 1 ELSE 0
          /\ \A i \in 1 .. o + l - (o + 1) + 1 : v[i] = s[o + 1 + i - 1]
      BY <1>1, SubSeqProperties
    <3> HIDE DEF v
    <3>2. \A i \in 1 .. l : i \in 1 .. o + l - (o + 1) + 1 /\ o + 1 + i - 1 = o + i
      BY <1>1
    <3> QED
      BY <1>1, <3>1, <3>2
  <2> HIDE DEF u, v
  <2>3. \A i \in 1 .. l : u[i] = v[i]
    <3>1. \A i \in 1 .. l : i \in 1 .. Len(t)
      BY <1>1, <1>2
    <3> QED
      BY <1>2, <2>1, <2>2, <3>1
  <2>4. u = v
    BY <2>1, <2>2, <2>3, SeqEqual
  <2> QED
    BY <2>4 DEF u, v
<1>4. SubSeq(t, l + 1, Len(s) - o) = SubSeq(s, o + l + 1, Len(s))
  <2> DEFINE u == SubSeq(t, l + 1, Len(s) - o)
  <2> DEFINE v == SubSeq(s, o + l + 1, Len(s))
  <2> DEFINE n == Len(s) - o - l
  <2>1. u \in Seq(D) /\ Len(u) = n /\ \A i \in 1 .. n : u[i] = t[l + i]
    <3>1. /\ u \in Seq(D) /\ Len(u) = IF l + 1 =< Len(s) - o THEN Len(s) - o - (l + 1) + 1 ELSE 0
          /\ \A i \in 1 .. Len(s) - o - (l + 1) + 1 : u[i] = t[l + 1 + i - 1]
      BY <1>1, <1>2, SubSeqProperties
    <3> HIDE DEF u
    <3>2. \A i \in 1 .. n : i \in 1 .. Len(s) - o - (l + 1) + 1 /\ l + 1 + i - 1 = l + i
      BY <1>1
    <3> QED
      BY <1>1, <3>1, <3>2
  <2>2. v \in Seq(D) /\ Len(v) = n /\ \A i \in 1 .. n : v[i] = s[o + l + i]
    <3>1. /\ v \in Seq(D) /\ Len(v) = IF o + l + 1 =< Len(s) THEN Len(s) - (o + l + 1) + 1 ELSE 0
          /\ \A i \in 1 .. Len(s) - (o + l + 1) + 1 : v[i] = s[o + l + 1 + i - 1]
      BY <1>1, SubSeqProperties
    <3> HIDE DEF v
    <3>2. \A i \in 1 .. n : i \in 1 .. Len(s) - (o + l + 1) + 1 /\ o + l + 1 + i - 1 = o + l + i
      BY <1>1
    <3> QED
      BY <1>1, <3>1, <3>2
  <2> HIDE DEF u, v
  <2>3. \A i \in 1 .. n : u[i] = v[i]
    <3>1. ASSUME NEW i \in 1 .. n PROVE t[l + i] = s[o + l + i]
      <4>1. l + i \in 1 .. Len(t) /\ o + (l + i) = o + l + i
        BY <1>1, <1>2
      <4> QED
        BY <1>2, <4>1
    <3> QED
      BY <2>1, <2>2, <3>1
  <2>4. u = v
    BY <2>1, <2>2, <2>3, SeqEqual
  <2> QED
    BY <2>4 DEF u, v
<1> QED
  BY <1>2, <1>3, <1>4 DEF t

LEMMA SubSeqWhole ==
    ASSUME NEW D, NEW s \in Seq(D)
    PROVE  SubSeq(s, 1, Len(s)) = s
<1> DEFINE t == SubSeq(s, 1, Len(s))
<1>1. /\ t \in Seq(D) /\ Len(t) = IF 1 =< Len(s) THEN Len(s) - 1 + 1 ELSE 0
      /\ \A i \in 1 .. Len(s) - 1 + 1 : t[i] = s[1 + i - 1]
  <2>1. Len(s) \in Nat
    OBVIOUS
  <2> QED
    BY <2>1, SubSeqProperties
<1> HIDE DEF t
<1>2. Len(s) \in Nat
  OBVIOUS
<1>3. Len(t) = Len(s) /\ \A i \in 1 .. Len(t) : t[i] = s[i]
  BY <1>1, <1>2
<1>4. t = s
  BY <1>1, <1>3, SeqEqual
<1> QED
  BY <1>4 DEF t

\* In a batch of two calls, what is left for a call is what lies behind its
\* offset, as long as no call takes more than there is.
LEMMA RestBeginsAtOffset ==
    ASSUME NEW b, b.lengths \in Seq(Nat), Len(b.lengths) =< 2, NEW D, b.data \in Seq(D),
           \A k \in 1 .. Len(b.lengths) : b.lengths[k] =< Len(Rest(b, k))
    PROVE  \A k \in 1 .. Len(b.lengths) :
               /\ offset(b.lengths, k) \in 0 .. Len(b.data)
               /\ k = 1 => offset(b.lengths, k) = 0
               /\ k # 1 => k = 2 /\ offset(b.lengths, k) = b.lengths[1]
               /\ b.lengths[k] \in 0 .. Len(b.data) - offset(b.lengths, k)
               /\ Rest(b, k) = SubSeq(b.data, offset(b.lengths, k) + 1, Len(b.data))
<1> DEFINE n == Len(b.lengths)
<1> DEFINE o(k) == offset(b.lengths, k)
<1>1. n \in 0 .. 2 /\ Len(b.data) \in Nat /\ \A k \in 1 .. n : b.lengths[k] \in Nat
  <2>1. n \in Nat /\ n =< 2 /\ Len(b.data) \in Nat
    OBVIOUS
  <2>2. \A k \in 1 .. n : b.lengths[k] \in Nat
    OBVIOUS
  <2> HIDE DEF n
  <2>3. n \in 0 .. 2
    BY <2>1
  <2> QED
    BY <2>1, <2>2, <2>3
<1>2. \A k \in 1 .. n :
          /\ o(k) \in Nat
          /\ k = 1 => o(k) = 0
          /\ k # 1 => o(k) = Concat(o(k - 1), b.lengths[k - 1])
  BY OffsetRecursion
<1>3. \A k \in 1 .. n :
          Rest(b, k) = IF k = 1 THEN b.data
                       ELSE SubSeq(Rest(b, k - 1), b.lengths[k - 1] + 1, Len(Rest(b, k - 1)))
  BY RestRecursion
<1>4. \A k \in 1 .. n : b.lengths[k] =< Len(Rest(b, k))
  OBVIOUS
<1> HIDE DEF n, o
<1>5. ASSUME NEW k \in 1 .. n
      PROVE  /\ o(k) \in 0 .. Len(b.data)
             /\ k = 1 => o(k) = 0
             /\ k # 1 => k = 2 /\ o(k) = b.lengths[1]
             /\ b.lengths[k] \in 0 .. Len(b.data) - o(k)
             /\ Rest(b, k) = SubSeq(b.data, o(k) + 1, Len(b.data))
  <2>1. 1 \in 1 .. n /\ o(1) = 0 /\ Rest(b, 1) = b.data
    BY <1>1, <1>2, <1>3
  <2>2. b.lengths[1] \in 0 .. Len(b.data)
    BY <1>1, <1>4, <2>1
  <2>3. CASE k = 1
    <3>1. SubSeq(b.data, 0 + 1, Len(b.data)) = b.data
      <4>1. SubSeq(b.data, 1, Len(b.data)) = b.data
        BY SubSeqWhole
      <4> QED
        BY <4>1, 0 + 1 = 1
    <3> QED
      BY <1>1, <2>1, <2>2, <2>3, <3>1
  <2>4. CASE k # 1
    <3>1. k = 2 /\ k - 1 = 1
      BY <1>1, <2>4
    <3>2. o(k) = Concat(0, b.lengths[1]) /\ b.lengths[1] \in Nat
      BY <1>1, <1>2, <2>1, <2>4, <3>1
    <3>3. o(k) = b.lengths[1]
      BY <3>2, ConcatBounds
    <3>4. Rest(b, k) = SubSeq(b.data, b.lengths[1] + 1, Len(b.data))
      BY <1>3, <2>1, <2>4, <3>1, Zenon
    <3>5. Len(Rest(b, k)) = Len(b.data) - b.lengths[1]
      <4>1. 0 \in 0 .. Len(b.data) - b.lengths[1]
        BY <1>1, <2>2
      <4> QED
        BY <2>2, <3>4, <4>1, SubSeqOfRest
    <3>6. b.lengths[k] \in 0 .. Len(b.data) - b.lengths[1]
      BY <1>1, <1>4, <2>2, <3>5
    <3> QED
      BY <2>2, <2>4, <3>1, <3>3, <3>4, <3>6, Zenon
  <2> QED
    BY <2>3, <2>4
<1> QED
  BY <1>5, Zenon DEF n, o

\* The method of a part of the data is the one at its beginning, however far
\* the part goes.
LEMMA MethodOfPart ==
    ASSUME NEW D, NEW s \in Seq(D), NEW from \in 0 .. Len(s), NEW to \in from .. Len(s)
    PROVE  extractMethodId(SubSeq(s, from + 1, to)) = IF to = from THEN NoMethod ELSE s[from + 1]
<1> DEFINE t == SubSeq(s, from + 1, to)
<1>1. Len(s) \in Nat /\ from \in Nat /\ to \in Nat /\ from =< to /\ to =< Len(s)
  OBVIOUS
<1>2. /\ t \in Seq(D)
      /\ Len(t) = IF from + 1 =< to THEN to - (from + 1) + 1 ELSE 0
      /\ \A i \in 1 .. to - (from + 1) + 1 : t[i] = s[from + 1 + i - 1]
  BY <1>1, SubSeqProperties
<1> HIDE DEF t
<1>3. CASE to = from
  <2>1. t = <<>>
    BY <1>1, <1>2, <1>3
  <2> QED
    BY <1>3, <2>1, Zenon DEF extractMethodId, t
<1>4. CASE to # from
  <2>1. 1 \in 1 .. to - (from + 1) + 1 /\ from + 1 + 1 - 1 = from + 1 /\ Len(t) # 0
    BY <1>1, <1>2, <1>4
  <2>2. t # <<>> /\ t[1] = s[from + 1]
    BY <1>2, <2>1
  <2> QED
    BY <1>4, <2>2, Zenon DEF extractMethodId, t
<1> QED
  BY <1>3, <1>4

\* Where a part of length l that fits behind position o ends.
LEMMA PartBounds ==
    ASSUME NEW n \in Nat, NEW o \in 0 .. n, NEW l \in 0 .. n - o
    PROVE  o + l \in o .. n /\ (o + l = o <=> l = 0)
  OBVIOUS

\* Where it ends for the decoder, which cuts at the end of the data.
LEMMA CutBounds ==
    ASSUME NEW n \in Nat, NEW o \in 0 .. n, NEW l \in 0 .. n - o,
           NEW to \in Nat, o = 0 => to = l, o + l =< to
    PROVE  /\ (IF to > n THEN n ELSE to) \in o .. n
           /\ l # 0 => (IF to > n THEN n ELSE to) # o
           /\ l = 0 /\ o = 0 => (IF to > n THEN n ELSE to) = o
  OBVIOUS

\* In a batch of two calls the decoder and the wallet find the same method in
\* a call, unless it has no data.  Then the wallet finds none.
LEMMA CallAgrees ==
    ASSUME NEW b, IsBatch(b), ~BatchReverts(b), Len(b.lengths) =< 2, NEW k \in DOMAIN b.lengths
    PROVE  /\ BatchCalls(b)[k][1] = decodeExecuteTransactions(b)[k].to
           /\ k = 1 \/ b.lengths[1] = 0 \/ b.lengths[k] # 0
                => BatchCalls(b)[k] = <<decodeExecuteTransactions(b)[k].to,
                                        decodeExecuteTransactions(b)[k].method>>
           /\ b.lengths[k] = 0 => BatchCalls(b)[k][2] = NoMethod
<1> DEFINE D == {b.data[i] : i \in DOMAIN b.data}
<1> DEFINE o == offset(b.lengths, k)
<1> DEFINE l == b.lengths[k]
<1> DEFINE to == Concat(o, l)
<1> DEFINE end == IF to > Len(b.data) THEN Len(b.data) ELSE to
<1>1. b.lengths \in Seq(Nat) /\ b.data \in Seq(D) /\ Len(b.data) \in Nat
  BY DEF IsBatch, IsSequence
<1> HIDE DEF D
<1>2. DOMAIN b.lengths = 1 .. Len(b.lengths)
  BY <1>1
<1>3. \A j \in 1 .. Len(b.lengths) : b.lengths[j] =< Len(Rest(b, j))
  <2>1. ASSUME NEW j \in 1 .. Len(b.lengths)
        PROVE  b.lengths[j] =< Len(Rest(b, j))
    <3>1. ~(b.lengths[j] > Len(Rest(b, j)))
      BY <1>2, <2>1, Zenon DEF BatchReverts
    <3>2. b.lengths[j] \in Nat /\ Len(Rest(b, j)) \in Nat
      <4>1. Rest(b, j) \in Seq(D)
        BY <1>1, RestRecursion
      <4> QED
        BY <1>1, <4>1
    <3> QED
      BY <3>1, <3>2
  <2> QED
    BY <2>1
<1>4. /\ o \in 0 .. Len(b.data) /\ (k = 1 => o = 0) /\ (k # 1 => o = b.lengths[1])
      /\ l \in 0 .. Len(b.data) - o
      /\ Rest(b, k) = SubSeq(b.data, o + 1, Len(b.data))
  BY <1>1, <1>2, <1>3, RestBeginsAtOffset
<1> HIDE DEF o, l
<1>5. to \in Nat /\ (o = 0 => to = l) /\ o + l =< to
  <2>1. o \in Nat /\ l \in Nat
    BY <1>1, <1>4
  <2> QED
    BY <2>1, ConcatBounds, Zenon
<1> HIDE DEF to
<1>6. BatchCalls(b)[k] = <<b.destinations[k], extractMethodId(SubSeq(Rest(b, k), 1, l))>>
  BY Zenon DEF BatchCalls, l
<1>7. /\ decodeExecuteTransactions(b)[k].to = b.destinations[k]
      /\ decodeExecuteTransactions(b)[k].method = extractMethodId(SubSeq(b.data, o + 1, end))
  BY DEF decodeExecuteTransactions, Slice, o, l, to
<1>8. SubSeq(Rest(b, k), 1, l) = SubSeq(b.data, o + 1, o + l)
  BY <1>1, <1>4, SubSeqOfRest
<1>9. extractMethodId(SubSeq(b.data, o + 1, o + l)) = IF l = 0 THEN NoMethod ELSE b.data[o + 1]
  <2>1. Len(b.data) \in Nat /\ o \in 0 .. Len(b.data) /\ l \in 0 .. Len(b.data) - o
    BY <1>1, <1>4, Zenon
  <2>2. o + l \in o .. Len(b.data) /\ (o + l = o <=> l = 0)
    BY <2>1, PartBounds, Zenon
  <2> QED
    BY <1>1, <1>4, <2>2, MethodOfPart
<1>10. end \in o .. Len(b.data) /\ (l # 0 => end # o) /\ (l = 0 /\ o = 0 => end = o)
  <2>1. Len(b.data) \in Nat /\ o \in 0 .. Len(b.data) /\ l \in 0 .. Len(b.data) - o
    BY <1>1, <1>4, Zenon
  <2>2. to \in Nat /\ (o = 0 => to = l) /\ o + l =< to
    BY <1>5, Zenon
  <2>3. /\ (IF to > Len(b.data) THEN Len(b.data) ELSE to) \in o .. Len(b.data)
        /\ l # 0 => (IF to > Len(b.data) THEN Len(b.data) ELSE to) # o
        /\ l = 0 /\ o = 0 => (IF to > Len(b.data) THEN Len(b.data) ELSE to) = o
    BY <2>1, <2>2, CutBounds, Zenon
  <2> QED
    BY <2>3, Zenon DEF end
<1> HIDE DEF end
<1>11. extractMethodId(SubSeq(b.data, o + 1, end)) = IF end = o THEN NoMethod ELSE b.data[o + 1]
  BY <1>1, <1>4, <1>10, MethodOfPart
<1>12. BatchCalls(b)[k][1] = b.destinations[k] /\ BatchCalls(b)[k][2] = IF l = 0 THEN NoMethod ELSE b.data[o + 1]
  <2> DEFINE method == extractMethodId(SubSeq(Rest(b, k), 1, l))
  <2> HIDE DEF method
  <2>1. BatchCalls(b)[k] = <<b.destinations[k], method>>
    BY <1>6 DEF method
  <2>4. BatchCalls(b)[k][1] = b.destinations[k] /\ BatchCalls(b)[k][2] = method
    BY <2>1
  <2>2. BatchCalls(b)[k][2] = extractMethodId(SubSeq(Rest(b, k), 1, l))
    BY <2>4 DEF method
  <2>3. BatchCalls(b)[k][2] = IF l = 0 THEN NoMethod ELSE b.data[o + 1]
    BY <1>8, <1>9, <2>2
  <2> QED
    BY <2>3, <2>4, Zenon
<1>13. ASSUME k = 1 \/ b.lengths[1] = 0 \/ l # 0
       PROVE  extractMethodId(SubSeq(b.data, o + 1, end)) = IF l = 0 THEN NoMethod ELSE b.data[o + 1]
  BY <1>4, <1>10, <1>11, <1>13
<1> QED
  BY <1>6, <1>7, <1>8, <1>9, <1>12, <1>13, Zenon DEF l

\* What a transaction carries can be decoded when it has to be.
HasBatch(tx) ==
    isCallTo(tx.child, "executeTransactions") /\ tx.child.decodes => IsBatch(tx.child.batch)

\* The parser is exact for batches of two calls: of the transactions that the
\* wallet executes it lets through those all of whose calls are allowed.
LEMMA ParserIsExact ==
    ASSUME NEW tx, HasBatch(tx), TwoCallsAtMost(tx), DataInOrder(tx), NEW filter, ~Reverts(tx)
    PROVE  parse(tx, filter) = "ok" <=> \A i \in DOMAIN Executed(tx) : Executed(tx)[i] \in filter
<1> DEFINE c == tx.child
<1>1. isCallTo(tx, "executeMetaTransaction") /\ tx.decodes
  BY Zenon DEF Reverts
<1>2. CASE isCallTo(c, "executeTransactions")
  <2> DEFINE b == c.batch
  <2>1. c.decodes /\ ~BatchReverts(b) /\ IsBatch(b)
    BY <1>2, Zenon DEF Reverts, HasBatch
  <2>2. ~Throws(c)
    <3>1. Len(b.lengths) = Len(b.destinations)
      BY <2>1, Zenon DEF BatchReverts
    <3>2. Len(b.lengths) \in Nat
      BY <2>1 DEF IsBatch
    <3>3. ~(Len(b.lengths) > Len(b.destinations))
      BY <3>1, <3>2
    <3> QED
      BY <3>3, Zenon DEF Throws
  <2>3. getChildren(c) = decodeExecuteTransactions(b)
    BY <1>2, Zenon DEF getChildren
  <2>4. Executed(tx) = BatchCalls(b)
    BY <1>2, Zenon DEF Executed
  <2>5. DOMAIN decodeExecuteTransactions(b) = DOMAIN b.lengths /\ DOMAIN BatchCalls(b) = DOMAIN b.lengths
    BY DEF decodeExecuteTransactions, BatchCalls
  <2>6. ASSUME NEW k \in DOMAIN b.lengths
        PROVE  Allowed(filter, decodeExecuteTransactions(b)[k]) <=> BatchCalls(b)[k] \in filter
    <3>1. Lengths(tx) = b.lengths
      BY <1>2, <2>1, Zenon DEF Lengths
    <3>2. Len(b.lengths) =< 2
      BY <3>1, Zenon DEF TwoCallsAtMost
    <3>3. k = 1 \/ b.lengths[1] = 0 \/ b.lengths[k] # 0
      <4>1. k \in 1 .. Len(b.lengths) /\ Len(b.lengths) \in Nat
        BY <2>1 DEF IsBatch
      <4>2. Len(b.lengths) = 2 => b.lengths[1] = 0 \/ b.lengths[2] # 0
        BY <3>1, Zenon DEF DataInOrder
      <4>3. k = 1 \/ (k = 2 /\ Len(b.lengths) = 2)
        <5>1. \A j, n \in Nat : j \in 1 .. n /\ n =< 2 => j = 1 \/ (j = 2 /\ n = 2)
          OBVIOUS
        <5>2. k \in Nat
          BY <4>1
        <5> QED
          BY <3>2, <4>1, <5>1, <5>2, Zenon
      <4> QED
        BY <4>2, <4>3, Zenon
    <3> QED
      BY <2>1, <3>2, <3>3, CallAgrees, Zenon DEF Allowed
  <2>7. parse(tx, filter) =
            IF \E k \in DOMAIN getChildren(c) : ~Allowed(filter, getChildren(c)[k])
            THEN "TransactionNotAllowed" ELSE "ok"
    BY <1>1, <2>1, <2>2, Zenon DEF parse
  <2>8. parse(tx, filter) = "ok" <=> \A k \in DOMAIN getChildren(c) : Allowed(filter, getChildren(c)[k])
    BY <2>7, "TransactionNotAllowed" # "ok", Zenon
  <2> QED
    BY <2>3, <2>4, <2>5, <2>6, <2>8, Zenon
<1>3. CASE ~isCallTo(c, "executeTransactions")
  <2>1. ~Throws(c)
    BY <1>3, Zenon DEF Throws
  <2>2. getChildren(c) = <<c>>
    BY <1>3, Zenon DEF getChildren
  <2>3. Executed(tx) = << <<c.to, c.method>> >>
    BY <1>3, Zenon DEF Executed
  <2>4. parse(tx, filter) =
            IF \E k \in DOMAIN getChildren(c) : ~Allowed(filter, getChildren(c)[k])
            THEN "TransactionNotAllowed" ELSE "ok"
    BY <1>1, <1>3, <2>1, Zenon DEF parse
  <2>5. parse(tx, filter) = "ok" <=> \A k \in DOMAIN getChildren(c) : Allowed(filter, getChildren(c)[k])
    BY <2>4, "TransactionNotAllowed" # "ok", Zenon
  <2>6. DOMAIN <<c>> = {1} /\ <<c>>[1] = c
    OBVIOUS
  <2>7. DOMAIN << <<c.to, c.method>> >> = {1} /\ << <<c.to, c.method>> >>[1] = <<c.to, c.method>>
    OBVIOUS
  <2> QED
    BY <2>2, <2>3, <2>5, <2>6, <2>7, Zenon DEF Allowed
<1> QED
  BY <1>2, <1>3

\* The wallet finds no method in a call without data, so that such a call is
\* never allowed.
LEMMA AllowedHasData ==
    ASSUME NEW tx, HasBatch(tx), TwoCallsAtMost(tx), ~Reverts(tx),
           NEW filter, \A f \in filter : f[2] # NoMethod,
           \A i \in DOMAIN Executed(tx) : Executed(tx)[i] \in filter
    PROVE  DataInOrder(tx)
<1> DEFINE b == tx.child.batch
<1>1. CASE isCallTo(tx.child, "executeTransactions")
  <2>1. tx.child.decodes /\ ~BatchReverts(b) /\ IsBatch(b)
    BY <1>1, Zenon DEF Reverts, HasBatch
  <2>2. Lengths(tx) = b.lengths /\ Executed(tx) = BatchCalls(b)
    BY <1>1, <2>1, Zenon DEF Lengths, Executed
  <2>3. Len(b.lengths) =< 2
    BY <2>2, Zenon DEF TwoCallsAtMost
  <2>4. ASSUME Len(b.lengths) = 2
        PROVE  b.lengths[2] # 0
    <3>1. 2 \in DOMAIN b.lengths
      BY <2>1, <2>4 DEF IsBatch
    <3>2. DOMAIN BatchCalls(b) = DOMAIN b.lengths
      BY DEF BatchCalls
    <3>3. BatchCalls(b)[2][2] # NoMethod
      BY <2>2, <3>1, <3>2, Zenon
    <3> QED
      BY <2>1, <2>3, <3>1, <3>3, CallAgrees, Zenon
  <2> QED
    BY <2>2, <2>4, Zenon DEF DataInOrder
<1>2. CASE ~isCallTo(tx.child, "executeTransactions")
  <2>1. Lengths(tx) = <<>>
    BY <1>2, Zenon DEF Lengths
  <2> QED
    BY <2>1 DEF DataInOrder
<1> QED
  BY <1>1, <1>2

-----------------------------------------------------------------------------
(* What was relayed has passed the parser, and what was refused has not *)

FilterOf(x, n) ==
    IF ~x.subsidy THEN DefaultFilter
    ELSE IF n = Len(x.txs) THEN RequestFilter ELSE ApproveFilter

RelayedType == [txs : Seq(Transactions \cup Subsidised), subsidy : BOOLEAN]

Approved(x) == \A n \in DOMAIN x.txs : parse(x.txs[n], FilterOf(x, n)) = "ok"

RelayInv ==
    /\ relayed \in Seq(RelayedType) /\ \A k \in DOMAIN relayed : Approved(relayed[k])
    /\ refused \in Seq(Transactions) /\ \A k \in DOMAIN refused : parse(refused[k], DefaultFilter) # "ok"

\* A further element with the property of all others.
LEMMA AppendKeeps ==
    ASSUME NEW S, NEW s \in Seq(S), NEW e \in S
    PROVE  /\ Append(s, e) \in Seq(S)
           /\ \A k \in DOMAIN Append(s, e) : (k \in DOMAIN s /\ Append(s, e)[k] = s[k]) \/ Append(s, e)[k] = e
<1>1. /\ Append(s, e) \in Seq(S) /\ Len(Append(s, e)) = Len(s) + 1
      /\ \A k \in 1 .. Len(s) : Append(s, e)[k] = s[k]
      /\ Append(s, e)[Len(s) + 1] = e
  OBVIOUS
<1>2. DOMAIN s = 1 .. Len(s) /\ DOMAIN Append(s, e) = 1 .. Len(s) + 1 /\ Len(s) \in Nat
  BY <1>1
<1>3. \A k \in 1 .. Len(s) + 1 : k \in 1 .. Len(s) \/ k = Len(s) + 1
  BY <1>2
<1> QED
  BY <1>1, <1>2, <1>3, Zenon

LEMMA AppendRelayed ==
    ASSUME RelayInv, NEW x \in RelayedType, Approved(x), relayed' = Append(relayed, x)
    PROVE  relayed' \in Seq(RelayedType) /\ \A k \in DOMAIN relayed' : Approved(relayed'[k])
<1>1. relayed \in Seq(RelayedType) /\ \A k \in DOMAIN relayed : Approved(relayed[k])
  BY Zenon DEF RelayInv
<1>2. /\ Append(relayed, x) \in Seq(RelayedType)
      /\ \A k \in DOMAIN Append(relayed, x) :
            (k \in DOMAIN relayed /\ Append(relayed, x)[k] = relayed[k]) \/ Append(relayed, x)[k] = x
  BY <1>1, AppendKeeps, Zenon
<1> QED
  BY <1>1, <1>2, Zenon

LEMMA SubmitRelayInv ==
    ASSUME RelayInv, NEW r, SubmitMetaTransaction(r)
    PROVE  RelayInv'
<1>1. PICK tx \in Transactions :
        \/ /\ parse(tx, DefaultFilter) = "ok"
           /\ relayed' = Append(relayed, [txs |-> <<tx>>, subsidy |-> FALSE]) /\ UNCHANGED refused
        \/ /\ parse(tx, DefaultFilter) # "ok"
           /\ refused' = Append(refused, tx) /\ UNCHANGED relayed
  BY Zenon DEF SubmitMetaTransaction
<1>2. CASE /\ parse(tx, DefaultFilter) = "ok"
           /\ relayed' = Append(relayed, [txs |-> <<tx>>, subsidy |-> FALSE]) /\ UNCHANGED refused
  <2> DEFINE x == [txs |-> <<tx>>, subsidy |-> FALSE]
  <2>1. x \in RelayedType
    BY DEF RelayedType
  <2>2. DOMAIN x.txs = {1} /\ x.txs[1] = tx /\ x.subsidy = FALSE
    OBVIOUS
  <2> HIDE DEF x
  <2>3. Approved(x)
    BY <1>2, <2>2, Zenon DEF Approved, FilterOf
  <2>4. relayed' = Append(relayed, x)
    BY <1>2 DEF x
  <2>5. relayed' \in Seq(RelayedType) /\ \A k \in DOMAIN relayed' : Approved(relayed'[k])
    BY <2>1, <2>3, <2>4, AppendRelayed
  <2> QED
    BY <1>2, <2>5, Zenon DEF RelayInv, Approved, FilterOf
<1>3. CASE /\ parse(tx, DefaultFilter) # "ok"
           /\ refused' = Append(refused, tx) /\ UNCHANGED relayed
  <2>1. /\ refused' \in Seq(Transactions)
        /\ \A k \in DOMAIN refused' : parse(refused'[k], DefaultFilter) # "ok"
    <3>1. refused \in Seq(Transactions) /\ \A k \in DOMAIN refused : parse(refused[k], DefaultFilter) # "ok"
      BY Zenon DEF RelayInv
    <3>2. /\ Append(refused, tx) \in Seq(Transactions)
          /\ \A k \in DOMAIN Append(refused, tx) :
                (k \in DOMAIN refused /\ Append(refused, tx)[k] = refused[k]) \/ Append(refused, tx)[k] = tx
      BY <3>1, AppendKeeps, Zenon
    <3> QED
      BY <1>3, <3>1, <3>2, Zenon
  <2> QED
    BY <1>3, <2>1, Zenon DEF RelayInv, Approved, FilterOf
<1> QED
  BY <1>1, <1>2, <1>3, Zenon

LEMMA SubsidyRelayInv ==
    ASSUME RelayInv, NEW r, RequestSubsidisedAttestations(r)
    PROVE  RelayInv'
<1>1. PICK requestTx \in Subsidised, approveTxs \in {<<>>} \cup {<<tx>> : tx \in Subsidised} :
        IF isValid(requestTx, approveTxs)
        THEN relayed' = Append(relayed, [txs |-> approveTxs \o <<requestTx>>, subsidy |-> TRUE])
        ELSE UNCHANGED relayed
  BY Zenon DEF RequestSubsidisedAttestations
<1>2. UNCHANGED refused
  BY Zenon DEF RequestSubsidisedAttestations
<1>3. CASE ~isValid(requestTx, approveTxs)
  BY <1>1, <1>2, <1>3, Zenon DEF RelayInv, Approved, FilterOf
<1>4. CASE isValid(requestTx, approveTxs)
  <2> DEFINE x == [txs |-> approveTxs \o <<requestTx>>, subsidy |-> TRUE]
  <2>1. approveTxs \in Seq(Subsidised) /\ Len(approveTxs) \in Nat
    <3>1. CASE approveTxs = <<>>
      BY <3>1
    <3>2. CASE approveTxs \in {<<tx>> : tx \in Subsidised}
      <4>1. PICK tx \in Subsidised : approveTxs = <<tx>>
        BY <3>2
      <4> QED
        BY <4>1
    <3> QED
      BY <3>1, <3>2
  <2>2. /\ x.txs = approveTxs \o <<requestTx>> /\ x.subsidy = TRUE
        /\ x.txs \in Seq(Subsidised) /\ Len(x.txs) = Len(approveTxs) + 1
        /\ DOMAIN x.txs = 1 .. Len(approveTxs) + 1
        /\ \A n \in 1 .. Len(approveTxs) : x.txs[n] = approveTxs[n]
        /\ x.txs[Len(approveTxs) + 1] = requestTx
    BY <2>1
  <2>3. x \in RelayedType
    BY <2>2 DEF RelayedType
  <2> HIDE DEF x
  <2>4. ASSUME NEW n \in DOMAIN x.txs
        PROVE  parse(x.txs[n], FilterOf(x, n)) = "ok"
    <3>1. CASE n = Len(x.txs)
      <4>1. FilterOf(x, n) = RequestFilter
        BY <2>2, <3>1, Zenon DEF FilterOf
      <4>2. x.txs[n] = requestTx
        BY <2>2, <3>1
      <4> QED
        BY <1>4, <4>1, <4>2, Zenon DEF isValid
    <3>2. CASE n # Len(x.txs)
      <4>1. FilterOf(x, n) = ApproveFilter
        BY <2>2, <3>2, Zenon DEF FilterOf
      <4>2. n \in 1 .. Len(approveTxs) /\ DOMAIN approveTxs = 1 .. Len(approveTxs)
        BY <2>1, <2>2, <2>4, <3>2
      <4> QED
        BY <1>4, <2>2, <4>1, <4>2, Zenon DEF isValid
    <3> QED
      BY <3>1, <3>2
  <2>5. relayed' = Append(relayed, x)
    BY <1>1, <1>4 DEF x
  <2>6. Approved(x)
    BY <2>4, Zenon DEF Approved
  <2>7. relayed' \in Seq(RelayedType) /\ \A k \in DOMAIN relayed' : Approved(relayed'[k])
    BY <2>3, <2>5, <2>6, AppendRelayed
  <2> QED
    BY <1>2, <2>7, Zenon DEF RelayInv, Approved, FilterOf
<1> QED
  BY <1>3, <1>4, Zenon

LEMMA NextRelayInv == RelayInv /\ [Next]_vars => RelayInv'
<1>1. SUFFICES ASSUME RelayInv, [Next]_vars PROVE RelayInv'
  OBVIOUS
<1>2. CASE UNCHANGED <<relayed, refused>>
  BY <1>1, <1>2, Zenon DEF RelayInv, Approved, FilterOf
<1>3. CASE Tick
  BY <1>2, <1>3, Zenon DEF Tick
<1>4. ASSUME NEW r \in DOMAIN load, Handler(r)
      PROVE  RelayInv'
  <2>1. CASE SubmitMetaTransaction(r)
    BY <1>1, <2>1, SubmitRelayInv
  <2>2. CASE RequestSubsidisedAttestations(r)
    BY <1>1, <2>2, SubsidyRelayInv
  <2>3. CASE ReadRecords(r) \/ AddRecord(r) \/ StartSession(r)
    BY <1>2, <2>3, Zenon DEF ReadRecords, AddRecord, StartSession
  <2>4. CASE DailyCapRule(r) \/ CaptchaRule(r) \/ DeviceAttestationRule(r) \/ SignatureRule(r)
    BY <1>2, <2>4, Zenon DEF DailyCapRule, CaptchaRule, DeviceAttestationRule, SignatureRule
  <2>5. CASE DistributedBlindedPepper(r) \/ PepperAnswered(r) \/ PepperTimesOut(r) \/ RelayerQueries(r)
    BY <1>2, <2>5, Zenon
        DEF DistributedBlindedPepper, PepperAnswered, PepperTimesOut, RelayerQueries, doorVars
  <2> QED
    BY <1>4, <2>1, <2>2, <2>3, <2>4, <2>5, Zenon DEF Handler
<1>5. CASE UNCHANGED vars
  BY <1>2, <1>5, Zenon DEF vars, doorVars
<1> QED
  BY <1>1, <1>3, <1>4, <1>5, Zenon DEF Next

LEMMA SpecRelayInv == Spec => []RelayInv
<1>1. Init => RelayInv
  BY DEF Init, RelayInv
<1> QED
  BY <1>1, NextRelayInv, PTL DEF Spec

\* Every transaction that clients send, if it is a batch, is decoded as one.
LEMMA ClientsBatches ==
    ASSUME NEW tx \in Transactions \cup Subsidised
    PROVE  HasBatch(tx)
  BY FrontAssumption, Zenon DEF FrontAssumption, HasBatch

\* What the wallet executes of the transactions that the parser let through is
\* what the filter allows, for batches of two calls with data, whatever their
\* lengths and data are.  (parse, decodeExecuteTransactions)
THEOREM WalletExecutesAllowed == Spec => []OnlyAllowedIsExecuted
<1>1. RelayInv => OnlyAllowedIsExecuted
  <2>1. SUFFICES ASSUME RelayInv, NEW k \in DOMAIN relayed, NEW n \in DOMAIN relayed[k].txs,
                        TwoCallsAtMost(relayed[k].txs[n]), DataInOrder(relayed[k].txs[n])
                 PROVE  \A i \in DOMAIN Executed(relayed[k].txs[n]) :
                            Executed(relayed[k].txs[n])[i] \in FilterOf(relayed[k], n)
    BY Zenon DEF OnlyAllowedIsExecuted, FilterOf
  <2> DEFINE tx == relayed[k].txs[n]
  <2>2. tx \in Transactions \cup Subsidised
    <3>1. relayed[k] \in RelayedType
      BY <2>1 DEF RelayInv
    <3>2. relayed[k].txs \in Seq(Transactions \cup Subsidised)
      BY <3>1 DEF RelayedType
    <3> QED
      BY <2>1, <3>2
  <2>3. parse(tx, FilterOf(relayed[k], n)) = "ok"
    BY <2>1, Zenon DEF RelayInv, Approved
  <2>6. TwoCallsAtMost(tx) /\ DataInOrder(tx)
    BY <2>1
  <2> HIDE DEF tx
  <2>4. CASE Reverts(tx)
    <3>1. Executed(tx) = <<>>
      BY <2>4, Zenon DEF Executed
    <3>2. DOMAIN Executed(tx) = {}
      BY <3>1
    <3> QED
      BY <3>2 DEF tx
  <2>5. CASE ~Reverts(tx)
    <3>1. \A i \in DOMAIN Executed(tx) : Executed(tx)[i] \in FilterOf(relayed[k], n)
      BY <2>2, <2>3, <2>5, <2>6, ClientsBatches, ParserIsExact, Zenon
    <3> QED
      BY <3>1 DEF tx
  <2> QED
    BY <2>4, <2>5
<1> QED
  BY <1>1, SpecRelayInv, PTL

\* The parser refuses no transaction of two calls, whatever their lengths and
\* data are, if both are allowed.  (the errors of parse)
THEOREM NothingElseIsRefused == Spec => []AllowedIsLetThrough
<1>1. RelayInv => AllowedIsLetThrough
  <2>1. SUFFICES ASSUME RelayInv, NEW k \in DOMAIN refused, ~Reverts(refused[k]),
                        TwoCallsAtMost(refused[k])
                 PROVE  \E i \in DOMAIN Executed(refused[k]) : Executed(refused[k])[i] \notin DefaultFilter
    BY Zenon DEF AllowedIsLetThrough
  <2>2. refused[k] \in Transactions
    BY <2>1 DEF RelayInv
  <2>3. parse(refused[k], DefaultFilter) # "ok"
    BY <2>1, Zenon DEF RelayInv
  <2>4. HasBatch(refused[k])
    BY <2>2, ClientsBatches
  <2>5. \A f \in DefaultFilter : f[2] # NoMethod
    <3>1. ASSUME NEW f \in Stable \X {"approve", "transfer"} PROVE f[2] # NoMethod
      <4>1. f[2] \in {"approve", "transfer"}
        BY <3>1
      <4> QED
        BY <4>1 DEF NoMethod
    <3>2. ASSUME NEW f \in {<<"Attestations", "selectIssuers">>, <<"Attestations", "complete">>,
                            <<"Accounts", "setAccount">>, <<"Escrow", "withdraw">>}
          PROVE  f[2] # NoMethod
      <4>1. f[2] \in {"selectIssuers", "complete", "setAccount", "withdraw"}
        BY <3>2
      <4> QED
        BY <4>1 DEF NoMethod
    <3> QED
      BY <3>1, <3>2, Zenon DEF DefaultFilter
  <2> QED
    BY <2>1, <2>3, <2>4, <2>5, AllowedHasData, ParserIsExact, Zenon
<1> QED
  BY <1>1, SpecRelayInv, PTL
==============================================================================
