-------------------------- MODULE RewardSenderProofs --------------------------
(***************************************************************************)
(* Proofs about RewardSender, for any number of rewards, processes, sends  *)
(* and faults.                                                             *)
(*                                                                         *)
(* The transaction of checkFailedInvites works on copies of the rows it    *)
(* has locked.  Up to the send a copy is the row; from the send to the     *)
(* commit it is ahead of the row, and nobody else sends for it.  As long   *)
(* as no answer of the relayer is lost, the row, the copy or the first     *)
(* send that is under way names the last transfer there is, and all the    *)
(* transfers before it have failed.                                        *)
(***************************************************************************)
EXTENDS RewardSender, SequenceTheorems, FiniteSetTheorems, TLAPS

Sends == [st : {"none", "relay", "update"}, at : Instances \cup {NoInstance}, hash : Hashes]
Checks == [w : Watched, status : {"ask", "Completed", "Failed"}]
Items == [invite : Invites, st : {"ask", "relay", "update", "done"}, row : Rows]

\* A hash is null, or that of a transfer which was sent for the reward.
Known(i, k) == k = NullHash \/ k \in DOMAIN transfers[i]

\* What the row, the first send and the processes remember was really sent, and
\* what a process has learned about it is so.
RowKnown(i, row) == Known(i, row.hash) /\ (row.state = "Completed" => Paid(i) # {})
WatchKnown(w) == w.hash \in DOMAIN transfers[w.invite]
CheckKnown(c) == WatchKnown(c.w) /\ (c.status = "Completed" => Paid(c.w.invite) # {})
ItemKnown(x) ==
    /\ RowKnown(x.invite, x.row)
    /\ x.st = "relay" /\ x.row.hash # NullHash => transfers[x.invite][x.row.hash] = "Failed"

KnowledgeInv ==
    /\ \A i \in Invites : RowKnown(i, rows[i]) /\ Known(i, first[i].hash)
    /\ \A n \in Instances :
        /\ \A w \in watched[n] : WatchKnown(w)
        /\ \A c \in checking[n] : CheckKnown(c)
        /\ \A x \in retrying[n].items : ItemKnown(x)

\* A first send is for a fresh row.
FirstInv ==
    \A i \in Invites :
        /\ rows[i].state = "none" => rows[i].hash = NullHash /\ ~rows[i].old
        /\ first[i].st # "none" =>
            /\ rows[i].state # "none" /\ ~rows[i].old /\ rows[i].hash = NullHash
            /\ first[i].at \in Instances

\* A transaction has the rows it works on locked, and no others.
LockInv ==
    \A n \in Instances :
        /\ \A x \in retrying[n].items :
            /\ retrying[n].on /\ lock[x.invite] = n
            /\ rows[x.invite].old /\ x.row.old /\ x.row.state # "none"
            /\ x.st \in {"ask", "relay"} => x.row = rows[x.invite]
            /\ \A y \in retrying[n].items : x.invite = y.invite => x = y
        /\ \A i \in Invites : lock[i] = n => \E x \in retrying[n].items : x.invite = i

\* Without a loss, the last transfer is known to whoever may send the next one.
LastIsKnown ==
    \A i \in Invites :
        /\ \A k \in DOMAIN transfers[i] : k < Len(transfers[i]) => transfers[i][k] = "Failed"
        /\ first[i].st = "relay" => Len(transfers[i]) = 0
        /\ first[i].st = "update" => Len(transfers[i]) = first[i].hash
        /\ first[i].st = "none" /\ lock[i] = NoInstance => Len(transfers[i]) = rows[i].hash
        /\ \A n \in Instances : \A x \in retrying[n].items :
            x.invite = i => Len(transfers[i]) = x.row.hash

BudgetInv == \A f \in Faults : faults[f] =< Budget[f]

\* The inductive invariant.
IInv ==
    /\ TypeOK /\ KnowledgeInv /\ FirstInv /\ LockInv /\ BudgetInv
    /\ (Lossless => LastIsKnown)

-----------------------------------------------------------------------------
(* The transfers and the faults *)

\* Transfers are only added, and one that has a receipt keeps it.
Grows ==
    \A i \in Invites :
        /\ DOMAIN transfers[i] \subseteq DOMAIN transfers'[i]
        /\ \A k \in DOMAIN transfers[i] :
            transfers[i][k] \in {"Completed", "Failed"} => transfers'[i][k] = transfers[i][k]

\* One more transfer has been sent for a reward.
Adds(i) ==
    /\ Len(transfers'[i]) = Len(transfers[i]) + 1
    /\ DOMAIN transfers'[i] = DOMAIN transfers[i] \cup {Len(transfers[i]) + 1}
    /\ \A k \in DOMAIN transfers[i] : transfers'[i][k] = transfers[i][k]

LEMMA TransfersAre ==
    ASSUME TypeOK, NEW i \in Invites
    PROVE  /\ transfers[i] \in Seq(TxStatus) /\ Len(transfers[i]) \in Nat
           /\ DOMAIN transfers[i] = 1 .. Len(transfers[i])
<1>1. transfers[i] \in Seq(TxStatus)
  BY DEF TypeOK
<1> QED
  BY <1>1, LenProperties

LEMMA KnowledgeStays ==
    ASSUME Grows
    PROVE  /\ \A i \in Invites : \A k : Known(i, k) => Known(i, k)'
           /\ \A i \in Invites : \A row : RowKnown(i, row) => RowKnown(i, row)'
           /\ \A w \in Watched : WatchKnown(w) => WatchKnown(w)'
           /\ \A c \in Checks : CheckKnown(c) => CheckKnown(c)'
           /\ \A x \in Items : ItemKnown(x) => ItemKnown(x)'
<1>1. \A i \in Invites : \A k : Known(i, k) => Known(i, k)'
  BY DEF Grows, Known
<1>2. \A i \in Invites : Paid(i) \subseteq Paid(i)'
  BY DEF Grows, Paid
<1>3. \A i \in Invites : \A row : RowKnown(i, row) => RowKnown(i, row)'
  BY <1>1, <1>2 DEF RowKnown
<1>4. \A w \in Watched : WatchKnown(w) => WatchKnown(w)'
  BY DEF Grows, WatchKnown, Watched
<1>5. \A c \in Checks : CheckKnown(c) => CheckKnown(c)'
  BY <1>2, <1>4 DEF CheckKnown, Checks, Watched
<1>6. \A x \in Items : ItemKnown(x) => ItemKnown(x)'
  <2> SUFFICES ASSUME NEW x \in Items, ItemKnown(x) PROVE ItemKnown(x)'
    OBVIOUS
  <2>1. x.invite \in Invites /\ RowKnown(x.invite, x.row)'
    BY <1>3 DEF Items, ItemKnown
  <2>2. ASSUME x.st = "relay", x.row.hash # NullHash
        PROVE  transfers'[x.invite][x.row.hash] = "Failed"
    BY <2>1, <2>2 DEF ItemKnown, Grows, RowKnown, Known
  <2> QED
    BY <2>1, <2>2 DEF ItemKnown
<1> QED
  BY <1>1, <1>3, <1>4, <1>5, <1>6

LEMMA RowBecomes ==
    ASSUME TypeOK, NEW i \in Invites, NEW row \in Rows, rows' = [rows EXCEPT ![i] = row]
    PROVE  /\ rows' \in [Invites -> Rows] /\ rows'[i] = row
           /\ \A j \in Invites : j # i => rows'[j] = rows[j]
BY DEF TypeOK

LEMMA FirstBecomes ==
    ASSUME TypeOK, NEW i \in Invites, NEW f \in Sends, first' = [first EXCEPT ![i] = f]
    PROVE  /\ first' \in [Invites -> Sends] /\ first'[i] = f
           /\ \A j \in Invites : j # i => first'[j] = first[j]
BY DEF TypeOK, Sends

\* The sets of a process hold what their types say.
LEMMA MembersAre ==
    ASSUME TypeOK, NEW n \in Instances
    PROVE  watched[n] \subseteq Watched /\ checking[n] \subseteq Checks /\ retrying[n].items \subseteq Items
<1>1. retrying[n] \in [on : BOOLEAN, items : SUBSET Items]
  BY DEF TypeOK, Items
<1> QED
  BY <1>1 DEF TypeOK, Checks

LEMMA StaysGrows == ASSUME UNCHANGED transfers PROVE Grows
BY DEF Grows

\* After a fault other than a replaced transfer something may be lost.
LEMMA SpendEffect ==
    ASSUME TypeOK, BudgetInv, NEW f \in Faults, Spend(f)
    PROVE  /\ faults' \in [Faults -> Nat] /\ BudgetInv'
           /\ Lossless' => Lossless /\ f = "replaced"
<1> USE SenderAssumption DEF SenderAssumption
<1>1. faults' \in [Faults -> Nat] /\ faults'[f] = faults[f] - 1
      /\ \A g \in Faults : g # f => faults'[g] = faults[g]
  BY DEF TypeOK, Spend
<1>2. faults[f] \in Nat /\ Budget[f] \in Nat /\ faults[f] =< Budget[f] /\ faults[f] > 0
  BY DEF TypeOK, BudgetInv, Spend
<1>3. BudgetInv'
  BY <1>1, <1>2 DEF BudgetInv
<1>4. faults'[f] # Budget[f]
  BY <1>1, <1>2
<1>5. Lossless' => Lossless /\ f = "replaced"
  BY <1>1, <1>4 DEF Lossless
<1> QED
  BY <1>1, <1>3, <1>5

LEMMA NoFault ==
    ASSUME TypeOK, BudgetInv, UNCHANGED faults
    PROVE  faults' \in [Faults -> Nat] /\ BudgetInv' /\ (Lossless' => Lossless)
BY DEF TypeOK, BudgetInv, Lossless

\* Transfers that may still be settled.
Unsettled == {"Abandoned", "Pending"}

LEMMA RelayEffect ==
    ASSUME TypeOK, BudgetInv, NEW i \in Invites, NEW answer \in Hashes, Relay(i, answer)
    PROVE  /\ transfers' \in [Invites -> Seq(TxStatus)]
           /\ \A j \in Invites : j # i => transfers'[j] = transfers[j]
           /\ Grows /\ Known(i, answer)'
           /\ faults' \in [Faults -> Nat] /\ BudgetInv'
           /\ transfers'[i] = transfers[i] \/ Adds(i)
           /\ Lossless' => /\ Lossless
                           /\ \/ answer = NullHash /\ transfers'[i] = transfers[i]
                              \/ answer = Len(transfers'[i]) /\ answer # NullHash /\ Adds(i)
<1>0. /\ transfers[i] \in Seq(TxStatus) /\ Len(transfers[i]) \in Nat
      /\ DOMAIN transfers[i] = 1 .. Len(transfers[i])
  BY TransfersAre
<1>1. ASSUME NEW s \in Unsettled, transfers' = [transfers EXCEPT ![i] = Append(@, s)],
             \/ answer = Len(transfers[i]) + 1 /\ UNCHANGED faults
             \/ answer = NullHash /\ Spend("timeout")
      PROVE  /\ transfers' \in [Invites -> Seq(TxStatus)]
             /\ \A j \in Invites : j # i => transfers'[j] = transfers[j]
             /\ Grows /\ Known(i, answer)'
             /\ faults' \in [Faults -> Nat] /\ BudgetInv' /\ Adds(i)
             /\ Lossless' => Lossless /\ answer = Len(transfers'[i]) /\ answer # NullHash
  <2>1. s \in TxStatus
    BY DEF TxStatus, Unsettled
  <2>2. /\ Append(transfers[i], s) \in Seq(TxStatus)
        /\ Len(Append(transfers[i], s)) = Len(transfers[i]) + 1
        /\ \A k \in 1 .. Len(transfers[i]) : Append(transfers[i], s)[k] = transfers[i][k]
    BY <1>0, <2>1, AppendProperties
  <2>3. transfers'[i] = Append(transfers[i], s)
        /\ transfers' \in [Invites -> Seq(TxStatus)]
        /\ \A j \in Invites : j # i => transfers'[j] = transfers[j]
    BY <1>1, <2>2 DEF TypeOK
  <2>4. Adds(i)
    <3>1. DOMAIN transfers'[i] = 1 .. (Len(transfers[i]) + 1)
      BY <2>2, <2>3, LenProperties
    <3> QED
      BY <1>0, <2>2, <2>3, <3>1 DEF Adds
  <2>5. Grows
    BY <2>3, <2>4 DEF Grows, Adds
  <2>6. CASE answer = Len(transfers[i]) + 1 /\ UNCHANGED faults
    <3>1. faults' \in [Faults -> Nat] /\ BudgetInv' /\ (Lossless' => Lossless)
      BY <2>6, NoFault
    <3>2. Known(i, answer)' /\ answer = Len(transfers'[i]) /\ answer # NullHash
      BY <1>0, <2>4, <2>6 DEF Known, Adds, NullHash
    <3> QED
      BY <2>3, <2>4, <2>5, <3>1, <3>2
  <2>7. CASE answer = NullHash /\ Spend("timeout")
    <3>1. faults' \in [Faults -> Nat] /\ BudgetInv' /\ ~Lossless'
      BY <2>7, SpendEffect DEF Faults
    <3> QED
      BY <2>3, <2>4, <2>5, <2>7, <3>1 DEF Known
  <2> QED
    BY <1>1, <2>6, <2>7
<1>2. CASE answer = NullHash /\ UNCHANGED <<transfers, faults>>
  BY <1>2, NoFault, StaysGrows DEF Known, TypeOK
<1> QED
  BY <1>1, <1>2 DEF Relay, Unsettled

LEMMA InitIInv == Init => IInv
<1> SUFFICES ASSUME Init PROVE IInv
  OBVIOUS
<1> USE SenderAssumption DEF Init, SenderAssumption
<1>1. NoRow \in Rows /\ NoSend \in Sends /\ NullHash \in Hashes
  BY DEF NoRow, NoSend, Rows, Sends, Hashes, NullHash
<1>2. TypeOK
  BY <1>1 DEF TypeOK, Sends, NoRetry
<1>3. \A i \in Invites : rows[i].hash = NullHash /\ rows[i].state = "none" /\ ~rows[i].old
        /\ first[i].hash = NullHash /\ first[i].st = "none" /\ Len(transfers[i]) = 0
        /\ DOMAIN transfers[i] = {}
  BY DEF NoRow, NoSend
<1>4. \A n \in Instances : watched[n] = {} /\ checking[n] = {} /\ retrying[n].items = {}
  BY DEF NoRetry
<1>5. KnowledgeInv /\ FirstInv
  BY <1>3, <1>4 DEF KnowledgeInv, FirstInv, Known, RowKnown
<1>6. LockInv
  BY <1>4 DEF LockInv
<1>7. BudgetInv
  BY DEF BudgetInv
<1>8. LastIsKnown
  BY <1>3, <1>4 DEF LastIsKnown, NullHash
<1> QED
  BY <1>2, <1>5, <1>6, <1>7, <1>8 DEF IInv

-----------------------------------------------------------------------------
(* The chain *)

LEMMA ChainStep ==
    ASSUME IInv, NEW i \in Invites, NEW k \in DOMAIN transfers[i], NEW s \in TxStatus,
           transfers[i][k] \in Unsettled, transfers' = [transfers EXCEPT ![i][k] = s],
           faults' \in [Faults -> Nat], BudgetInv', Lossless' => Lossless,
           UNCHANGED <<rows, lock, first, watched, checking, retrying>>
    PROVE  IInv'
<1>1. /\ transfers[i] \in Seq(TxStatus) /\ Len(transfers[i]) \in Nat
      /\ DOMAIN transfers[i] = 1 .. Len(transfers[i])
  BY TransfersAre DEF IInv
<1>2. PICK t : t = [transfers[i] EXCEPT ![k] = s]
  OBVIOUS
<1>3. t \in Seq(TxStatus) /\ Len(t) = Len(transfers[i]) /\ DOMAIN t = DOMAIN transfers[i]
      /\ \A j \in DOMAIN transfers[i] : j # k => t[j] = transfers[i][j]
  BY <1>1, <1>2, ExceptSeq
<1>4. transfers' \in [Invites -> Seq(TxStatus)] /\ transfers'[i] = t
      /\ \A j \in Invites : j # i => transfers'[j] = transfers[j]
  BY <1>2, <1>3 DEF IInv, TypeOK
<1>5. Grows
  BY <1>3, <1>4 DEF Grows, Unsettled
<1>6. TypeOK'
  BY <1>4 DEF IInv, TypeOK
<1>7. KnowledgeInv'
  BY <1>5, KnowledgeStays, MembersAre DEF IInv, KnowledgeInv
<1>8. FirstInv' /\ LockInv'
  BY DEF IInv, FirstInv, LockInv
<1>9. \A j \in Invites : Len(transfers'[j]) = Len(transfers[j]) /\ DOMAIN transfers'[j] = DOMAIN transfers[j]
  BY <1>3, <1>4
<1>10. LastIsKnown => LastIsKnown'
  BY <1>5, <1>9 DEF LastIsKnown, Grows
<1> QED
  BY <1>6, <1>7, <1>8, <1>10 DEF IInv

LEMMA TransferSettlesStep == ASSUME IInv, NEW i \in Invites, TransferSettles(i) PROVE IInv'
<1>1. PICK k \in DOMAIN transfers[i], s \in {"Completed", "Failed"} :
        transfers[i][k] = "Pending" /\ transfers' = [transfers EXCEPT ![i][k] = s]
  BY DEF TransferSettles
<1>2. faults' \in [Faults -> Nat] /\ BudgetInv' /\ (Lossless' => Lossless)
  BY NoFault DEF IInv, TransferSettles
<1>3. UNCHANGED <<rows, lock, first, watched, checking, retrying>> /\ s \in TxStatus
  BY DEF TransferSettles, TxStatus
<1> QED
  BY <1>1, <1>2, <1>3, ChainStep DEF Unsettled

LEMMA LateTransferStep == ASSUME IInv, NEW i \in Invites, LateTransfer(i) PROVE IInv'
<1>1. PICK k \in DOMAIN transfers[i] :
        transfers[i][k] = "Abandoned" /\ transfers' = [transfers EXCEPT ![i][k] = "Pending"]
  BY DEF LateTransfer
<1>2. faults' \in [Faults -> Nat] /\ BudgetInv' /\ (Lossless' => Lossless)
  BY NoFault DEF IInv, LateTransfer
<1>3. UNCHANGED <<rows, lock, first, watched, checking, retrying>> /\ "Pending" \in TxStatus
  BY DEF LateTransfer, TxStatus
<1> QED
  BY <1>1, <1>2, <1>3, ChainStep DEF Unsettled

LEMMA TransferReplacedStep == ASSUME IInv, NEW i \in Invites, TransferReplaced(i) PROVE IInv'
<1>1. PICK k \in DOMAIN transfers[i] :
        transfers[i][k] = "Pending" /\ transfers' = [transfers EXCEPT ![i][k] = "Replaced"]
  BY DEF TransferReplaced
<1>2. faults' \in [Faults -> Nat] /\ BudgetInv' /\ (Lossless' => Lossless)
  BY SpendEffect DEF IInv, TransferReplaced, Faults
<1>3. UNCHANGED <<rows, lock, first, watched, checking, retrying>> /\ "Replaced" \in TxStatus
  BY DEF TransferReplaced, TxStatus
<1> QED
  BY <1>1, <1>2, <1>3, ChainStep DEF Unsettled

-----------------------------------------------------------------------------
(* The first send *)

LEMMA CreateRewardStep ==
    ASSUME IInv, NEW n \in Instances, NEW i \in Invites, CreateReward(n, i)
    PROVE  IInv'
<1>1. /\ rows' = [rows EXCEPT ![i].state = "Created"] /\ rows[i].state = "none"
      /\ first' = [first EXCEPT ![i] = [NoSend EXCEPT !.st = "relay", !.at = n]]
      /\ UNCHANGED <<lock, transfers, watched, checking, retrying, faults>>
  BY DEF CreateReward
<1>2. faults' \in [Faults -> Nat] /\ BudgetInv' /\ (Lossless' => Lossless)
  BY <1>1, NoFault DEF IInv
<1>3. /\ rows' \in [Invites -> Rows] /\ rows'[i].state = "Created" /\ rows'[i].hash = NullHash
      /\ ~rows'[i].old /\ rows[i].hash = NullHash
      /\ \A j \in Invites : j # i => rows'[j] = rows[j]
  <2>1. PICK row : row = [rows[i] EXCEPT !.state = "Created"]
    OBVIOUS
  <2>2. rows[i] \in Rows /\ rows[i].hash = NullHash /\ ~rows[i].old
    BY <1>1 DEF IInv, TypeOK, FirstInv
  <2>3. row \in Rows /\ row.state = "Created" /\ row.hash = NullHash /\ ~row.old
    BY <2>1, <2>2 DEF Rows, RewardStatus
  <2>4. rows' = [rows EXCEPT ![i] = row]
    BY <1>1, <2>1
  <2> QED
    BY <2>2, <2>3, <2>4, RowBecomes DEF IInv
<1>4. /\ first' \in [Invites -> Sends] /\ first'[i].st = "relay" /\ first'[i].at = n
      /\ first'[i].hash = NullHash
      /\ \A j \in Invites : j # i => first'[j] = first[j]
  <2>1. PICK f : f = [NoSend EXCEPT !.st = "relay", !.at = n]
    OBVIOUS
  <2>2. f \in Sends /\ f.st = "relay" /\ f.at = n /\ f.hash = NullHash
    <3>1. f = [st |-> "relay", at |-> n, hash |-> NullHash]
      BY <2>1 DEF NoSend
    <3>2. NullHash \in Hashes
      BY SenderAssumption DEF NullHash, Hashes, SenderAssumption
    <3> HIDE DEF NullHash
    <3> QED
      BY <3>1, <3>2 DEF Sends
  <2>3. first' = [first EXCEPT ![i] = f]
    BY <1>1, <2>1
  <2> QED
    BY <2>2, <2>3, FirstBecomes DEF IInv
<1>5. TypeOK'
  BY <1>1, <1>3, <1>4 DEF IInv, TypeOK, Sends
<1>6. KnowledgeInv'
  <2>1. Grows
    BY <1>1, StaysGrows
  <2>2. RowKnown(i, rows[i])' /\ Known(i, first[i].hash)'
    BY <1>3, <1>4 DEF RowKnown, Known
  <2> QED
    BY <1>1, <1>3, <1>4, <2>1, <2>2, KnowledgeStays, MembersAre DEF IInv, KnowledgeInv
<1>7. FirstInv'
  BY <1>3, <1>4 DEF IInv, FirstInv
<1>8. \A m \in Instances : \A x \in retrying[m].items : x.invite # i /\ x.invite \in Invites
  <2> SUFFICES ASSUME NEW m \in Instances, NEW x \in retrying[m].items
               PROVE  x.invite # i /\ x.invite \in Invites
    OBVIOUS
  <2>1. x.invite \in Invites
    BY MembersAre DEF IInv, Items
  <2> QED
    BY <1>1, <2>1 DEF IInv, LockInv, FirstInv
<1>9. LockInv'
  BY <1>1, <1>3, <1>8 DEF IInv, LockInv
<1>10. LastIsKnown => LastIsKnown'
  <2> SUFFICES ASSUME LastIsKnown PROVE LastIsKnown'
    OBVIOUS
  <2>1. Len(transfers[i]) = 0
    <3>1. first[i].st = "none"
      BY <1>1 DEF IInv, FirstInv, TypeOK
    <3>2. lock[i] = NoInstance
      BY <1>8 DEF IInv, LockInv, TypeOK
    <3> QED
      BY <1>3, <3>1, <3>2 DEF LastIsKnown, NullHash
  <2> QED
    BY <1>1, <1>3, <1>4, <2>1 DEF LastIsKnown
<1> QED
  BY <1>2, <1>5, <1>6, <1>7, <1>9, <1>10 DEF IInv

\* Nobody has a reward in a transaction whose row is not old.
LEMMA YoungIsFree ==
    ASSUME IInv, NEW i \in Invites, ~rows[i].old
    PROVE  /\ \A m \in Instances : \A x \in retrying[m].items : x.invite # i
           /\ lock[i] = NoInstance
<1>1. \A m \in Instances : \A x \in retrying[m].items : x.invite # i
  BY DEF IInv, LockInv
<1> QED
  BY <1>1 DEF IInv, LockInv, TypeOK

LEMMA FirstRelayedStep ==
    ASSUME IInv, NEW i \in Invites, FirstRelayed(i)
    PROVE  IInv'
<1>1. first[i].st = "relay" /\ UNCHANGED <<rows, lock, watched, checking, retrying>>
  BY DEF FirstRelayed
<1>2. PICK answer \in Hashes : Relay(i, answer)
            /\ first' = [first EXCEPT ![i] = [@ EXCEPT !.st = "update", !.hash = answer]]
  BY DEF FirstRelayed
<1>3. /\ transfers' \in [Invites -> Seq(TxStatus)]
      /\ \A j \in Invites : j # i => transfers'[j] = transfers[j]
      /\ Grows /\ Known(i, answer)'
      /\ faults' \in [Faults -> Nat] /\ BudgetInv'
      /\ Lossless' => /\ Lossless
                      /\ \/ answer = NullHash /\ transfers'[i] = transfers[i]
                         \/ answer = Len(transfers'[i]) /\ answer # NullHash /\ Adds(i)
  BY <1>2, RelayEffect DEF IInv
<1>4. /\ first' \in [Invites -> Sends] /\ first'[i].st = "update" /\ first'[i].at = first[i].at
      /\ first'[i].hash = answer
      /\ \A j \in Invites : j # i => first'[j] = first[j]
  <2>1. PICK f : f = [first[i] EXCEPT !.st = "update", !.hash = answer]
    OBVIOUS
  <2>2. first[i] \in Sends
    BY DEF IInv, TypeOK, Sends
  <2>3. f \in Sends /\ f.st = "update" /\ f.at = first[i].at /\ f.hash = answer
    BY <2>1, <2>2 DEF Sends
  <2>4. first' = [first EXCEPT ![i] = f]
    BY <1>2, <2>1
  <2> QED
    BY <2>3, <2>4, FirstBecomes DEF IInv
<1>5. TypeOK'
  BY <1>1, <1>3, <1>4 DEF IInv, TypeOK, Sends
<1>6. KnowledgeInv'
  BY <1>1, <1>3, <1>4, KnowledgeStays, MembersAre DEF IInv, KnowledgeInv
<1>7. FirstInv' /\ LockInv'
  BY <1>1, <1>4 DEF IInv, FirstInv, LockInv
<1>8. ASSUME Lossless' PROVE LastIsKnown'
  <2>1. LastIsKnown /\ (\/ answer = NullHash /\ transfers'[i] = transfers[i]
                        \/ answer = Len(transfers'[i]) /\ answer # NullHash /\ Adds(i))
    BY <1>3, <1>8 DEF IInv
  <2>2. Len(transfers[i]) = 0 /\ DOMAIN transfers[i] = {}
    BY <1>1, <2>1, TransfersAre DEF IInv, LastIsKnown
  <2>3. Len(transfers'[i]) = answer /\ \A k \in DOMAIN transfers'[i] : ~ (k < Len(transfers'[i]))
    <3>1. CASE answer = NullHash /\ transfers'[i] = transfers[i]
      BY <2>2, <3>1 DEF NullHash
    <3>2. CASE answer = Len(transfers'[i]) /\ answer # NullHash /\ Adds(i)
      <4>1. DOMAIN transfers'[i] = {1} /\ Len(transfers'[i]) = 1
        BY <2>2, <3>2 DEF Adds
      <4> QED
        BY <3>2, <4>1
    <3> QED
      BY <2>1, <3>1, <3>2
  <2>4. \A m \in Instances : \A x \in retrying[m].items : x.invite # i
    BY <1>1, YoungIsFree DEF IInv, FirstInv
  <2>5. LastIsKnown /\ \A j \in Invites : j # i => transfers'[j] = transfers[j]
    BY <1>3, <2>1
  <2> QED
    BY <1>1, <1>4, <2>3, <2>4, <2>5 DEF LastIsKnown
<1> QED
  BY <1>3, <1>5, <1>6, <1>7, <1>8 DEF IInv

\* What sendInviteReward writes has the hash of the answer, or keeps its own.
LEMMA SentFirst ==
    ASSUME NEW row \in Rows, NEW answer \in Hashes
    PROVE  /\ Sent(row, answer, FALSE) \in Rows
           /\ Sent(row, answer, FALSE).old = row.old
           /\ Sent(row, answer, FALSE).state \in {"Submitted", "Failed"}
           /\ Sent(row, answer, FALSE).state = "Submitted" => answer # NullHash
           /\ Sent(row, answer, FALSE).hash = IF answer # NullHash THEN answer ELSE row.hash
BY DEF Sent, Rows, RewardStatus

LEMMA SentAgain ==
    ASSUME NEW row \in Rows, NEW answer \in Hashes
    PROVE  /\ Sent(row, answer, TRUE) \in Rows
           /\ Sent(row, answer, TRUE).old = row.old
           /\ Sent(row, answer, TRUE).state \in {"Submitted", "DeadLettered"}
           /\ Sent(row, answer, TRUE).state = "Submitted" => answer # NullHash
           /\ Sent(row, answer, TRUE).hash = IF answer # NullHash THEN answer ELSE row.hash
BY DEF Sent, Rows, RewardStatus

LEMMA FirstRemembered ==
    ASSUME NEW i \in Invites, NEW answer \in Hashes
    PROVE  /\ Remembered(i, answer, FALSE) \subseteq Watched
           /\ \A w \in Remembered(i, answer, FALSE) : w.invite = i /\ w.hash = answer /\ answer # NullHash
<1>1. CASE answer = NullHash
  BY <1>1 DEF Remembered
<1>2. CASE answer # NullHash
  <2>1. answer \in 1 .. MaxSends
    BY <1>2, SenderAssumption DEF Hashes, NullHash, SenderAssumption
  <2>2. PICK w : w = [invite |-> i, hash |-> answer, markAsDeadLetterIfFailed |-> FALSE]
    OBVIOUS
  <2>3. w \in Watched /\ w.invite = i /\ w.hash = answer
    BY <2>1, <2>2 DEF Watched
  <2>4. Remembered(i, answer, FALSE) = {w}
    BY <1>2, <2>2 DEF Remembered
  <2> QED
    BY <1>2, <2>3, <2>4
<1> QED
  BY <1>1, <1>2

LEMMA RetryRemembered ==
    ASSUME NEW i \in Invites, NEW answer \in Hashes
    PROVE  /\ Remembered(i, answer, TRUE) \subseteq Watched
           /\ \A w \in Remembered(i, answer, TRUE) : w.invite = i /\ w.hash = answer /\ answer # NullHash
<1>1. CASE answer = NullHash
  BY <1>1 DEF Remembered
<1>2. CASE answer # NullHash
  <2>1. answer \in 1 .. MaxSends
    BY <1>2, SenderAssumption DEF Hashes, NullHash, SenderAssumption
  <2>2. PICK w : w = [invite |-> i, hash |-> answer, markAsDeadLetterIfFailed |-> TRUE]
    OBVIOUS
  <2>3. w \in Watched /\ w.invite = i /\ w.hash = answer
    BY <2>1, <2>2 DEF Watched
  <2>4. Remembered(i, answer, TRUE) = {w}
    BY <1>2, <2>2 DEF Remembered
  <2> QED
    BY <1>2, <2>3, <2>4
<1> QED
  BY <1>1, <1>2

\* A process remembers one more hash.
LEMMA WatchedBecomes ==
    ASSUME TypeOK, NEW n \in Instances, NEW W \in SUBSET Watched, watched' = [watched EXCEPT ![n] = W]
    PROVE  /\ watched' \in [Instances -> SUBSET Watched] /\ watched'[n] = W
           /\ \A m \in Instances : m # n => watched'[m] = watched[m]
BY DEF TypeOK

LEMMA FirstRecordedStep ==
    ASSUME IInv, NEW i \in Invites, FirstRecorded(i)
    PROVE  IInv'
<1>1. first[i].st = "update" /\ lock[i] = NoInstance
      /\ UNCHANGED <<lock, transfers, checking, retrying, faults>>
  BY DEF FirstRecorded
<1>2. PICK n, h : n = first[i].at /\ h = first[i].hash
  OBVIOUS
<1>3. n \in Instances /\ h \in Hashes /\ rows[i] \in Rows /\ ~rows[i].old /\ rows[i].hash = NullHash
  BY <1>1, <1>2 DEF IInv, FirstInv, TypeOK
<1>4. PICK row : row = Sent(rows[i], h, FALSE)
  OBVIOUS
<1>5. row \in Rows /\ row.state # "none" /\ row.state # "Completed" /\ ~row.old /\ row.hash = h
  BY <1>3, <1>4, SentFirst
<1>6. rows' \in [Invites -> Rows] /\ rows'[i] = row /\ \A j \in Invites : j # i => rows'[j] = rows[j]
  <2>1. rows' = [rows EXCEPT ![i] = row]
    BY <1>2, <1>4 DEF FirstRecorded
  <2> QED
    BY <1>5, <2>1, RowBecomes DEF IInv
<1>7. first' \in [Invites -> Sends] /\ first'[i] = NoSend /\ \A j \in Invites : j # i => first'[j] = first[j]
  <2>1. NoSend \in Sends
    BY SenderAssumption DEF NoSend, Sends, NullHash, Hashes, SenderAssumption
  <2> QED
    BY <2>1, FirstBecomes DEF IInv, FirstRecorded
<1>8. /\ watched' \in [Instances -> SUBSET Watched]
      /\ watched'[n] = watched[n] \cup Remembered(i, h, FALSE)
      /\ \A m \in Instances : m # n => watched'[m] = watched[m]
  <2>1. PICK W : W = watched[n] \cup Remembered(i, h, FALSE)
    OBVIOUS
  <2>2. W \in SUBSET Watched
    BY <1>3, <2>1, FirstRemembered, MembersAre DEF IInv
  <2>3. watched' = [watched EXCEPT ![n] = W]
    BY <1>2, <2>1 DEF FirstRecorded
  <2> QED
    BY <1>3, <2>1, <2>2, <2>3, WatchedBecomes DEF IInv
<1>9. TypeOK'
  BY <1>1, <1>6, <1>7, <1>8 DEF IInv, TypeOK, Sends
<1>10. KnowledgeInv'
  <2>1. Grows /\ Known(i, h)
    BY <1>1, <1>2, StaysGrows DEF IInv, KnowledgeInv
  <2>2. RowKnown(i, row)' /\ Known(i, NoSend.hash)'
    BY <1>1, <1>5, <2>1 DEF RowKnown, Known, NoSend
  <2>3. \A w \in Remembered(i, h, FALSE) : WatchKnown(w)'
    <3>1. \A w \in Remembered(i, h, FALSE) : w.invite = i /\ w.hash = h /\ h # NullHash
      BY <1>3, FirstRemembered
    <3> QED
      BY <1>1, <2>1, <3>1 DEF WatchKnown, Known
  <2>4. \A m \in Instances : \A w \in watched'[m] : WatchKnown(w)'
    BY <1>8, <2>1, <2>3, KnowledgeStays, MembersAre DEF IInv, KnowledgeInv
  <2>5. \A j \in Invites : RowKnown(j, rows[j])' /\ Known(j, first[j].hash)'
    BY <1>6, <1>7, <2>1, <2>2, KnowledgeStays DEF IInv, KnowledgeInv
  <2> QED
    BY <1>1, <2>1, <2>4, <2>5, KnowledgeStays, MembersAre DEF IInv, KnowledgeInv
<1>11. FirstInv'
  BY <1>5, <1>6, <1>7 DEF IInv, FirstInv, NoSend
<1>12. \A m \in Instances : \A x \in retrying[m].items : x.invite # i /\ x.invite \in Invites
  <2>1. \A m \in Instances : \A x \in retrying[m].items : x.invite \in Invites
    BY MembersAre DEF IInv, Items
  <2> QED
    BY <1>3, <2>1, YoungIsFree
<1>13. LockInv'
  BY <1>1, <1>6, <1>12 DEF IInv, LockInv
<1>14. LastIsKnown => LastIsKnown'
  <2> SUFFICES ASSUME LastIsKnown PROVE LastIsKnown'
    OBVIOUS
  <2>1. Len(transfers[i]) = row.hash /\ NoSend.st = "none"
    BY <1>1, <1>2, <1>5 DEF LastIsKnown, NoSend
  <2> QED
    BY <1>1, <1>6, <1>7, <1>12, <2>1 DEF LastIsKnown
<1>15. BudgetInv' /\ (Lossless' => Lossless)
  BY <1>1, NoFault DEF IInv
<1> QED
  BY <1>9, <1>10, <1>11, <1>13, <1>14, <1>15 DEF IInv

\* A first send is given up, with its answer.
LEMMA FirstNotRecordedStep ==
    ASSUME IInv, NEW i \in Invites, FirstNotRecorded(i)
    PROVE  IInv'
<1>1. UNCHANGED <<rows, lock, transfers, watched, checking, retrying>>
  BY DEF FirstNotRecorded
<1>2. first' \in [Invites -> Sends] /\ first'[i] = NoSend /\ \A j \in Invites : j # i => first'[j] = first[j]
  <2>1. NoSend \in Sends
    BY SenderAssumption DEF NoSend, Sends, NullHash, Hashes, SenderAssumption
  <2> QED
    BY <2>1, FirstBecomes DEF IInv, FirstNotRecorded
<1>3. faults' \in [Faults -> Nat] /\ BudgetInv' /\ ~Lossless'
  BY SpendEffect DEF IInv, FirstNotRecorded, Faults
<1>4. TypeOK'
  BY <1>1, <1>2, <1>3 DEF IInv, TypeOK, Sends
<1>5. KnowledgeInv'
  <2>1. Known(i, NoSend.hash)'
    BY DEF Known, NoSend
  <2> QED
    BY <1>1, <1>2, <2>1, StaysGrows, KnowledgeStays, MembersAre DEF IInv, KnowledgeInv
<1>6. FirstInv' /\ LockInv'
  BY <1>1, <1>2 DEF IInv, FirstInv, LockInv, NoSend
<1> QED
  BY <1>3, <1>4, <1>5, <1>6 DEF IInv

LEMMA AgesStep ==
    ASSUME IInv, NEW i \in Invites, Ages(i)
    PROVE  IInv'
<1>1. rows[i].state # "none" /\ ~rows[i].old /\ first[i].st = "none"
      /\ UNCHANGED <<lock, transfers, first, watched, checking, retrying, faults>>
  BY DEF Ages
<1>2. /\ rows' \in [Invites -> Rows] /\ rows'[i].state = rows[i].state /\ rows'[i].hash = rows[i].hash
      /\ \A j \in Invites : j # i => rows'[j] = rows[j]
  <2>1. PICK row : row = [rows[i] EXCEPT !.old = TRUE]
    OBVIOUS
  <2>2. rows[i] \in Rows
    BY DEF IInv, TypeOK
  <2>3. row \in Rows /\ row.state = rows[i].state /\ row.hash = rows[i].hash
    BY <2>1, <2>2 DEF Rows
  <2>4. rows' = [rows EXCEPT ![i] = row]
    BY <2>1 DEF Ages
  <2> QED
    BY <2>3, <2>4, RowBecomes DEF IInv
<1>3. TypeOK'
  BY <1>1, <1>2 DEF IInv, TypeOK
<1>4. KnowledgeInv'
  <2>1. RowKnown(i, rows[i])'
    BY <1>1, <1>2 DEF IInv, KnowledgeInv, RowKnown, Known, Paid
  <2> QED
    BY <1>1, <1>2, <2>1, StaysGrows, KnowledgeStays, MembersAre DEF IInv, KnowledgeInv
<1>5. FirstInv'
  BY <1>1, <1>2 DEF IInv, FirstInv
<1>6. \A m \in Instances : \A x \in retrying[m].items : x.invite # i /\ x.invite \in Invites
  <2>1. \A m \in Instances : \A x \in retrying[m].items : x.invite \in Invites
    BY MembersAre DEF IInv, Items
  <2> QED
    BY <1>1, <2>1, YoungIsFree
<1>7. LockInv'
  BY <1>1, <1>2, <1>6 DEF IInv, LockInv
<1>8. LastIsKnown => LastIsKnown'
  BY <1>1, <1>2 DEF LastIsKnown
<1>9. BudgetInv' /\ (Lossless' => Lossless)
  BY <1>1, NoFault DEF IInv
<1> QED
  BY <1>3, <1>4, <1>5, <1>7, <1>8, <1>9 DEF IInv

-----------------------------------------------------------------------------
(* checkWatchedInvites *)

\* A process learns something about the transfers it watches.
LEMMA CheckingStep ==
    ASSUME IInv, NEW n \in Instances, NEW C \in SUBSET Checks, \A c \in C : CheckKnown(c),
           checking' = [checking EXCEPT ![n] = C],
           UNCHANGED <<rows, lock, transfers, first, watched, retrying, faults>>
    PROVE  IInv'
<1>1. checking' \in [Instances -> SUBSET Checks] /\ checking'[n] = C
      /\ \A m \in Instances : m # n => checking'[m] = checking[m]
  BY DEF IInv, TypeOK, Checks
<1>2. TypeOK'
  BY <1>1 DEF IInv, TypeOK, Checks
<1>3. KnowledgeInv'
  <2>1. \A m \in Instances : \A c \in checking'[m] : c \in Checks /\ CheckKnown(c)
    BY <1>1, MembersAre DEF IInv, KnowledgeInv
  <2> QED
    BY <2>1, StaysGrows, KnowledgeStays, MembersAre DEF IInv, KnowledgeInv
<1>4. FirstInv' /\ LockInv' /\ (LastIsKnown => LastIsKnown')
  BY DEF IInv, FirstInv, LockInv, LastIsKnown
<1>5. BudgetInv' /\ (Lossless' => Lossless)
  BY NoFault DEF IInv
<1> QED
  BY <1>2, <1>3, <1>4, <1>5 DEF IInv

LEMMA CheckWatchedStep == ASSUME IInv, NEW n \in Instances, CheckWatched(n) PROVE IInv'
<1>1. PICK C : C = {[w |-> w, status |-> "ask"] : w \in watched[n]}
  OBVIOUS
<1>2. watched[n] \subseteq Watched /\ \A w \in watched[n] : WatchKnown(w)
  BY MembersAre DEF IInv, KnowledgeInv
<1>3. C \in SUBSET Checks /\ \A c \in C : CheckKnown(c)
  BY <1>1, <1>2 DEF Checks, CheckKnown
<1> QED
  BY <1>1, <1>3, CheckingStep DEF CheckWatched

\* The status a process gets for a transfer that was sent is true.
LEMMA StatusIsTrue ==
    ASSUME TypeOK, NEW i \in Invites, NEW k \in DOMAIN transfers[i]
    PROVE  /\ getTxStatus(i, k) \in {"Pending", "Completed", "Failed"}
           /\ getTxStatus(i, k) = "Completed" => Paid(i) # {}
           /\ getTxStatus(i, k) = "Failed" => transfers[i][k] = "Failed"
BY DEF getTxStatus, Paid

LEMMA WatchedStatusStep == ASSUME IInv, NEW n \in Instances, WatchedStatus(n) PROVE IInv'
<1>1. UNCHANGED <<rows, lock, transfers, first, watched, retrying, faults>>
  BY DEF WatchedStatus
<1>2. PICK c \in checking[n] :
        LET s == getTxStatus(c.w.invite, c.w.hash) IN
            checking' = [checking EXCEPT ![n] =
                (@ \ {c}) \cup (IF s = "Pending" THEN {} ELSE {[c EXCEPT !.status = s]})]
  BY DEF WatchedStatus
<1>3. PICK s : s = getTxStatus(c.w.invite, c.w.hash)
  OBVIOUS
<1>4. PICK D : D = (IF s = "Pending" THEN {} ELSE {[c EXCEPT !.status = s]})
  OBVIOUS
<1>5. PICK C : C = (checking[n] \ {c}) \cup D
  OBVIOUS
<1>6. checking[n] \subseteq Checks /\ \A d \in checking[n] : CheckKnown(d)
  BY MembersAre DEF IInv, KnowledgeInv
<1>7. c \in Checks /\ c.w \in Watched /\ c.w.invite \in Invites /\ WatchKnown(c.w)
  BY <1>6 DEF Checks, Watched, CheckKnown
<1>8. /\ s \in {"Pending", "Completed", "Failed"}
      /\ s = "Completed" => Paid(c.w.invite) # {}
  BY <1>3, <1>7, StatusIsTrue DEF IInv, WatchKnown
<1>9. D \subseteq Checks /\ \A d \in D : CheckKnown(d)
  <2>1. CASE s = "Pending"
    BY <1>4, <2>1
  <2>2. CASE s # "Pending"
    <3>1. PICK d : d = [c EXCEPT !.status = s]
      OBVIOUS
    <3>2. d \in Checks /\ d.w = c.w /\ d.status = s
      BY <1>7, <1>8, <2>2, <3>1 DEF Checks
    <3>3. CheckKnown(d)
      BY <1>7, <1>8, <3>2 DEF CheckKnown
    <3> QED
      BY <1>4, <2>2, <3>1, <3>2, <3>3
  <2> QED
    BY <2>1, <2>2
<1>10. C \in SUBSET Checks /\ \A d \in C : CheckKnown(d)
  BY <1>5, <1>6, <1>9
<1>11. checking' = [checking EXCEPT ![n] = C]
  BY <1>2, <1>3, <1>4, <1>5
<1> QED
  BY <1>1, <1>10, <1>11, CheckingStep

LEMMA WatchedUpdateStep == ASSUME IInv, NEW n \in Instances, WatchedUpdate(n) PROVE IInv'
<1>1. UNCHANGED <<lock, transfers, first, retrying, faults>>
  BY DEF WatchedUpdate
<1>2. PICK c \in checking[n] :
        /\ c.status # "ask" /\ lock[c.w.invite] = NoInstance
        /\ rows' = [rows EXCEPT ![c.w.invite].state =
                        IF c.status = "Completed" THEN "Completed"
                        ELSE IF c.w.markAsDeadLetterIfFailed THEN "DeadLettered"
                        ELSE "Failed"]
        /\ watched' = [watched EXCEPT ![n] = @ \ {c.w}]
        /\ checking' = [checking EXCEPT ![n] = @ \ {c}]
  BY DEF WatchedUpdate
<1>3. PICK i, st : i = c.w.invite /\ st = IF c.status = "Completed" THEN "Completed"
                        ELSE IF c.w.markAsDeadLetterIfFailed THEN "DeadLettered"
                        ELSE "Failed"
  OBVIOUS
<1>4. checking[n] \subseteq Checks /\ CheckKnown(c)
  BY MembersAre DEF IInv, KnowledgeInv
<1>5. i \in Invites /\ st \in RewardStatus /\ st # "none" /\ (st = "Completed" => Paid(i) # {})
  BY <1>3, <1>4 DEF CheckKnown, Checks, Watched, RewardStatus
<1>6. /\ rows' \in [Invites -> Rows] /\ rows'[i].state = st
      /\ rows'[i].hash = rows[i].hash /\ rows'[i].old = rows[i].old
      /\ \A j \in Invites : j # i => rows'[j] = rows[j]
  <2>1. PICK row : row = [rows[i] EXCEPT !.state = st]
    OBVIOUS
  <2>2. rows[i] \in Rows
    BY <1>5 DEF IInv, TypeOK
  <2>3. row \in Rows /\ row.state = st /\ row.hash = rows[i].hash /\ row.old = rows[i].old
    BY <1>5, <2>1, <2>2 DEF Rows
  <2>4. rows' = [rows EXCEPT ![i] = row]
    BY <1>2, <1>3, <2>1
  <2> QED
    BY <1>5, <2>3, <2>4, RowBecomes DEF IInv
<1>7. /\ watched' \in [Instances -> SUBSET Watched] /\ checking' \in [Instances -> SUBSET Checks]
      /\ \A m \in Instances : watched'[m] \subseteq watched[m] /\ checking'[m] \subseteq checking[m]
  BY <1>2 DEF IInv, TypeOK, Checks
<1>8. TypeOK'
  BY <1>1, <1>6, <1>7 DEF IInv, TypeOK, Checks
<1>9. KnowledgeInv'
  <2>1. Grows
    BY <1>1, StaysGrows
  <2>2. RowKnown(i, rows[i])'
    BY <1>1, <1>5, <1>6 DEF IInv, KnowledgeInv, RowKnown, Known, Paid
  <2>3. \A j \in Invites : RowKnown(j, rows[j])' /\ Known(j, first[j].hash)'
    BY <1>1, <1>6, <2>1, <2>2, KnowledgeStays DEF IInv, KnowledgeInv
  <2>4. \A m \in Instances : /\ \A w \in watched'[m] : WatchKnown(w)'
                             /\ \A d \in checking'[m] : CheckKnown(d)'
    BY <1>7, <2>1, KnowledgeStays, MembersAre DEF IInv, KnowledgeInv
  <2> QED
    BY <1>1, <2>1, <2>3, <2>4, KnowledgeStays, MembersAre DEF IInv, KnowledgeInv
<1>10. FirstInv'
  <2>1. \A j \in Invites : j # i => rows'[j] = rows[j] /\ first'[j] = first[j]
    BY <1>1, <1>6
  <2> QED
    BY <1>1, <1>5, <1>6, <2>1 DEF IInv, FirstInv
<1>11. \A m \in Instances : \A x \in retrying[m].items : x.invite # i /\ x.invite \in Invites
  <2>1. \A m \in Instances : \A x \in retrying[m].items : x.invite \in Invites
    BY MembersAre DEF IInv, Items
  <2> QED
    BY <1>2, <1>3, <2>1, SenderAssumption DEF IInv, LockInv, SenderAssumption
<1>12. LockInv'
  BY <1>1, <1>6, <1>11 DEF IInv, LockInv
<1>13. LastIsKnown => LastIsKnown'
  BY <1>1, <1>6 DEF LastIsKnown
<1>14. BudgetInv' /\ (Lossless' => Lossless)
  BY <1>1, NoFault DEF IInv
<1> QED
  BY <1>8, <1>9, <1>10, <1>12, <1>13, <1>14 DEF IInv

-----------------------------------------------------------------------------
(* checkFailedInvites *)

Retries == [on : BOOLEAN, items : SUBSET Items]

LEMMA RetryingBecomes ==
    ASSUME TypeOK, NEW n \in Instances, NEW r \in Retries, retrying' = [retrying EXCEPT ![n] = r]
    PROVE  /\ retrying' \in [Instances -> Retries] /\ retrying'[n] = r
           /\ \A m \in Instances : m # n => retrying'[m] = retrying[m]
BY DEF TypeOK, Retries, Items

\* The transaction copies the rows it has locked.
LEMMA CheckFailedStep == ASSUME IInv, NEW n \in Instances, CheckFailed(n) PROVE IInv'
<1>1. ~retrying[n].on /\ UNCHANGED <<rows, transfers, first, watched, checking, faults>>
  BY DEF CheckFailed
<1>2. PICK selected \in SUBSET {i \in Invites : Unfinished(rows[i])} :
        /\ \A i \in selected : lock[i] = NoInstance
        /\ lock' = [i \in Invites |-> IF i \in selected THEN n ELSE lock[i]]
        /\ retrying' = [retrying EXCEPT ![n] =
            [on |-> TRUE, items |-> {[invite |-> i, st |-> "ask", row |-> rows[i]] : i \in selected}]]
  BY DEF CheckFailed
<1>3. PICK X : X = {[invite |-> i, st |-> "ask", row |-> rows[i]] : i \in selected}
  OBVIOUS
<1>4. \A i \in selected : i \in Invites /\ rows[i] \in Rows /\ rows[i].old /\ rows[i].state # "none"
  BY <1>2 DEF IInv, TypeOK, Unfinished
<1>5. \A x \in X : /\ x \in Items /\ x.invite \in selected /\ x.st = "ask" /\ x.row = rows[x.invite]
                   /\ x = [invite |-> x.invite, st |-> "ask", row |-> rows[x.invite]]
  BY <1>3, <1>4 DEF Items
<1>6. \A i \in selected : \E x \in X : x.invite = i
  <2> SUFFICES ASSUME NEW i \in selected PROVE \E x \in X : x.invite = i
    OBVIOUS
  <2>1. PICK x : x = [invite |-> i, st |-> "ask", row |-> rows[i]]
    OBVIOUS
  <2>2. x \in X /\ x.invite = i
    BY <1>3, <2>1
  <2> QED
    BY <2>2
<1>7. PICK r : r = [on |-> TRUE, items |-> X]
  OBVIOUS
<1>8. r \in Retries /\ r.on /\ r.items = X
  BY <1>5, <1>7 DEF Retries
<1>9. /\ retrying' \in [Instances -> Retries] /\ retrying'[n].on /\ retrying'[n].items = X
      /\ \A m \in Instances : m # n => retrying'[m] = retrying[m]
  BY <1>2, <1>3, <1>7, <1>8, RetryingBecomes DEF IInv
<1>10. retrying[n].items = {} /\ \A i \in Invites : lock[i] # n
  BY <1>1 DEF IInv, LockInv
<1>11. lock' \in [Invites -> Instances \cup {NoInstance}]
       /\ \A i \in Invites : lock'[i] = IF i \in selected THEN n ELSE lock[i]
  BY <1>2 DEF IInv, TypeOK
<1>12. TypeOK'
  BY <1>1, <1>9, <1>11 DEF IInv, TypeOK, Retries, Items
<1>13. KnowledgeInv'
  <2>1. Grows
    BY <1>1, StaysGrows
  <2>2. \A x \in X : ItemKnown(x)
    BY <1>4, <1>5 DEF IInv, KnowledgeInv, ItemKnown
  <2>3. \A m \in Instances : \A x \in retrying'[m].items : ItemKnown(x)'
    BY <1>5, <1>9, <2>1, <2>2, KnowledgeStays, MembersAre DEF IInv, KnowledgeInv
  <2> QED
    BY <1>1, <2>1, <2>3, KnowledgeStays, MembersAre DEF IInv, KnowledgeInv
<1>14. FirstInv' /\ BudgetInv' /\ (Lossless' => Lossless)
  BY <1>1, NoFault DEF IInv, FirstInv
<1>15. LockInv'
  <2> SUFFICES ASSUME NEW m \in Instances
               PROVE  /\ \A x \in retrying'[m].items :
                        /\ retrying'[m].on /\ lock'[x.invite] = m
                        /\ rows'[x.invite].old /\ x.row.old /\ x.row.state # "none"
                        /\ x.st \in {"ask", "relay"} => x.row = rows'[x.invite]
                        /\ \A y \in retrying'[m].items : x.invite = y.invite => x = y
                      /\ \A i \in Invites : lock'[i] = m => \E x \in retrying'[m].items : x.invite = i
    BY DEF LockInv
  <2>1. CASE m = n
    BY <1>1, <1>4, <1>5, <1>6, <1>9, <1>10, <1>11, <2>1
  <2>2. CASE m # n
    <3>1. \A x \in retrying[m].items : x.invite \in Invites /\ x.invite \notin selected
      <4>1. \A x \in retrying[m].items : x.invite \in Invites /\ lock[x.invite] = m
        BY MembersAre DEF IInv, Items, LockInv
      <4> QED
        BY <1>2, <4>1, SenderAssumption DEF SenderAssumption
    <3>2. \A i \in Invites : lock'[i] = m => lock[i] = m
      BY <1>11, <2>2
    <3> QED
      BY <1>1, <1>9, <1>11, <2>2, <3>1, <3>2 DEF IInv, LockInv
  <2> QED
    BY <2>1, <2>2
<1>16. LastIsKnown => LastIsKnown'
  <2> SUFFICES ASSUME LastIsKnown, NEW i \in Invites
               PROVE  /\ \A k \in DOMAIN transfers'[i] : k < Len(transfers'[i]) => transfers'[i][k] = "Failed"
                      /\ first'[i].st = "relay" => Len(transfers'[i]) = 0
                      /\ first'[i].st = "update" => Len(transfers'[i]) = first'[i].hash
                      /\ first'[i].st = "none" /\ lock'[i] = NoInstance => Len(transfers'[i]) = rows'[i].hash
                      /\ \A m \in Instances : \A x \in retrying'[m].items :
                            x.invite = i => Len(transfers'[i]) = x.row.hash
    BY DEF LastIsKnown
  <2>1. i \in selected => first[i].st = "none"
    BY <1>4 DEF IInv, FirstInv
  <2>2. \A x \in X : x.invite = i => Len(transfers[i]) = x.row.hash
    BY <1>2, <1>5, <2>1 DEF LastIsKnown
  <2>3. lock'[i] = NoInstance => lock[i] = NoInstance
    BY <1>2, <1>11
  <2> QED
    BY <1>1, <1>9, <2>2, <2>3 DEF LastIsKnown
<1> QED
  BY <1>12, <1>13, <1>14, <1>15, <1>16 DEF IInv

\* A transaction goes on with one of its copies.
LEMMA ItemReplaced ==
    ASSUME IInv, NEW n \in Instances, NEW x \in retrying[n].items, NEW y \in Items,
           y.invite = x.invite, y.row.old, y.row.state # "none",
           y.st \in {"ask", "relay"} => y.row = rows[x.invite],
           retrying' = ReplaceItem(n, x, y), UNCHANGED <<rows, lock>>
    PROVE  /\ retrying' \in [Instances -> Retries] /\ LockInv'
           /\ \A m \in Instances : \A z \in retrying'[m].items :
                z = y \/ (z \in retrying[m].items /\ z.invite # y.invite)
<1>1. retrying[n] \in Retries /\ retrying[n].items \subseteq Items
  BY DEF IInv, TypeOK, Retries, Items
<1>2. PICK X : X = (retrying[n].items \ {x}) \cup {y}
  OBVIOUS
<1>3. PICK r : r = [retrying[n] EXCEPT !.items = X]
  OBVIOUS
<1>4. r \in Retries /\ r.on = retrying[n].on /\ r.items = X
  BY <1>1, <1>2, <1>3 DEF Retries
<1>5. retrying' = [retrying EXCEPT ![n] = r]
  BY <1>2, <1>3 DEF ReplaceItem
<1>6. /\ retrying' \in [Instances -> Retries] /\ retrying'[n].on = retrying[n].on /\ retrying'[n].items = X
      /\ \A m \in Instances : m # n => retrying'[m] = retrying[m]
  BY <1>4, <1>5, RetryingBecomes DEF IInv
<1>7. /\ retrying[n].on /\ lock[x.invite] = n /\ rows[x.invite].old
      /\ \A z \in retrying[n].items : z # x => z.invite # x.invite
  BY DEF IInv, LockInv
<1>8. LockInv'
  <2> SUFFICES ASSUME NEW m \in Instances
               PROVE  /\ \A z \in retrying'[m].items :
                        /\ retrying'[m].on /\ lock'[z.invite] = m
                        /\ rows'[z.invite].old /\ z.row.old /\ z.row.state # "none"
                        /\ z.st \in {"ask", "relay"} => z.row = rows'[z.invite]
                        /\ \A u \in retrying'[m].items : z.invite = u.invite => z = u
                      /\ \A i \in Invites : lock'[i] = m => \E z \in retrying'[m].items : z.invite = i
    BY DEF LockInv
  <2>1. CASE m = n
    <3>1. ASSUME NEW z \in X, z # y
          PROVE  z \in retrying[n].items /\ z # x /\ z.invite # x.invite
      <4>1. z \in retrying[n].items /\ z # x
        BY <1>2, <3>1
      <4> QED
        BY <1>7, <4>1
    <3>2. \A i \in Invites : lock[i] = n => \E z \in X : z.invite = i
      BY <1>2 DEF IInv, LockInv
    <3>3. ASSUME NEW z \in X
          PROVE  /\ lock[z.invite] = n /\ rows[z.invite].old /\ z.row.old /\ z.row.state # "none"
                 /\ z.st \in {"ask", "relay"} => z.row = rows[z.invite]
      <4>1. CASE z = y
        BY <1>7, <4>1
      <4>2. CASE z # y
        BY <3>1, <4>2 DEF IInv, LockInv
      <4> QED
        BY <4>1, <4>2
    <3>4. ASSUME NEW z \in X, NEW u \in X, z.invite = u.invite
          PROVE  z = u
      BY <3>1, <3>4 DEF IInv, LockInv
    <3>5. retrying'[m].on /\ retrying'[m].items = X
      BY <1>6, <1>7, <2>1
    <3>6. \A z \in X : \A u \in X : z.invite = u.invite => z = u
      BY <3>4
    <3> QED
      BY <2>1, <3>2, <3>3, <3>5, <3>6
  <2>2. CASE m # n
    BY <1>6, <2>2 DEF IInv, LockInv
  <2> QED
    BY <2>1, <2>2
<1>9. ASSUME NEW m \in Instances, NEW z \in retrying'[m].items
      PROVE  z = y \/ (z \in retrying[m].items /\ z.invite # y.invite)
  <2>1. CASE m = n
    BY <1>2, <1>6, <1>7, <2>1
  <2>2. CASE m # n
    <3>1. z \in retrying[m].items /\ lock[z.invite] = m
      BY <1>6, <2>2 DEF IInv, LockInv
    <3> QED
      BY <1>7, <2>2, <3>1
  <2> QED
    BY <2>1, <2>2
<1> QED
  BY <1>6, <1>8, <1>9

LEMMA RetryStatusStep == ASSUME IInv, NEW n \in Instances, RetryStatus(n) PROVE IInv'
<1>1. UNCHANGED <<rows, lock, transfers, first, watched, checking, faults>>
  BY DEF RetryStatus
<1>2. PICK x \in retrying[n].items :
        /\ x.st = "ask"
        /\ LET s == IF x.row.hash = NullHash THEN "Failed"
                    ELSE getTxStatus(x.invite, x.row.hash)
           IN retrying' = ReplaceItem(n, x,
                CASE s = "Completed" -> [x EXCEPT !.st = "done", !.row.state = "Completed"]
                  [] s = "Failed"    -> [x EXCEPT !.st = "relay"]
                  [] s = "Pending"   -> [x EXCEPT !.st = "done"])
  BY DEF RetryStatus
<1>3. PICK s : s = IF x.row.hash = NullHash THEN "Failed" ELSE getTxStatus(x.invite, x.row.hash)
  OBVIOUS
<1>4. PICK y : y = CASE s = "Completed" -> [x EXCEPT !.st = "done", !.row.state = "Completed"]
                     [] s = "Failed"    -> [x EXCEPT !.st = "relay"]
                     [] s = "Pending"   -> [x EXCEPT !.st = "done"]
  OBVIOUS
<1>5. retrying' = ReplaceItem(n, x, y)
  BY <1>2, <1>3, <1>4
<1>6. /\ x \in Items /\ x.invite \in Invites /\ x.row \in Rows /\ ItemKnown(x)
      /\ x.row.old /\ x.row.state # "none" /\ x.row = rows[x.invite]
  BY <1>2, MembersAre DEF IInv, KnowledgeInv, LockInv, Items
<1>7. /\ s \in {"Pending", "Completed", "Failed"}
      /\ s = "Completed" => Paid(x.invite) # {}
      /\ s = "Failed" /\ x.row.hash # NullHash => transfers[x.invite][x.row.hash] = "Failed"
  <2>1. CASE x.row.hash = NullHash
    BY <1>3, <2>1
  <2>2. CASE x.row.hash # NullHash
    <3>1. x.row.hash \in DOMAIN transfers[x.invite]
      BY <1>6, <2>2 DEF ItemKnown, RowKnown, Known
    <3> QED
      BY <1>3, <1>6, <2>2, <3>1, StatusIsTrue DEF IInv
  <2> QED
    BY <2>1, <2>2
<1>8. /\ y \in Items /\ y.invite = x.invite /\ y.row.hash = x.row.hash
      /\ y.row.old /\ y.row.state # "none"
      /\ y.st \in {"ask", "relay"} => y.row = x.row /\ s = "Failed"
      /\ y.row.state = "Completed" => x.row.state = "Completed" \/ s = "Completed"
  <2>1. CASE s = "Completed"
    <3>1. PICK row : row = [x.row EXCEPT !.state = "Completed"]
      OBVIOUS
    <3>2. row \in Rows /\ row.hash = x.row.hash /\ row.old /\ row.state = "Completed"
      BY <1>6, <3>1 DEF Rows, RewardStatus
    <3>3. y = [x EXCEPT !.st = "done", !.row = row]
      BY <1>4, <1>6, <2>1, <3>1 DEF Items
    <3> QED
      BY <1>6, <2>1, <3>2, <3>3 DEF Items
  <2>2. CASE s = "Failed"
    <3>1. y = [x EXCEPT !.st = "relay"]
      BY <1>4, <2>2
    <3> QED
      BY <1>6, <2>2, <3>1 DEF Items
  <2>3. CASE s = "Pending"
    <3>1. y = [x EXCEPT !.st = "done"]
      BY <1>4, <2>3
    <3> QED
      BY <1>6, <2>3, <3>1 DEF Items
  <2> QED
    BY <1>7, <2>1, <2>2, <2>3
<1>9. ItemKnown(y)
  BY <1>6, <1>7, <1>8 DEF ItemKnown, RowKnown
<1>10. /\ retrying' \in [Instances -> Retries] /\ LockInv'
       /\ \A m \in Instances : \A z \in retrying'[m].items :
            z = y \/ (z \in retrying[m].items /\ z.invite # y.invite)
  BY <1>1, <1>5, <1>6, <1>8, ItemReplaced
<1>11. TypeOK'
  BY <1>1, <1>10 DEF IInv, TypeOK, Retries, Items
<1>12. KnowledgeInv'
  <2>1. Grows
    BY <1>1, StaysGrows
  <2>2. \A m \in Instances : \A z \in retrying'[m].items : z \in Items /\ ItemKnown(z)
    BY <1>8, <1>9, <1>10, MembersAre DEF IInv, KnowledgeInv
  <2> QED
    BY <1>1, <2>1, <2>2, KnowledgeStays, MembersAre DEF IInv, KnowledgeInv
<1>13. FirstInv' /\ BudgetInv' /\ (Lossless' => Lossless)
  BY <1>1, NoFault DEF IInv, FirstInv
<1>14. LastIsKnown => LastIsKnown'
  BY <1>1, <1>6, <1>8, <1>10 DEF LastIsKnown
<1> QED
  BY <1>10, <1>11, <1>12, <1>13, <1>14 DEF IInv

LEMMA RetryRelayedStep == ASSUME IInv, NEW n \in Instances, RetryRelayed(n) PROVE IInv'
<1>1. UNCHANGED <<rows, lock, first, watched, checking>>
  BY DEF RetryRelayed
<1>2. PICK x \in retrying[n].items, answer \in Hashes :
        /\ x.st = "relay" /\ Relay(x.invite, answer)
        /\ retrying' = ReplaceItem(n, x, [x EXCEPT !.st = "update", !.row = Sent(@, answer, TRUE)])
  BY DEF RetryRelayed
<1>3. PICK i, row : i = x.invite /\ row = Sent(x.row, answer, TRUE)
  OBVIOUS
<1>4. PICK y : y = [x EXCEPT !.st = "update", !.row = row]
  OBVIOUS
<1>5. retrying' = ReplaceItem(n, x, y)
  BY <1>2, <1>3, <1>4
<1>6. /\ x \in Items /\ i \in Invites /\ x.row \in Rows /\ ItemKnown(x)
      /\ x.row.old /\ lock[i] = n /\ rows[i].old
  BY <1>2, <1>3, MembersAre DEF IInv, KnowledgeInv, LockInv, Items
<1>7. /\ row \in Rows /\ row.old /\ row.state # "none" /\ row.state # "Completed"
      /\ row.hash = IF answer # NullHash THEN answer ELSE x.row.hash
  BY <1>3, <1>6, SentAgain
<1>8. y \in Items /\ y.invite = i /\ y.st = "update" /\ y.row = row
  BY <1>3, <1>4, <1>6, <1>7 DEF Items
<1>9. /\ transfers' \in [Invites -> Seq(TxStatus)]
      /\ \A j \in Invites : j # i => transfers'[j] = transfers[j]
      /\ Grows /\ Known(i, answer)'
      /\ faults' \in [Faults -> Nat] /\ BudgetInv'
      /\ Lossless' => /\ Lossless
                      /\ \/ answer = NullHash /\ transfers'[i] = transfers[i]
                         \/ answer = Len(transfers'[i]) /\ answer # NullHash /\ Adds(i)
  BY <1>2, <1>3, <1>6, RelayEffect DEF IInv
<1>10. /\ retrying' \in [Instances -> Retries] /\ LockInv'
       /\ \A m \in Instances : \A z \in retrying'[m].items :
            z = y \/ (z \in retrying[m].items /\ z.invite # y.invite)
  <2>1. y.invite = x.invite /\ y.row.old /\ y.row.state # "none" /\ y.st \notin {"ask", "relay"}
    BY <1>3, <1>7, <1>8
  <2> QED
    BY <1>1, <1>5, <1>8, <2>1, ItemReplaced
<1>11. TypeOK'
  BY <1>1, <1>9, <1>10 DEF IInv, TypeOK, Retries, Items
<1>12. KnowledgeInv'
  <2>1. Known(i, x.row.hash)'
    BY <1>3, <1>6, <1>9, KnowledgeStays DEF ItemKnown, RowKnown
  <2>2. Known(i, row.hash)'
    BY <1>7, <1>9, <2>1
  <2>3. ItemKnown(y)'
    BY <1>7, <1>8, <2>2 DEF ItemKnown, RowKnown
  <2>4. \A m \in Instances : \A z \in retrying'[m].items : ItemKnown(z)'
    BY <1>9, <1>10, <2>3, KnowledgeStays, MembersAre DEF IInv, KnowledgeInv
  <2> QED
    BY <1>1, <1>9, <2>4, KnowledgeStays, MembersAre DEF IInv, KnowledgeInv
<1>13. FirstInv'
  BY <1>1 DEF IInv, FirstInv
<1>14. ASSUME Lossless' PROVE LastIsKnown'
  <2>1. LastIsKnown /\ (\/ answer = NullHash /\ transfers'[i] = transfers[i]
                        \/ answer = Len(transfers'[i]) /\ answer # NullHash /\ Adds(i))
    BY <1>9, <1>14 DEF IInv
  <2>2. Len(transfers[i]) = x.row.hash /\ first[i].st = "none"
    BY <1>3, <1>6, <2>1 DEF IInv, FirstInv, LastIsKnown, TypeOK
  <2>3. Len(transfers'[i]) = row.hash
    BY <1>7, <2>1, <2>2
  <2>4. \A k \in DOMAIN transfers'[i] : k < Len(transfers'[i]) => transfers'[i][k] = "Failed"
    <3>1. CASE transfers'[i] = transfers[i]
      BY <1>6, <2>1, <3>1 DEF LastIsKnown
    <3>2. CASE Adds(i)
      <4>1. DOMAIN transfers[i] = 1 .. Len(transfers[i]) /\ Len(transfers[i]) \in Nat
        BY <1>6, TransfersAre DEF IInv
      <4> SUFFICES ASSUME NEW k \in DOMAIN transfers'[i], k < Len(transfers'[i])
                   PROVE  transfers'[i][k] = "Failed"
        OBVIOUS
      <4>2. k \in DOMAIN transfers[i] /\ transfers'[i][k] = transfers[i][k]
        BY <3>2, <4>1 DEF Adds
      <4>3. CASE k < Len(transfers[i])
        BY <1>6, <2>1, <4>2, <4>3 DEF LastIsKnown
      <4>4. CASE k = Len(transfers[i])
        <5>1. x.row.hash = k /\ x.row.hash # NullHash
          BY <2>2, <4>1, <4>2, <4>4 DEF NullHash
        <5> QED
          BY <1>2, <1>3, <1>6, <4>2, <5>1 DEF ItemKnown
      <4> QED
        BY <4>1, <4>2, <4>3, <4>4
    <3> QED
      BY <2>1, <3>1, <3>2
  <2>5. lock[i] # NoInstance
    BY <1>6, SenderAssumption DEF SenderAssumption
  <2> SUFFICES ASSUME NEW j \in Invites
               PROVE  /\ \A k \in DOMAIN transfers'[j] : k < Len(transfers'[j]) => transfers'[j][k] = "Failed"
                      /\ first'[j].st = "relay" => Len(transfers'[j]) = 0
                      /\ first'[j].st = "update" => Len(transfers'[j]) = first'[j].hash
                      /\ first'[j].st = "none" /\ lock'[j] = NoInstance => Len(transfers'[j]) = rows'[j].hash
                      /\ \A m \in Instances : \A z \in retrying'[m].items :
                            z.invite = j => Len(transfers'[j]) = z.row.hash
    BY DEF LastIsKnown
  <2>6. CASE j = i
    <3>1. \A m \in Instances : \A z \in retrying'[m].items : z.invite = i => Len(transfers'[i]) = z.row.hash
      BY <1>8, <1>10, <2>3
    <3> QED
      BY <1>1, <2>2, <2>4, <2>5, <2>6, <3>1
  <2>7. CASE j # i
    <3>1. transfers'[j] = transfers[j]
      BY <1>9, <2>7
    <3>2. \A m \in Instances : \A z \in retrying'[m].items : z.invite = j => z \in retrying[m].items
      BY <1>8, <1>10, <2>7
    <3>3. LastIsKnown
      BY <2>1
    <3> QED
      BY <1>1, <3>1, <3>2, <3>3 DEF LastIsKnown
  <2> QED
    BY <2>6, <2>7
<1> QED
  BY <1>9, <1>10, <1>11, <1>12, <1>13, <1>14 DEF IInv

LEMMA RetryRecordedStep == ASSUME IInv, NEW n \in Instances, RetryRecorded(n) PROVE IInv'
<1>1. UNCHANGED <<rows, lock, transfers, first, checking, faults>>
  BY DEF RetryRecorded
<1>2. PICK x \in retrying[n].items :
        /\ x.st = "update"
        /\ retrying' = ReplaceItem(n, x, [x EXCEPT !.st = "done"])
        /\ watched' = [watched EXCEPT ![n] = @ \cup
            Remembered(x.invite, IF x.row.state = "Submitted" THEN x.row.hash ELSE NullHash, TRUE)]
  BY DEF RetryRecorded
<1>3. PICK h, y : h = (IF x.row.state = "Submitted" THEN x.row.hash ELSE NullHash)
                  /\ y = [x EXCEPT !.st = "done"]
  OBVIOUS
<1>4. /\ x \in Items /\ x.invite \in Invites /\ x.row \in Rows /\ ItemKnown(x)
      /\ x.row.old /\ x.row.state # "none"
  BY <1>2, MembersAre DEF IInv, KnowledgeInv, LockInv, Items
<1>5. y \in Items /\ y.invite = x.invite /\ y.row = x.row /\ y.st = "done"
  BY <1>3, <1>4 DEF Items
<1>6. /\ retrying' \in [Instances -> Retries] /\ LockInv'
      /\ \A m \in Instances : \A z \in retrying'[m].items :
            z = y \/ (z \in retrying[m].items /\ z.invite # y.invite)
  BY <1>1, <1>2, <1>3, <1>4, <1>5, ItemReplaced
<1>7. h \in Hashes /\ Known(x.invite, h)
  BY <1>3, <1>4, SenderAssumption DEF Rows, ItemKnown, RowKnown, Known, Hashes, NullHash, SenderAssumption
<1>8. /\ Remembered(x.invite, h, TRUE) \subseteq Watched
      /\ \A w \in Remembered(x.invite, h, TRUE) : WatchKnown(w)
  <2>1. /\ Remembered(x.invite, h, TRUE) \subseteq Watched
        /\ \A w \in Remembered(x.invite, h, TRUE) : w.invite = x.invite /\ w.hash = h /\ h # NullHash
    BY <1>4, <1>7, RetryRemembered
  <2> QED
    BY <1>7, <2>1 DEF WatchKnown, Known
<1>9. /\ watched' \in [Instances -> SUBSET Watched]
      /\ watched'[n] = watched[n] \cup Remembered(x.invite, h, TRUE)
      /\ \A m \in Instances : m # n => watched'[m] = watched[m]
  <2>1. PICK W : W = watched[n] \cup Remembered(x.invite, h, TRUE)
    OBVIOUS
  <2>2. W \in SUBSET Watched
    BY <1>8, <2>1, MembersAre DEF IInv
  <2>3. watched' = [watched EXCEPT ![n] = W]
    BY <1>2, <1>3, <2>1
  <2> QED
    BY <2>1, <2>2, <2>3, WatchedBecomes DEF IInv
<1>10. TypeOK'
  BY <1>1, <1>6, <1>9 DEF IInv, TypeOK, Retries, Items
<1>11. KnowledgeInv'
  <2>1. Grows
    BY <1>1, StaysGrows
  <2>2. ItemKnown(y)
    BY <1>4, <1>5 DEF ItemKnown
  <2>3. \A m \in Instances : \A z \in retrying'[m].items : z \in Items /\ ItemKnown(z)
    BY <1>5, <1>6, <2>2, MembersAre DEF IInv, KnowledgeInv
  <2>4. \A m \in Instances : \A w \in watched'[m] : w \in Watched /\ WatchKnown(w)
    BY <1>8, <1>9, MembersAre DEF IInv, KnowledgeInv
  <2> QED
    BY <1>1, <2>1, <2>3, <2>4, KnowledgeStays, MembersAre DEF IInv, KnowledgeInv
<1>12. FirstInv' /\ BudgetInv' /\ (Lossless' => Lossless)
  BY <1>1, NoFault DEF IInv, FirstInv
<1>13. LastIsKnown => LastIsKnown'
  BY <1>1, <1>4, <1>5, <1>6 DEF LastIsKnown
<1> QED
  BY <1>6, <1>10, <1>11, <1>12, <1>13 DEF IInv

\* A transaction ends, and leaves the rows it has not written alone.
LEMMA TransactionEnds ==
    ASSUME IInv, NEW n \in Instances, lock' = Unlocked(n),
           retrying' = [retrying EXCEPT ![n] = NoRetry],
           \A i \in Invites : lock[i] # n => rows'[i] = rows[i]
    PROVE  /\ lock' \in [Invites -> Instances \cup {NoInstance}]
           /\ \A i \in Invites : lock'[i] = IF lock[i] = n THEN NoInstance ELSE lock[i]
           /\ retrying' \in [Instances -> Retries] /\ retrying'[n].items = {}
           /\ \A m \in Instances : m # n => retrying'[m] = retrying[m]
           /\ LockInv'
<1>1. lock' \in [Invites -> Instances \cup {NoInstance}]
      /\ \A i \in Invites : lock'[i] = IF lock[i] = n THEN NoInstance ELSE lock[i]
  BY DEF IInv, TypeOK, Unlocked
<1>2. NoRetry \in Retries /\ NoRetry.items = {}
  BY DEF NoRetry, Retries
<1>3. /\ retrying' \in [Instances -> Retries] /\ retrying'[n].items = {}
      /\ \A m \in Instances : m # n => retrying'[m] = retrying[m]
  BY <1>2, RetryingBecomes DEF IInv
<1>4. LockInv'
  <2> SUFFICES ASSUME NEW m \in Instances
               PROVE  /\ \A x \in retrying'[m].items :
                        /\ retrying'[m].on /\ lock'[x.invite] = m
                        /\ rows'[x.invite].old /\ x.row.old /\ x.row.state # "none"
                        /\ x.st \in {"ask", "relay"} => x.row = rows'[x.invite]
                        /\ \A y \in retrying'[m].items : x.invite = y.invite => x = y
                      /\ \A i \in Invites : lock'[i] = m => \E x \in retrying'[m].items : x.invite = i
    BY DEF LockInv
  <2>1. CASE m = n
    BY <1>1, <1>3, <2>1, SenderAssumption DEF SenderAssumption
  <2>2. CASE m # n
    <3>1. \A x \in retrying[m].items : x.invite \in Invites /\ lock[x.invite] = m
      BY MembersAre DEF IInv, Items, LockInv
    <3>2. \A x \in retrying[m].items : lock'[x.invite] = m /\ rows'[x.invite] = rows[x.invite]
      BY <1>1, <2>2, <3>1
    <3>3. \A i \in Invites : lock'[i] = m => lock[i] = m
      BY <1>1, SenderAssumption DEF SenderAssumption
    <3> QED
      BY <1>3, <2>2, <3>2, <3>3 DEF IInv, LockInv
  <2> QED
    BY <2>1, <2>2
<1> QED
  BY <1>1, <1>3, <1>4

LEMMA RetryCommitsStep == ASSUME IInv, NEW n \in Instances, RetryCommits(n) PROVE IInv'
<1>1. /\ lock' = Unlocked(n) /\ retrying' = [retrying EXCEPT ![n] = NoRetry]
      /\ UNCHANGED <<transfers, first, watched, checking, faults>>
  BY DEF RetryCommits
<1>2. /\ rows' = [i \in Invites |->
                    IF \E x \in retrying[n].items : x.invite = i
                    THEN (CHOOSE x \in retrying[n].items : x.invite = i).row ELSE rows[i]]
  BY DEF RetryCommits
<1>3. ASSUME NEW i \in Invites, lock[i] = n
      PROVE  \E x \in retrying[n].items : x.invite = i /\ rows'[i] = x.row
  <2>1. \E x \in retrying[n].items : x.invite = i
    BY <1>3 DEF IInv, LockInv
  <2>2. PICK x : x = CHOOSE y \in retrying[n].items : y.invite = i
    OBVIOUS
  <2>3. x \in retrying[n].items /\ x.invite = i
    BY <2>1, <2>2
  <2>4. rows'[i] = x.row
    BY <1>2, <2>1, <2>2
  <2> QED
    BY <2>3, <2>4
<1>4. ASSUME NEW i \in Invites, lock[i] # n
      PROVE  rows'[i] = rows[i]
  <2>1. ~ \E x \in retrying[n].items : x.invite = i
    BY <1>4 DEF IInv, LockInv
  <2> QED
    BY <1>2, <2>1
<1>5. \A x \in retrying[n].items : /\ x.invite \in Invites /\ x.row \in Rows /\ ItemKnown(x)
                                   /\ x.row.old /\ x.row.state # "none" /\ rows[x.invite].old
  BY MembersAre DEF IInv, KnowledgeInv, LockInv, Items
<1>6. rows' \in [Invites -> Rows]
  <2>1. \A i \in Invites : rows'[i] \in Rows
    BY <1>3, <1>4, <1>5 DEF IInv, TypeOK
  <2>2. rows' = [i \in Invites |-> rows'[i]]
    BY <1>2
  <2> QED
    BY <2>1, <2>2
<1>7. /\ lock' \in [Invites -> Instances \cup {NoInstance}]
      /\ \A i \in Invites : lock'[i] = IF lock[i] = n THEN NoInstance ELSE lock[i]
      /\ retrying' \in [Instances -> Retries] /\ retrying'[n].items = {}
      /\ \A m \in Instances : m # n => retrying'[m] = retrying[m]
      /\ LockInv'
  BY <1>1, <1>4, TransactionEnds
<1>8. TypeOK'
  BY <1>1, <1>6, <1>7 DEF IInv, TypeOK, Retries, Items
<1>9. KnowledgeInv'
  <2>1. Grows
    BY <1>1, StaysGrows
  <2>2. ASSUME NEW i \in Invites PROVE RowKnown(i, rows'[i])
    <3>1. CASE lock[i] = n
      BY <1>3, <1>5, <3>1 DEF ItemKnown
    <3>2. CASE lock[i] # n
      BY <1>4, <3>2 DEF IInv, KnowledgeInv
    <3> QED
      BY <3>1, <3>2
  <2>3. \A i \in Invites : RowKnown(i, rows[i])' /\ Known(i, first[i].hash)'
    BY <1>1, <2>1, <2>2, KnowledgeStays DEF IInv, KnowledgeInv, RowKnown, Known, Paid
  <2>4. \A m \in Instances : \A z \in retrying'[m].items : z \in Items /\ ItemKnown(z)
    BY <1>7, MembersAre DEF IInv, KnowledgeInv
  <2> QED
    BY <1>1, <2>1, <2>3, <2>4, KnowledgeStays, MembersAre DEF IInv, KnowledgeInv
<1>10. FirstInv'
  <2> SUFFICES ASSUME NEW i \in Invites
               PROVE  /\ rows'[i].state = "none" => rows'[i].hash = NullHash /\ ~rows'[i].old
                      /\ first'[i].st # "none" =>
                            /\ rows'[i].state # "none" /\ ~rows'[i].old /\ rows'[i].hash = NullHash
                            /\ first'[i].at \in Instances
    BY DEF FirstInv
  <2>1. CASE lock[i] = n
    <3>1. rows'[i].state # "none" /\ rows[i].old
      BY <1>3, <1>5, <2>1
    <3> QED
      BY <1>1, <3>1 DEF IInv, FirstInv
  <2>2. CASE lock[i] # n
    BY <1>1, <1>4, <2>2 DEF IInv, FirstInv
  <2> QED
    BY <2>1, <2>2
<1>11. LastIsKnown => LastIsKnown'
  <2> SUFFICES ASSUME LastIsKnown, NEW i \in Invites
               PROVE  /\ \A k \in DOMAIN transfers'[i] : k < Len(transfers'[i]) => transfers'[i][k] = "Failed"
                      /\ first'[i].st = "relay" => Len(transfers'[i]) = 0
                      /\ first'[i].st = "update" => Len(transfers'[i]) = first'[i].hash
                      /\ first'[i].st = "none" /\ lock'[i] = NoInstance => Len(transfers'[i]) = rows'[i].hash
                      /\ \A m \in Instances : \A x \in retrying'[m].items :
                            x.invite = i => Len(transfers'[i]) = x.row.hash
    BY DEF LastIsKnown
  <2>1. first[i].st = "none" /\ lock'[i] = NoInstance => Len(transfers[i]) = rows'[i].hash
    <3>1. CASE lock[i] = n
      BY <1>3, <3>1 DEF LastIsKnown
    <3>2. CASE lock[i] # n
      BY <1>4, <1>7, <3>2 DEF LastIsKnown
    <3> QED
      BY <3>1, <3>2
  <2> QED
    BY <1>1, <1>7, <2>1 DEF LastIsKnown
<1>12. BudgetInv' /\ (Lossless' => Lossless)
  BY <1>1, NoFault DEF IInv
<1> QED
  BY <1>7, <1>8, <1>9, <1>10, <1>11, <1>12 DEF IInv

LEMMA RetryRollsBackStep == ASSUME IInv, NEW n \in Instances, RetryRollsBack(n) PROVE IInv'
<1>1. /\ lock' = Unlocked(n) /\ retrying' = [retrying EXCEPT ![n] = NoRetry]
      /\ UNCHANGED <<rows, transfers, first, watched, checking>>
  BY DEF RetryRollsBack
<1>2. faults' \in [Faults -> Nat] /\ BudgetInv' /\ ~Lossless'
  BY SpendEffect DEF IInv, RetryRollsBack, Faults
<1>3. /\ lock' \in [Invites -> Instances \cup {NoInstance}]
      /\ retrying' \in [Instances -> Retries] /\ retrying'[n].items = {}
      /\ \A m \in Instances : m # n => retrying'[m] = retrying[m]
      /\ LockInv'
  BY <1>1, TransactionEnds
<1>4. TypeOK'
  BY <1>1, <1>2, <1>3 DEF IInv, TypeOK, Retries, Items
<1>5. KnowledgeInv'
  <2>1. \A m \in Instances : \A z \in retrying'[m].items : z \in Items /\ ItemKnown(z)
    BY <1>3, MembersAre DEF IInv, KnowledgeInv
  <2> QED
    BY <1>1, <2>1, StaysGrows, KnowledgeStays, MembersAre DEF IInv, KnowledgeInv
<1>6. FirstInv'
  BY <1>1 DEF IInv, FirstInv
<1> QED
  BY <1>2, <1>3, <1>4, <1>5, <1>6 DEF IInv

LEMMA RestartStep == ASSUME IInv, NEW n \in Instances, Restart(n) PROVE IInv'
<1>1. /\ lock' = Unlocked(n) /\ retrying' = [retrying EXCEPT ![n] = NoRetry]
      /\ first' = [i \in Invites |-> IF first[i].at = n THEN NoSend ELSE first[i]]
      /\ watched' = [watched EXCEPT ![n] = {}] /\ checking' = [checking EXCEPT ![n] = {}]
      /\ UNCHANGED <<rows, transfers>>
  BY DEF Restart
<1>2. faults' \in [Faults -> Nat] /\ BudgetInv' /\ ~Lossless'
  BY SpendEffect DEF IInv, Restart, Faults
<1>3. /\ lock' \in [Invites -> Instances \cup {NoInstance}]
      /\ retrying' \in [Instances -> Retries] /\ retrying'[n].items = {}
      /\ \A m \in Instances : m # n => retrying'[m] = retrying[m]
      /\ LockInv'
  BY <1>1, TransactionEnds
<1>4. /\ watched' \in [Instances -> SUBSET Watched] /\ checking' \in [Instances -> SUBSET Checks]
      /\ \A m \in Instances : watched'[m] \subseteq watched[m] /\ checking'[m] \subseteq checking[m]
  BY <1>1 DEF IInv, TypeOK, Checks
<1>5. /\ first' \in [Invites -> Sends]
      /\ \A i \in Invites : first'[i] = NoSend \/ first'[i] = first[i]
  <2>1. NoSend \in Sends
    BY SenderAssumption DEF NoSend, Sends, NullHash, Hashes, SenderAssumption
  <2> QED
    BY <1>1, <2>1 DEF IInv, TypeOK, Sends
<1>6. TypeOK'
  BY <1>1, <1>2, <1>3, <1>4, <1>5 DEF IInv, TypeOK, Retries, Items, Checks, Sends
<1>7. KnowledgeInv'
  <2>1. \A m \in Instances : \A z \in retrying'[m].items : z \in Items /\ ItemKnown(z)
    BY <1>3, MembersAre DEF IInv, KnowledgeInv
  <2>2. \A i \in Invites : Known(i, first'[i].hash)
    BY <1>5 DEF IInv, KnowledgeInv, Known, NoSend
  <2>3. \A m \in Instances : /\ \A w \in watched'[m] : w \in Watched /\ WatchKnown(w)
                             /\ \A c \in checking'[m] : c \in Checks /\ CheckKnown(c)
    BY <1>4, MembersAre DEF IInv, KnowledgeInv
  <2> QED
    BY <1>1, <2>1, <2>2, <2>3, StaysGrows, KnowledgeStays, MembersAre DEF IInv, KnowledgeInv
<1>8. FirstInv'
  BY <1>1, <1>5 DEF IInv, FirstInv, NoSend
<1> QED
  BY <1>2, <1>3, <1>6, <1>7, <1>8 DEF IInv

LEMMA StutterIInv == ASSUME IInv, UNCHANGED vars PROVE IInv'
<1>1. UNCHANGED <<rows, lock, transfers, first, watched, checking, retrying, faults>>
  BY DEF vars
<1>2. TypeOK' /\ FirstInv' /\ LockInv' /\ BudgetInv' /\ (Lossless' => Lossless)
  BY <1>1 DEF IInv, TypeOK, FirstInv, LockInv, BudgetInv, Lossless
<1>3. KnowledgeInv'
  BY <1>1, StaysGrows, KnowledgeStays, MembersAre DEF IInv, KnowledgeInv
<1>4. LastIsKnown => LastIsKnown'
  BY <1>1 DEF LastIsKnown
<1> QED
  BY <1>2, <1>3, <1>4 DEF IInv

LEMMA NextIInv == IInv /\ [Next]_vars => IInv'
<1> SUFFICES ASSUME IInv, [Next]_vars PROVE IInv'
  OBVIOUS
<1>1. ASSUME NEW i \in Invites,
             \/ TransferSettles(i) \/ LateTransfer(i) \/ TransferReplaced(i)
             \/ Ages(i) \/ FirstSend(i)
      PROVE  IInv'
  BY <1>1, TransferSettlesStep, LateTransferStep, TransferReplacedStep, AgesStep,
     FirstRelayedStep, FirstRecordedStep, FirstNotRecordedStep DEF FirstSend
<1>2. ASSUME NEW i \in Invites, NEW n \in Instances, CreateReward(n, i)
      PROVE  IInv'
  BY <1>2, CreateRewardStep
<1>3. ASSUME NEW n \in Instances, Watcher(n)
      PROVE  IInv'
  BY <1>3, CheckWatchedStep, WatchedStatusStep, WatchedUpdateStep DEF Watcher
<1>4. ASSUME NEW n \in Instances, Retrier(n)
      PROVE  IInv'
  BY <1>4, CheckFailedStep, RetryStatusStep, RetryRelayedStep, RetryRecordedStep,
     RetryCommitsStep, RetryRollsBackStep DEF Retrier
<1>5. ASSUME NEW n \in Instances, Restart(n)
      PROVE  IInv'
  BY <1>5, RestartStep
<1> QED
  BY <1>1, <1>2, <1>3, <1>4, <1>5, StutterIInv DEF Next

LEMMA SpecIInv == Spec => []IInv
BY InitIInv, NextIInv, PTL DEF Spec

-----------------------------------------------------------------------------
(* The properties *)

\* Every variable has its type, in whichever order the jobs of the processes,
\* the relayer and the faults come.
THEOREM TypeCorrect == Spec => []TypeOK
<1>1. IInv => TypeOK
  BY DEF IInv
<1> QED
  BY <1>1, SpecIInv, PTL

\* A row is only marked Completed when a transfer for it has gone through: what
\* checkWatchedInvites and checkFailedInvites have learned about a transfer stays
\* true until they write it, and across restarts.
THEOREM CompletedWasPaid == Spec => []CompletedIsPaid
<1>1. IInv => CompletedIsPaid
  BY DEF IInv, KnowledgeInv, RowKnown, CompletedIsPaid
<1> QED
  BY <1>1, SpecIInv, PTL

\* However many processes race for the rows, a reward is paid twice only after
\* an answer of the relayer or a write was lost: otherwise every transfer but
\* the last has failed.  (sendInviteReward, checkFailedInvites)
THEOREM PaidOnceWithoutLoss == Spec => []DoubleRewardNeedsLoss
<1>1. ASSUME IInv PROVE DoubleRewardNeedsLoss
  <2> SUFFICES ASSUME LastIsKnown, NEW i \in Invites PROVE Cardinality(Paid(i)) =< 1
    BY <1>1 DEF DoubleRewardNeedsLoss, NoDoubleReward, IInv, Lossless
  <2>1. Len(transfers[i]) \in Nat /\ DOMAIN transfers[i] = 1 .. Len(transfers[i])
    BY <1>1, TransfersAre DEF IInv
  <2>2. PICK l : l = Len(transfers[i])
    OBVIOUS
  <2>3. Paid(i) \subseteq {l}
    BY <2>1, <2>2 DEF Paid, LastIsKnown
  <2>4. IsFiniteSet({l}) /\ Cardinality({l}) = 1
    BY FS_Singleton
  <2>5. Cardinality(Paid(i)) =< Cardinality({l})
    BY <2>3, <2>4, FS_Subset
  <2> QED
    BY <2>4, <2>5
<1> QED
  BY <1>1, SpecIInv, PTL

\* What happens to a transfer outside the application.
Chain(i) == TransferSettles(i) \/ LateTransfer(i) \/ TransferReplaced(i)

\* Who adds a transfer, and what the row says then.
LEMMA ResendStep ==
    ASSUME IInv, Next, NEW i \in Invites, Len(transfers'[i]) > Len(transfers[i]),
           rows[i].hash # NullHash
    PROVE  transfers[i][rows[i].hash] = "Failed"
<1>0. Len(transfers[i]) \in Nat
  BY TransfersAre DEF IInv
<1>1. ASSUME UNCHANGED transfers PROVE FALSE
  BY <1>0, <1>1
<1>2. ASSUME NEW j \in Invites, NEW k \in DOMAIN transfers[j], NEW s \in TxStatus,
             transfers' = [transfers EXCEPT ![j][k] = s]
      PROVE  FALSE
  <2>1. transfers[j] \in Seq(TxStatus) /\ transfers \in [Invites -> Seq(TxStatus)]
    BY DEF IInv, TypeOK
  <2>2. PICK t : t = [transfers[j] EXCEPT ![k] = s]
    OBVIOUS
  <2>3. Len(t) = Len(transfers[j])
    BY <2>1, <2>2, ExceptSeq
  <2>4. transfers'[i] = IF i = j THEN t ELSE transfers[i]
    BY <1>2, <2>1, <2>2
  <2> QED
    BY <1>0, <2>3, <2>4
<1>3. ASSUME NEW j \in Invites, Chain(j) PROVE FALSE
  BY <1>2, <1>3 DEF Chain, TransferSettles, LateTransfer, TransferReplaced, TxStatus
<1>4. ASSUME NEW j \in Invites, FirstRelayed(j) PROVE FALSE
  <2>1. j # i
    BY <1>4 DEF FirstRelayed, IInv, FirstInv
  <2>2. PICK answer \in Hashes : Relay(j, answer)
    BY <1>4 DEF FirstRelayed
  <2>3. transfers'[i] = transfers[i]
    BY <2>1, <2>2, RelayEffect DEF IInv
  <2> QED
    BY <1>0, <2>3
<1>5. ASSUME NEW n \in Instances, RetryRelayed(n) PROVE transfers[i][rows[i].hash] = "Failed"
  <2>1. PICK x \in retrying[n].items, answer \in Hashes : x.st = "relay" /\ Relay(x.invite, answer)
    BY <1>5 DEF RetryRelayed
  <2>2. x.invite \in Invites /\ ItemKnown(x) /\ x.row = rows[x.invite]
    BY <2>1, MembersAre DEF IInv, KnowledgeInv, LockInv, Items
  <2>3. x.invite = i
    <3>1. x.invite # i => transfers'[i] = transfers[i]
      BY <2>1, <2>2, RelayEffect DEF IInv
    <3> QED
      BY <1>0, <3>1
  <2> QED
    BY <2>1, <2>2, <2>3 DEF ItemKnown
<1>6. ASSUME NEW j \in Invites,
             \/ Ages(j) \/ FirstRecorded(j) \/ FirstNotRecorded(j)
             \/ \E n \in Instances : CreateReward(n, j)
      PROVE  FALSE
  BY <1>1, <1>6 DEF Ages, FirstRecorded, FirstNotRecorded, CreateReward
<1>7. ASSUME NEW n \in Instances, Watcher(n) \/ Restart(n) PROVE FALSE
  BY <1>1, <1>7 DEF Watcher, CheckWatched, WatchedStatus, WatchedUpdate, Restart
<1>8. ASSUME NEW n \in Instances,
             \/ CheckFailed(n) \/ RetryStatus(n) \/ RetryRecorded(n) \/ RetryCommits(n) \/ RetryRollsBack(n)
      PROVE  FALSE
  BY <1>1, <1>8 DEF CheckFailed, RetryStatus, RetryRecorded, RetryCommits, RetryRollsBack
<1> QED
  BY <1>3, <1>4, <1>5, <1>6, <1>7, <1>8 DEF Next, Chain, FirstSend, Retrier

\* While a row records a hash, the relayer is asked for no further transfer for
\* the reward unless that one has failed: the copy checkFailedInvites asks about
\* is still the row when it sends.
THEOREM ResendsAfterFailure == Spec => ResendOnlyAfterFailure
<1> DEFINE A == \A i \in Invites :
        Len(transfers'[i]) > Len(transfers[i]) /\ rows[i].hash # NullHash
        => transfers[i][rows[i].hash] = "Failed"
<1>1. ASSUME IInv, [Next]_vars PROVE [A]_vars
  BY <1>1, ResendStep
<1>2. IInv /\ [Next]_vars => [A]_vars
  BY <1>1
<1> QED
  BY <1>2, SpecIInv, PTL DEF Spec, ResendOnlyAfterFailure

-----------------------------------------------------------------------------
(***************************************************************************)
(* The payment of a reward (RewardPayment).                                *)
(*                                                                         *)
(* The argument: all transfers but the last have failed.  Whoever sends    *)
(* one more has seen that there is none, or that the last has failed too,  *)
(* so that the reward is due; and only the last can still be settled.      *)
(***************************************************************************)

AllFailed(i) == \A k \in DOMAIN transfers[i] : transfers[i][k] = "Failed"

Asked(i) == \E s \in Unsettled : transfers' = [transfers EXCEPT ![i] = Append(@, s)]

\* The relayer is asked for one transfer, or refuses.
LEMMA RelaySends ==
    ASSUME TypeOK, NEW i \in Invites, NEW answer, Relay(i, answer)
    PROVE  transfers' = transfers \/ Asked(i)
  BY DEF Relay, Asked, Unsettled

\* Who changes the transfers of a reward.
LEMMA TransferSource ==
    ASSUME [Next]_vars
    PROVE  \/ transfers' = transfers
           \/ \E i \in Invites : Chain(i) \/ FirstRelayed(i)
           \/ \E n \in Instances : RetryRelayed(n)
<1>1. ASSUME NEW j \in Invites,
             \/ Ages(j) \/ FirstRecorded(j) \/ FirstNotRecorded(j)
             \/ \E n \in Instances : CreateReward(n, j)
      PROVE  transfers' = transfers
  BY <1>1 DEF Ages, FirstRecorded, FirstNotRecorded, CreateReward
<1>2. ASSUME NEW n \in Instances, Watcher(n) \/ Restart(n) PROVE transfers' = transfers
  BY <1>2 DEF Watcher, CheckWatched, WatchedStatus, WatchedUpdate, Restart
<1>3. ASSUME NEW n \in Instances,
             \/ CheckFailed(n) \/ RetryStatus(n) \/ RetryRecorded(n) \/ RetryCommits(n) \/ RetryRollsBack(n)
      PROVE  transfers' = transfers
  BY <1>3 DEF CheckFailed, RetryStatus, RetryRecorded, RetryCommits, RetryRollsBack
<1>4. CASE UNCHANGED vars
  BY <1>4 DEF vars
<1> QED
  BY <1>1, <1>2, <1>3, <1>4 DEF Next, Chain, FirstSend, Retrier

\* Whoever sends for a reward sends for one that is due.
LEMMA SendsWhenDue ==
    ASSUME IInv, Lossless, [Next]_vars, transfers' # transfers,
           \A i \in Invites : ~Chain(i)
    PROVE  \E i \in Invites : AllFailed(i) /\ Asked(i)
<1>0. TypeOK /\ LastIsKnown
  BY DEF IInv
<1>1. ASSUME NEW i \in Invites, FirstRelayed(i)
      PROVE  AllFailed(i) /\ Asked(i)
  <2>1. PICK answer \in Hashes : Relay(i, answer)
    BY <1>1 DEF FirstRelayed
  <2>2. Len(transfers[i]) = 0 /\ DOMAIN transfers[i] = 1 .. Len(transfers[i])
    BY <1>0, <1>1, TransfersAre DEF FirstRelayed, LastIsKnown
  <2>3. AllFailed(i)
    BY <2>2 DEF AllFailed
  <2> QED
    BY <1>0, <2>1, <2>3, RelaySends
<1>2. ASSUME NEW n \in Instances, RetryRelayed(n)
      PROVE  \E i \in Invites : AllFailed(i) /\ Asked(i)
  <2>1. PICK x \in retrying[n].items, answer \in Hashes : x.st = "relay" /\ Relay(x.invite, answer)
    BY <1>2 DEF RetryRelayed
  <2>2. x.invite \in Invites /\ ItemKnown(x)
    BY <2>1, MembersAre DEF IInv, KnowledgeInv, Items
  <2> PICK i : i = x.invite
    OBVIOUS
  <2>3. Len(transfers[i]) = x.row.hash
    BY <1>0, <2>1, <2>2 DEF LastIsKnown
  <2>4. Len(transfers[i]) \in Nat /\ DOMAIN transfers[i] = 1 .. Len(transfers[i])
    BY <1>0, <2>2, TransfersAre
  <2>5. \A k \in DOMAIN transfers[i] : k < Len(transfers[i]) => transfers[i][k] = "Failed"
    BY <1>0, <2>2 DEF LastIsKnown
  <2>6. ASSUME NEW k \in DOMAIN transfers[i] PROVE transfers[i][k] = "Failed"
    <3>1. CASE k < Len(transfers[i])
      BY <2>5, <3>1
    <3>2. CASE k = Len(transfers[i])
      <4>1. x.row.hash # NullHash /\ x.row.hash = k
        BY <2>3, <2>4, <3>2 DEF NullHash
      <4> QED
        BY <2>1, <2>2, <4>1 DEF ItemKnown
    <3> QED
      BY <2>4, <3>1, <3>2
  <2>7. Asked(i)
    BY <1>0, <2>1, <2>2, RelaySends
  <2> QED
    BY <2>2, <2>6, <2>7 DEF AllFailed
<1> QED
  BY <1>1, <1>2, TransferSource

\* The payments, as the abstract specification sees them.
States == [i \in Invites |-> PaymentState(i)]
Attempts == [i \in Invites |-> Len(transfers[i])]

\* A reward whose transfers do not change keeps its state.
LEMMA OthersKeepState ==
    ASSUME NEW j \in Invites, transfers'[j] = transfers[j]
    PROVE  PaymentState(j)' = PaymentState(j) /\ Len(transfers'[j]) = Len(transfers[j])
  BY DEF PaymentState, Paid

\* A sending is an attempt.
LEMMA SendIsAttempt ==
    ASSUME TypeOK, NEW i \in Invites, AllFailed(i), Asked(i)
    PROVE  /\ States[i] = "due" /\ States' = [States EXCEPT ![i] = "underway"]
           /\ Attempts' = [Attempts EXCEPT ![i] = @ + 1]
<1>1. /\ transfers[i] \in Seq(TxStatus) /\ Len(transfers[i]) \in Nat
      /\ DOMAIN transfers[i] = 1 .. Len(transfers[i])
  BY TransfersAre
<1>0. PICK s \in Unsettled : transfers' = [transfers EXCEPT ![i] = Append(@, s)]
  BY DEF Asked
<1>2. s \in TxStatus /\ s \notin {"Completed", "Failed"}
  BY DEF TxStatus, Unsettled
<1> PICK t, l : t = Append(transfers[i], s) /\ l = Len(transfers[i])
  OBVIOUS
<1>3. /\ t \in Seq(TxStatus) /\ Len(t) = l + 1 /\ t[l + 1] = s
      /\ \A k \in 1 .. l : t[k] = transfers[i][k]
  BY <1>1, <1>2, AppendProperties
<1>4. DOMAIN t = 1 .. (l + 1)
  BY <1>3, LenProperties
<1>5. transfers'[i] = t /\ \A j \in Invites \ {i} : transfers'[j] = transfers[j]
  BY <1>0 DEF TypeOK
<1>6. PaymentState(i) = "due"
  BY DEF PaymentState, Paid, AllFailed
<1>7. PaymentState(i)' = "underway"
  <2>1. \A k \in DOMAIN t : t[k] # "Completed"
    <3> SUFFICES ASSUME NEW k \in DOMAIN t PROVE t[k] # "Completed"
      OBVIOUS
    <3>1. CASE k = l + 1
      BY <1>2, <1>3, <3>1
    <3>2. CASE k \in 1 .. l
      BY <1>1, <1>3, <3>2 DEF AllFailed
    <3> QED
      BY <1>1, <1>4, <3>1, <3>2
  <2>2. l + 1 \in DOMAIN t /\ t[l + 1] # "Failed"
    BY <1>1, <1>2, <1>3, <1>4
  <2> QED
    BY <1>5, <2>1, <2>2 DEF PaymentState, Paid
<1>8. \A j \in Invites \ {i} :
        PaymentState(j)' = PaymentState(j) /\ Len(transfers'[j]) = Len(transfers[j])
  BY <1>5, OthersKeepState
<1>9. Len(transfers'[i]) = Len(transfers[i]) + 1
  BY <1>3, <1>5
<1>10. States' = [States EXCEPT ![i] = "underway"]
  BY <1>7, <1>8 DEF States
<1>11. Attempts' = [Attempts EXCEPT ![i] = @ + 1]
  BY <1>8, <1>9 DEF Attempts
<1> QED
  BY <1>6, <1>10, <1>11 DEF States

\* The last transfer is settled, sent late, or replaced by a dead letter.
LEMMA OutcomeSettles ==
    ASSUME IInv, LastIsKnown, NEW i \in Invites, NEW k \in DOMAIN transfers[i], NEW s \in TxStatus,
           transfers[i][k] \in Unsettled, transfers' = [transfers EXCEPT ![i][k] = s]
    PROVE  [Payment!Settle(i)]_<<States, Attempts>>
<1>1. /\ transfers[i] \in Seq(TxStatus) /\ Len(transfers[i]) \in Nat
      /\ DOMAIN transfers[i] = 1 .. Len(transfers[i])
  BY TransfersAre DEF IInv
<1> PICK t : t = [transfers[i] EXCEPT ![k] = s]
  OBVIOUS
<1>2. t \in Seq(TxStatus) /\ Len(t) = Len(transfers[i]) /\ DOMAIN t = DOMAIN transfers[i]
      /\ \A j \in DOMAIN transfers[i] : j # k => t[j] = transfers[i][j]
  BY <1>1, ExceptSeq
<1>3. t[k] = s
  BY <1>1
<1>4. transfers'[i] = t /\ \A j \in Invites \ {i} : transfers'[j] = transfers[j]
  BY DEF IInv, TypeOK
<1>5. \A j \in DOMAIN transfers[i] : j # k => transfers[i][j] = "Failed"
  <2>1. k = Len(transfers[i])
    BY <1>1 DEF LastIsKnown, Unsettled
  <2> QED
    BY <1>1, <2>1 DEF LastIsKnown
<1>6. PaymentState(i) = "underway"
  BY <1>5 DEF PaymentState, Paid, Unsettled
<1>7. PaymentState(i)' \in {"due", "underway", "paid"}
  BY DEF PaymentState
<1>8. \A j \in Invites \ {i} :
        PaymentState(j)' = PaymentState(j) /\ Len(transfers'[j]) = Len(transfers[j])
  BY <1>4, OthersKeepState
<1>9. Attempts' = Attempts
  BY <1>2, <1>4, <1>8 DEF Attempts
<1>10. States' = [States EXCEPT ![i] = PaymentState(i)']
  BY <1>8 DEF States
<1>11. CASE PaymentState(i)' = "underway"
  <2>1. States' = States
    BY <1>6, <1>8, <1>11 DEF States
  <2> QED
    BY <1>9, <2>1
<1>12. CASE PaymentState(i)' \in {"due", "paid"}
  <2>1. States[i] = "underway"
    BY <1>6 DEF States
  <2> QED
    BY <1>9, <1>10, <1>12, <2>1 DEF Payment!Settle, States, Attempts
<1> QED
  BY <1>7, <1>11, <1>12

LEMMA StepPays ==
    ASSUME IInv, Lossless, [Next]_vars
    PROVE  [Payment!Next]_<<States, Attempts>>
<1>0. TypeOK /\ LastIsKnown
  BY DEF IInv
<1>1. ASSUME NEW i \in Invites, Chain(i)
      PROVE  [Payment!Next]_<<States, Attempts>>
  <2>1. PICK k \in DOMAIN transfers[i], s \in {"Pending", "Completed", "Failed", "Replaced"} :
            transfers[i][k] \in Unsettled /\ transfers' = [transfers EXCEPT ![i][k] = s]
    BY <1>1 DEF Chain, TransferSettles, LateTransfer, TransferReplaced, Unsettled
  <2>2. s \in TxStatus
    BY DEF TxStatus
  <2>3. [Payment!Settle(i)]_<<States, Attempts>>
    BY <1>0, <2>1, <2>2, OutcomeSettles
  <2> QED
    BY <2>3 DEF Payment!Next
<1>2. CASE transfers' = transfers
  BY <1>2 DEF States, Attempts, PaymentState, Paid
<1>3. CASE transfers' # transfers /\ \A i \in Invites : ~Chain(i)
  <2>1. PICK i \in Invites : AllFailed(i) /\ Asked(i)
    BY <1>3, SendsWhenDue
  <2>2. Payment!Attempt(i)
    BY <1>0, <2>1, SendIsAttempt DEF Payment!Attempt, States, Attempts
  <2> QED
    BY <2>2 DEF Payment!Next
<1> QED
  BY <1>1, <1>2, <1>3

LEMMA InitPays == Init => Payment!Init
<1> SUFFICES ASSUME Init PROVE Payment!Init
  OBVIOUS
<1>1. \A i \in Invites : PaymentState(i) = "due" /\ Len(transfers[i]) = 0
  BY DEF Init, PaymentState, Paid
<1> QED
  BY <1>1 DEF Payment!Init

\* rewards/README.md:4 "to avoid double spending": until an answer of the
\* relayer or a write is lost or a process restarts, one attempt to pay a
\* reward is made at a time and none after it is paid, for any number of
\* rewards and processes and any transfers replaced by the relayer.
THEOREM PaymentIsImplemented == Spec => ImplementsPayment
<1>1. IInv /\ [Next]_vars => (Lossless => Payment!Step)
  BY StepPays DEF Payment!Step, Payment!vars, States, Attempts
<1> QED
  BY <1>1, InitPays, SpecIInv, PTL DEF Spec, ImplementsPayment

\* Where such losses do not occur at all, the reward sender implements the
\* abstract payment.
THEOREM PaymentWithoutLoss ==
    ASSUME \A f \in Faults \ {"replaced"} : Budget[f] = 0
    PROVE  Spec => Payment!Spec
<1>2. IInv => Lossless
  <2> SUFFICES ASSUME IInv, NEW f \in Faults \ {"replaced"} PROVE faults[f] = Budget[f]
    BY DEF Lossless
  <2>1. faults[f] \in Nat /\ faults[f] =< Budget[f]
    BY DEF IInv, TypeOK, BudgetInv
  <2> QED
    BY <2>1
<1>3. IInv /\ Lossless /\ [Next]_vars => [Payment!Next]_Payment!vars
  BY StepPays DEF Payment!vars, States, Attempts
<1> QED
  BY <1>2, <1>3, InitPays, SpecIInv, PTL DEF Spec, Payment!Spec
===============================================================================
