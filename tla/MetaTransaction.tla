--------------------------- MODULE MetaTransaction ---------------------------
(***************************************************************************)
(* Which meta-transactions the API lets through to the relayer.            *)
(*   packages/apps/api/src/wallet/tx-parser.service.ts, decode-txs.ts,     *)
(*   method-filter.ts; packages/apps/api/src/subsidy/subsidy.service.ts    *)
(*                                                                         *)
(* A raw transaction is a destination and call data.  Call data begins     *)
(* with a method; the two methods of the wallet that the parser decodes    *)
(* carry other transactions.  A batch carries all call data of its         *)
(* transactions in one sequence, cut by lengths, which the decoder of the  *)
(* library gives to the parser as big-number objects.                      *)
(***************************************************************************)
EXTENDS Naturals, Sequences, FiniteSetsExt

CONSTANTS Wallet   \* address of the meta-transaction wallet

NoMethod == ""

\* The default filter, and the ones of the subsidy's two transactions.
Stable == {"StableToken", "StableTokenEUR"}
DefaultFilter == {<<"Attestations", "selectIssuers">>, <<"Attestations", "complete">>,
                  <<"Accounts", "setAccount">>, <<"Escrow", "withdraw">>}
                 \cup (Stable \X {"approve", "transfer"})
RequestFilter == {<<"Attestations", "request">>}
ApproveFilter == {<<"StableToken", "approve">>}

\* Addresses and methods are normalised before they are compared.
isCallTo(tx, method) == tx.to = Wallet /\ tx.method = method

\* What the decoder makes of the data of a batch: destinations, lengths, bytes.
IsSequence(s) == s \in Seq({s[i] : i \in DOMAIN s})
IsBatch(b) == b.lengths \in Seq(Nat) /\ IsSequence(b.destinations) /\ IsSequence(b.data)

\* dataLength is a big number, and + makes a string of it: its digits are put
\* behind those of the offset.
Concat(offset, dataLength) ==
    LET tens[d \in 1 .. dataLength + 1] == IF d = 1 THEN 10 ELSE 10 * tens[d - 1]
    IN offset * Min({tens[d] : d \in {e \in 1 .. dataLength + 1 : dataLength < tens[e]}}) + dataLength

\* Mutant of the next definition: the offset is not moved.
offsetStays(lengths, k) == 0

\* The offset at the k-th transaction of a batch.  It is 0 and then the first
\* length, as it should be, and another number from there on.
offset(lengths, k) ==
    LET begins[i \in 1 .. Len(lengths)] ==
            IF i = 1 THEN 0 ELSE Concat(begins[i - 1], lengths[i - 1])
    IN begins[k]

\* Buffer.slice: cut short at the end of the data.
Slice(data, from, to) == SubSeq(data, from + 1, IF to > Len(data) THEN Len(data) ELSE to)

\* The method takes one unit of the data.
extractMethodId(data) == IF data = <<>> THEN NoMethod ELSE data[1]

\* decodeExecuteTransactions: one transaction per length.  A big number is never
\* === 0, so that no length is treated on its own.
decodeExecuteTransactions(b) ==
    [k \in DOMAIN b.lengths |->
        LET from == offset(b.lengths, k)
        IN [to |-> b.destinations[k],
            method |-> extractMethodId(Slice(b.data, from, Concat(from, b.lengths[k])))]]

\* MethodFilter.find
Allowed(filter, tx) == <<tx.to, tx.method>> \in filter

\* Mutant of the next definition: a batch is not taken apart.
getChildrenOfNone(child) == IF isCallTo(child, "executeTransactions") THEN <<>> ELSE <<child>>

\* getChildren, behind the decoding of the root.
getChildren(child) ==
    IF isCallTo(child, "executeTransactions") THEN decodeExecuteTransactions(child.batch)
    ELSE <<child>>

\* A batch without a destination for a length makes the decoder throw.
Throws(child) ==
    /\ isCallTo(child, "executeTransactions") /\ child.decodes
    /\ Len(child.batch.lengths) > Len(child.batch.destinations)

\* parse: "ok" or the error, TypeError for the exception.
parse(tx, filter) ==
    IF ~isCallTo(tx, "executeMetaTransaction") THEN "InvalidRootTransaction"
    ELSE IF ~tx.decodes THEN "TransactionDecodeError"
    ELSE IF isCallTo(tx.child, "executeTransactions") /\ ~tx.child.decodes
    THEN "TransactionDecodeError"
    ELSE IF Throws(tx.child) THEN "TypeError"
    ELSE IF \E k \in DOMAIN getChildren(tx.child) : ~Allowed(filter, getChildren(tx.child)[k])
    THEN "TransactionNotAllowed" ELSE "ok"

\* SubsidyService.isValid: the request, then the optional approval.
isValid(requestTx, approveTxs) ==
    /\ parse(requestTx, RequestFilter) = "ok"
    /\ \A k \in DOMAIN approveTxs : parse(approveTxs[k], ApproveFilter) = "ok"

-----------------------------------------------------------------------------
(* The wallet's contract (external) *)

\* What is left of a batch's data for the k-th call and those behind it: every
\* call takes its data from the front.
Rest(b, k) ==
    LET rest[i \in 1 .. Len(b.lengths)] ==
            IF i = 1 THEN b.data
            ELSE SubSeq(rest[i - 1], b.lengths[i - 1] + 1, Len(rest[i - 1]))
    IN rest[k]

\* executeTransactions reverts unless the arrays fit together.
BatchReverts(b) ==
    \/ Len(b.lengths) # Len(b.destinations)
    \/ \E k \in DOMAIN b.lengths : b.lengths[k] > Len(Rest(b, k))

Reverts(tx) ==
    \/ ~isCallTo(tx, "executeMetaTransaction") \/ ~tx.decodes
    \/ /\ isCallTo(tx.child, "executeTransactions")
       /\ ~tx.child.decodes \/ BatchReverts(tx.child.batch)

\* The calls the wallet makes.
BatchCalls(b) ==
    [k \in DOMAIN b.lengths |->
        <<b.destinations[k], extractMethodId(SubSeq(Rest(b, k), 1, b.lengths[k]))>>]

Executed(tx) ==
    IF Reverts(tx) THEN <<>>
    ELSE IF isCallTo(tx.child, "executeTransactions") THEN BatchCalls(tx.child.batch)
    ELSE << <<tx.child.to, tx.child.method>> >>
==============================================================================
