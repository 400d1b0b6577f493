--------------------------- MODULE RelayerAccount ---------------------------
(***************************************************************************)
(* What the relayer promises about its one account, however many callers   *)
(* share it: "Enforce sequential nonce with parallel access"               *)
(*   packages/apps/relayer/README.md:8                                     *)
(* The account's nonces are used one after the other, without a gap, and   *)
(* every caller is told a nonce of its own that has been used, above all   *)
(* nonces that were told before.                                           *)
(***************************************************************************)
EXTENDS Naturals

CONSTANT Callers

VARIABLES
    used,     \* how many nonces have been used: 0 .. used - 1
    settled,  \* how many of them are final
    told      \* caller |-> the nonce of its transaction, once it is known

vars == <<used, settled, told>>

Init == used = 0 /\ settled = 0 /\ told = [c \in {} |-> 0]

Use == used' = used + 1 /\ UNCHANGED <<settled, told>>

Settle == settled < used /\ settled' = settled + 1 /\ UNCHANGED <<used, told>>

Tell(c) ==
    /\ c \notin DOMAIN told
    /\ \E n \in 0 .. (used - 1) :
        /\ \A d \in DOMAIN told : told[d] < n
        /\ told' = [d \in DOMAIN told \cup {c} |-> IF d = c THEN n ELSE told[d]]
    /\ UNCHANGED <<used, settled>>

Next == Use \/ Settle \/ \E c \in Callers : Tell(c)

Step == [Next]_vars

Spec == Init /\ [][Next]_vars
=============================================================================
