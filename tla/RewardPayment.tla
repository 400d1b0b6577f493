---------------------------- MODULE RewardPayment ----------------------------
(***************************************************************************)
(* What the rewards application promises about the payment of a reward,    *)
(* however many processes look after it:                                   *)
(*   "These rewards are recorded in a database to avoid double spending"   *)
(*   packages/apps/rewards/README.md:4                                     *)
(* A reward is paid by one attempt at a time: another one is only made     *)
(* after the last has failed, and none once the reward is paid.            *)
(***************************************************************************)
EXTENDS Naturals

CONSTANT Rewards

VARIABLES
    state,     \* reward |-> "due", "underway" or "paid"
    attempts   \* reward |-> how many attempts have been made

vars == <<state, attempts>>

Init == state = [r \in Rewards |-> "due"] /\ attempts = [r \in Rewards |-> 0]

Attempt(r) ==
    /\ state[r] = "due" /\ state' = [state EXCEPT ![r] = "underway"]
    /\ attempts' = [attempts EXCEPT ![r] = @ + 1]

Settle(r) ==
    /\ state[r] = "underway"
    /\ \E s \in {"due", "paid"} : state' = [state EXCEPT ![r] = s]
    /\ UNCHANGED attempts

Next == \E r \in Rewards : Attempt(r) \/ Settle(r)

Step == [Next]_vars

Spec == Init /\ [][Next]_vars
=============================================================================
