---------------------------- MODULE RewardLedger ----------------------------
(***************************************************************************)
(* What the invite reward service promises, however many instances of it   *)
(* run: a grant is final, one invitee has at most one of them, and one     *)
(* phone number has at most one.                                           *)
(*   packages/apps/rewards/src/invite/inviteReward.service.ts, comment on  *)
(*   sendInviteRewards                                                     *)
(***************************************************************************)
EXTENDS Sequences

CONSTANT Grants   \* records with an invitee and an identifier

VARIABLE granted  \* the rewards whose sending has been started, in that order

Clash(g, h) == g.invitee = h.invitee \/ g.identifier = h.identifier

Init == granted = <<>>

Grant(g) ==
    /\ \A k \in DOMAIN granted : ~Clash(g, granted[k])
    /\ granted' = Append(granted, g)

Next == \E g \in Grants : Grant(g)

Spec == Init /\ [][Next]_granted
=============================================================================
