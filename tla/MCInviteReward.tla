--------------------------- MODULE MCInviteReward ---------------------------
(* InviteReward for TLC: a verified inviter sends three invites; or two for    *)
(* one phone number and two others that are not rewarded, while processes fail *)
(* or while the inviter is being verified; or two to one invitee with two      *)
(* phone numbers.                                                              *)
EXTENDS InviteReward, TLC

Withdrawal(invitee, identifier, token, komenci) ==
    [inviter |-> "wallet", invitee |-> invitee, identifier |-> identifier,
     token |-> token, komenci |-> komenci]

Attestation(address, identifier) == [address |-> address, identifier |-> identifier]

Invitees == {Attestation("ann", "p1"), Attestation("bob", "p1"),
             Attestation("bob", "p2"), Attestation("dan", "p3"), Attestation("ann", "p4")}
Own == Attestation("wallet", "p0")
Account == Attestation("account", "p0")

Upto1(fs) == [f \in Faults |-> IF f \in fs THEN 1 ELSE 0]

Many == <<Withdrawal("ann", "p1", "cUSD", TRUE), Withdrawal("bob", "p2", "cUSD", TRUE),
          Withdrawal("dan", "p3", "cUSD", TRUE)>>
Twice == <<Withdrawal("ann", "p1", "cUSD", TRUE), Withdrawal("dan", "p3", "cUSD", FALSE),
           Withdrawal("bob", "p1", "cEUR", TRUE), Withdrawal("ann", "p1", "CELO", TRUE)>>
TwoPhones == <<Withdrawal("ann", "p1", "cUSD", TRUE), Withdrawal("ann", "p4", "cUSD", TRUE)>>

MCScenarios == {
    [withdrawals |-> TwoPhones, attestations |-> Invitees \cup {Own}, known |-> Invitees \cup {Own},
     mappings |-> {}, budget |-> Upto1({"node", "db", "crash"})],
    [withdrawals |-> Many, attestations |-> Invitees \cup {Own}, known |-> Invitees \cup {Own},
     mappings |-> {}, budget |-> Upto1({"week", "fail"})],
    [withdrawals |-> Twice, attestations |-> Invitees \cup {Own}, known |-> Invitees \cup {Own},
     mappings |-> {}, budget |-> Upto1({"node", "db", "crash"})],
    [withdrawals |-> Twice, attestations |-> Invitees \cup {Account}, known |-> Invitees,
     mappings |-> {[account |-> "account", wallet |-> "wallet"]}, budget |-> Upto1({"db", "revoke"})]}

Symmetry == Permutations(Instances)
=============================================================================
