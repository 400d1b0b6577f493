------------------------------ MODULE MCSession ------------------------------
(* Session for TLC: the quotas are given one number at a time.               *)
EXTENDS Session, TLC

CONSTANTS PepperQuota, AttestationQuota, MetaTransactionQuota

MCQuota == [a \in TrackedAction |->
    CASE a = "distributedBlindedPepper" -> PepperQuota
      [] a = "requestSubsidisedAttestation" -> AttestationQuota
      [] a = "submitMetaTransaction" -> MetaTransactionQuota]

\* Requests are interchangeable, and so are implementations.
Symmetry == Permutations(Requests) \cup Permutations(Implementations)
==============================================================================
