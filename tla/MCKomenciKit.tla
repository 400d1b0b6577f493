---------------------------- MODULE MCKomenciKit ----------------------------
(* KomenciKit for TLC: the flow of examples/attestation-flow.ts, and a short *)
(* one with the methods that flow does not use.                              *)
EXTENDS KomenciKit

MCFlows == {
    <<"startSession", "checkSession", "deployWallet", "getDistributedBlindedPepper",
      "checkSession", "setAccount", "requestAttestations", "selectIssuers",
      "completeAttestation">>,
    <<"checkService", "startSession", "deployWallet", "approveAttestations">>}
=============================================================================
