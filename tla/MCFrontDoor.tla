----------------------------- MODULE MCFrontDoor -----------------------------
(* FrontDoor for TLC: a rush of requests for a session or for its forecast,   *)
(* two logins of every kind, one meta-transaction of every shape, or two      *)
(* queries for a pepper.                                                      *)
EXTENDS FrontDoor

Plain(endpoint) == [endpoint |-> endpoint, token |-> BypassToken, device |-> "none", signed |-> FALSE]

Rush == [{"r1", "r2", "r3", "r4"} -> {Plain("ready"), Plain("startSession")}]

\* The second login differs from the first only in what they share: the token.
Logins == {l \in [{"r1", "r2"} -> [endpoint : {"startSession"}, token : {"t1", BypassToken},
                                  device : Devices, signed : BOOLEAN]] :
              l["r2"].device = "android" /\ l["r2"].signed}

MCLoads == Rush \cup Logins \cup
    [{"r1"} -> {Plain("submitMetaTransaction"), Plain("requestSubsidisedAttestations")}] \cup
    [{"r1", "r2"} -> {Plain("distributedBlindedPepper")}]

MCEnabledFor(l) == IF l \in Logins THEN {{"CAPTCHA", "SIGNATURE"}, Rules} ELSE {{}}

Methods == {"approve", "request", "setSigner"}
Contracts == {"StableToken", "Attestations"}

Data == UNION {[1 .. n -> {"approve", "complete"}] : n \in 0 .. 3}

\* Batches of two calls of every shape, and of three calls to one contract.
Batches == [destinations : UNION {[1 .. n -> Contracts] : n \in 0 .. 2},
            lengths : UNION {[1 .. n -> 0 .. 2] : n \in 0 .. 2}, data : Data] \cup
           [destinations : {[i \in 1 .. 3 |-> "StableToken"]}, lengths : [1 .. 3 -> 0 .. 2], data : Data]

Empty == [destinations |-> <<>>, lengths |-> <<>>, data |-> <<>>]

Children == [to : Contracts \cup {Wallet}, method : Methods \cup {"executeMetaTransaction"},
             decodes : {TRUE}, batch : {Empty}] \cup
            [to : {Wallet}, method : {"executeTransactions"}, decodes : {TRUE}, batch : Batches] \cup
            [to : {Wallet, "StableToken"}, method : {"executeTransactions"}, decodes : BOOLEAN,
             batch : {Empty}]

Roots == [to : {Wallet, "StableToken"}, method : {"executeMetaTransaction", "approve"},
          decodes : BOOLEAN]

MCTransactions ==
    {[to |-> t.to, method |-> t.method, decodes |-> t.decodes, child |-> c] :
        t \in {x \in Roots : x.to = Wallet /\ x.method = "executeMetaTransaction" /\ x.decodes},
        c \in Children} \cup
    {[to |-> t.to, method |-> t.method, decodes |-> t.decodes,
      child |-> [to |-> "StableToken", method |-> "approve", decodes |-> TRUE, batch |-> Empty]] :
        t \in Roots}

MCSubsidised == {tx \in MCTransactions : tx.child.batch = Empty}
==============================================================================
