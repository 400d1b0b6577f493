------------------------ MODULE MCTransactionService ------------------------
(* TransactionService for TLC: how often each fault may happen is given by   *)
(* the configurations one number at a time.                                  *)
EXTENDS TransactionService, TLC

CONSTANTS Lost, Refused, Rpc, Lookup, Drops, Crashes, OdisSends

MCBudget == [lost |-> Lost, refused |-> Refused, rpc |-> Rpc, lookup |-> Lookup,
             drop |-> Drops, crash |-> Crashes, odis |-> OdisSends]

\* Callers and runs are interchangeable.
Symmetry == Permutations(Calls) \cup Permutations(Runs)
=============================================================================
