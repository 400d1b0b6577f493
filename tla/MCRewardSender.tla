--------------------------- MODULE MCRewardSender ---------------------------
(* RewardSender for TLC: the fault budget is given one number at a time, and *)
(* the database may hold rows from before the processes were started.        *)
EXTENDS RewardSender, TLC

CONSTANTS
    Timeouts, Crashes, DbErrors, Rollbacks, Replacements,
    StuckBefore  \* rewards whose transfer was replaced before the start

MCBudget == [timeout |-> Timeouts, crash |-> Crashes, db |-> DbErrors,
             rollback |-> Rollbacks, replaced |-> Replacements]

\* Rewards and processes are interchangeable.
Symmetry == Permutations(Invites) \cup Permutations(Instances)

\* The processes start with unfinished rows that nothing will finish.
MCInit ==
    /\ rows = [i \in Invites |-> IF i \in StuckBefore
                    THEN [state |-> "Submitted", hash |-> 1, old |-> TRUE] ELSE NoRow]
    /\ transfers = [i \in Invites |-> IF i \in StuckBefore THEN <<"Replaced">> ELSE <<>>]
    /\ lock = [i \in Invites |-> NoInstance]
    /\ first = [i \in Invites |-> NoSend]
    /\ watched = [n \in Instances |-> {}]
    /\ checking = [n \in Instances |-> {}]
    /\ retrying = [n \in Instances |-> NoRetry]
    /\ faults = Budget

MCLiveSpec == MCInit /\ [][Next]_vars /\ Fairness
=============================================================================
