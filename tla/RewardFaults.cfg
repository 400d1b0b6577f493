SPECIFICATION Spec
CONSTANTS
    Invites = {i1}
    Instances = {n1, n2}
    i1 = i1
    n1 = n1
    n2 = n2
    MaxInvitesPerQuery = 1
    MaxSends = 3
    StuckBefore = {}
    Budget <- MCBudget
    Timeouts = 1
    Crashes = 1
    DbErrors = 1
    Rollbacks = 1
    Replacements = 1
SYMMETRY Symmetry
CHECK_DEADLOCK FALSE
INVARIANTS TypeOK CompletedIsPaid DoubleRewardNeedsLoss
PROPERTIES ResendOnlyAfterFailure ImplementsPayment
