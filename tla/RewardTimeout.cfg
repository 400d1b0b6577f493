SPECIFICATION Spec
CONSTANTS
    Invites = {i1}
    Instances = {n1}
    i1 = i1
    n1 = n1
    MaxInvitesPerQuery = 1
    MaxSends = 2
    StuckBefore = {}
    Budget <- MCBudget
    Timeouts = 1
    Crashes = 0
    DbErrors = 0
    Rollbacks = 0
    Replacements = 0
SYMMETRY Symmetry
CHECK_DEADLOCK FALSE
INVARIANTS NoDoubleReward
