SPECIFICATION MCLiveSpec
CONSTANTS
    Invites = {i1, i2, i3}
    StuckBefore = {i3}
    Instances = {n1}
    i1 = i1
    i2 = i2
    i3 = i3
    n1 = n1
    MaxInvitesPerQuery = 2
    MaxSends = 2
    Budget <- MCBudget
    Timeouts = 0
    Crashes = 0
    DbErrors = 0
    Rollbacks = 0
    Replacements = 1
CHECK_DEADLOCK FALSE
PROPERTIES RewardIsSettled
