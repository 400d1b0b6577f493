SPECIFICATION Spec
CONSTANTS
    Instances = {n1, n2}
    n1 = n1
    n2 = n2
    Scenarios <- MCScenarios
    WeeklyLimit = 1
SYMMETRY Symmetry
CHECK_DEADLOCK FALSE
INVARIANTS TypeOK RewardsAreDeserved WeeklyLimitOverrun ConsumedIsAccountedFor
PROPERTIES ImplementsLedger
