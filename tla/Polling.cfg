SPECIFICATION LiveSpec
CONSTANTS
    Instances = {n1, n2}
    n1 = n1
    n2 = n2
    BatchSize = 1
    FromGenesis = FALSE
    EventsPerBlock = 1
    MaxBlock = 5
    MaxErrors = 1
INVARIANTS TypeOK NoEventSkipped
PROPERTIES EventsAreHandled CursorNeverMovesBack
