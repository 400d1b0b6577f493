SPECIFICATION Spec
CONSTANTS
    Calls = {c1}
    Runs = {r1, r2}
    c1 = c1
    r1 = r1
    r2 = r2
    Tries = 2
    MaxNonce = 3
    TopLevel = 3
    TopMinimum = 2
    MultiplierLevels = 0
    MaxGasPrice = 2
    GasPriceFallback = 1
    Budget <- MCBudget
    Lost = 1
    Refused = 0
    Rpc = 1
    Lookup = 1
    Drops = 1
    Crashes = 1
    OdisSends = 0
SYMMETRY Symmetry
INVARIANTS TypeOK AcknowledgedIsCovered
PROPERTIES WatchNeverLosesNonce
