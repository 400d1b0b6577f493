SPECIFICATION LiveSpec
CONSTANTS
    Calls = {c1}
    Runs = {r1}
    c1 = c1
    r1 = r1
    Tries = 3
    MaxNonce = 3
    TopLevel = 3
    TopMinimum = 2
    MultiplierLevels = 0
    MaxGasPrice = 2
    GasPriceFallback = 1
    Budget <- MCBudget
    Lost = 1
    Refused = 0
    Rpc = 0
    Lookup = 0
    Drops = 1
    Crashes = 0
    OdisSends = 1
PROPERTIES WatchedGetsThrough
