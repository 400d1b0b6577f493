SPECIFICATION LiveSpec
CONSTANTS
    Calls = {c1}
    Runs = {r1}
    c1 = c1
    r1 = r1
    Tries = 1
    MaxNonce = 2
    TopLevel = 3
    TopMinimum = 2
    MultiplierLevels = 0
    MaxGasPrice = 2
    GasPriceFallback = 1
    Budget <- MCBudget
    Lost = 0
    Refused = 0
    Rpc = 0
    Lookup = 1
    Drops = 0
    Crashes = 1
    OdisSends = 0
PROPERTIES ExecutionDoesNotStall
