SPECIFICATION Spec
CONSTANTS
    Calls = {c1, c2}
    Runs = {}
    c1 = c1
    c2 = c2
    Tries = 2
    MaxNonce = 5
    TopLevel = 2
    TopMinimum = 2
    MultiplierLevels = 0
    MaxGasPrice = 2
    GasPriceFallback = 1
    Budget <- MCBudget
    Lost = 1
    Refused = 1
    Rpc = 1
    Lookup = 0
    Drops = 0
    Crashes = 1
    OdisSends = 1
SYMMETRY Symmetry
INVARIANTS AcknowledgedNoncesDistinct NoStrandedNonce
PROPERTIES ImplementsAccount
