SPECIFICATION Spec
CONSTANTS
    Flows <- MCFlows
    Issuers = {i1}
    i1 = i1
    Tries = 2
    ExecTries = 2
    CodeBound = 2
CHECK_DEADLOCK FALSE
INVARIANTS TypeOK OkMeansExecuted ExecutedOncePerTry UnauthorisedStops
PROPERTIES CallsReturn
