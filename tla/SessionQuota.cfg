SPECIFICATION Spec
CONSTANTS
    Accounts = {a1}
    Implementations = {w1, w2}
    Requests = {q1, q2, q3, q4}
    a1 = a1
    w1 = w1
    w2 = w2
    q1 = q1
    q2 = q2
    q3 = q3
    q4 = q4
    Quota <- MCQuota
    PepperQuota = 1
    AttestationQuota = 2
    MetaTransactionQuota = 1
    MaxRequested = 2
    MaxSessions = 2
    MaxDeploys = 2
SYMMETRY Symmetry
CHECK_DEADLOCK FALSE
INVARIANTS TypeOK NeverOvercharged QuotaIsEnforced OneSessionWithQuota WalletIsReported
PROPERTIES OneDeployAtATime
