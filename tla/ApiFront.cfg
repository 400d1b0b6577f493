SPECIFICATION Spec
CONSTANTS
    Wallet = "wallet"
    Loads <- MCLoads
    Limit = 2
    Ttl = 2
    EnabledFor <- MCEnabledFor
    BypassToken = "bypass"
    Transactions <- MCTransactions
    Subsidised <- MCSubsidised
    MaxTime = 3
    Tries = 2
    FirstQuota = 1
    Grant = 1
CHECK_DEADLOCK FALSE
INVARIANTS TypeOK LimitPerPeriod SessionsAreVerified OnlyAllowedIsExecuted AllowedIsLetThrough OutOfQuotaOnlyIfDisturbed
PROPERTIES ReadyIsKept
