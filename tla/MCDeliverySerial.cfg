SPECIFICATION FairSpec
CONSTANTS
    Slots = {t1, t2, t3}
    Workers = 1
    MaxRetries = 1
    RedisRetries = 1
    MaxDeliveryRetries = 1
    MaxAccepted = 2
    MaxFaults = 1
    Reports = {"SENT", "FAILED", "DELIVERED"}
    LongResets = FALSE
INVARIANT SerialIsExact
PROPERTIES IsMessageLife Settles
CHECK_DEADLOCK FALSE
