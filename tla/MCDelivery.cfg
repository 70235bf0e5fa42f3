SPECIFICATION Spec
CONSTANTS
    Slots = {t1, t2, t3}
    Workers = 2
    MaxRetries = 1
    RedisRetries = 1
    MaxDeliveryRetries = 1
    MaxAccepted = 3
    MaxFaults = 2
    Reports = {"FAILED", "DELIVERED"}
    LongResets = TRUE
SYMMETRY SlotSymmetry
INVARIANT SendsAreAccounted
PROPERTY NeverAbandoned
CHECK_DEADLOCK FALSE
