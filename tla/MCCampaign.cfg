SPECIFICATION FairSpec
CONSTANTS
    N = 2
    Recipients <- MCRecipients
    Batch = 1
    Workers = {w1, w2}
    Users = {u1, u2}
    Types = {"IMMEDIATE", "RECURRING"}
    MaxRequests = 2
    MaxTicks = 1
    MaxDispatchTries = 1
    MaxBatchTries = 1
    MaxPolls = 0
    MaxFaults = 1
INVARIANT SendingIsBounded
PROPERTY Finishes
CHECK_DEADLOCK FALSE
