SPECIFICATION FairSpec
CONSTANTS
    m1 = m1
    m2 = m2
    m3 = m3
    Payloads <- MCPayloads
    OptOuts = {m3}
    Tasks = {w1, w2}
    Targets = {"HUMAN_ASSIGNED", "CLOSED"}
    MaxRepeats = 1
    MaxRetries = 2
    MaxMoves = 2
    MaxFaults = 1
    none = none
PROPERTY OptOutHonoured
CHECK_DEADLOCK FALSE
