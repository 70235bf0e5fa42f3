SPECIFICATION FairSpec
CONSTANTS
    MaxMessages = 2
    MaxRuns = 2
    AiRetries = 1
    MaxCrashes = 1
    SlowRuns = FALSE
INVARIANT DraftsInOrder
PROPERTIES SentIsApproved RunsEnd
CHECK_DEADLOCK FALSE
