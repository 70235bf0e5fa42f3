SPECIFICATION FairSpec
CONSTANTS
    Sweepers = {s1, s2}
    Workers = {w1}
    Inbounds = {i1}
    MaxMessages = 2
    MaxHumanMoves = 1
    MaxFaults = 1
    Visibility = 1
    RescueMin = 1
    RescueAt = 2
    ReengageMin = 3
    ReengageAt = 4
    Window = 5
INVARIANT FollowUpsAreFew
PROPERTIES StopsStand SilentAreAttended
CHECK_DEADLOCK FALSE
