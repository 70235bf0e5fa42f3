SPECIFICATION FairSpec
CONSTANTS
    Posts = {p1, p2}
    p1 = p1
    p2 = p2
    Requests = {r1, r2}
    Workers = {w1, w2}
    Reviewers = {v1, v2}
    BuyTTL = 1
    Window = 2
    SellTTL = 3
    LastPost = 1
    Guesses = {"BUY", "SELL"}
    Id <- MCId
    Histories <- MCHistories
INVARIANTS PostsAreMerged TextsAgree
PROPERTIES ReviewStands PostsEnd
CHECK_DEADLOCK FALSE
