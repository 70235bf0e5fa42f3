SPECIFICATION FairSpec
CONSTANTS
    Phones = {p1, p2, p3}
    p3 = p3
    Agents = {a1}
    Nobody = nobody
    Users = {u1, u2}
    p1 = p1
    p2 = p2
    a1 = a1
    nobody = nobody
    u1 = u1
    u2 = u2
    Window = 1
    MaxTime = 4
    MaxVerdicts = 2
    Attribution = 2
    MaxNights = 2
    ThreadPage = 2
    Scenarios <- MCScenarios
INVARIANTS ContactsAreSound TagsAreExplained AdministrationIsSound FiguresAgree InboxIsTrue DraftsAreSound SearchIsSound
PROPERTIES StepsAreDue NobodyIsForgotten
CHECK_DEADLOCK FALSE
