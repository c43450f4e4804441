\* Each request is served once, so the accounts come to rest.
SPECIFICATION DeskSpec
CONSTANTS
    Emails = {e1, e2}
    g1 = g1
    g2 = g2
    p1 = p1
    p2 = p2
    AgentEmails = {g1, g2}
    Passwords = {p1, p2}
    Requests = {r1, r2}
    Asked <- MCAsked
    MaxRows = 2
    PageSize = 1
    Word = 8
    None = None
SYMMETRY Symmetry
CHECK_DEADLOCK FALSE
INVARIANTS
    InsertedOnce
    ActiveMatchesStatus
    LoggedIsDone
    DoneIsLogged
    WalkMissesNothing
    TotalCoversPage
PROPERTIES
    ActsOnCurrentRow
