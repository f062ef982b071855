SPECIFICATION FairSpec
CONSTANTS
    p1 = p1
    p2 = p2
    u1 = u1
    u2 = u2
    None = None
    Processes = {p1, p2}
    Users = {u1, u2}
    MaxRequests = 4
    MaxId = 6
    MaxCrashes = 1
INVARIANTS
    OwnSessionUnlessBeside
PROPERTIES
    SessionIsShared
    RequestsEnd
CHECK_DEADLOCK FALSE
