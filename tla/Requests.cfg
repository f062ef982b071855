SPECIFICATION Requests
CONSTANTS
    t1 = t1
    t2 = t2
    t3 = t3
    t4 = t4
    Nothing = Nothing
    Error = Error
    Callers <- MCCallers
    MaxFailures = 1
    MaxDrops = 1
    End = End
    MaxMessages = 2
    MaxNews = 1
INVARIANTS
    NoConnectionLeaks
    AloneIsServed
    CleanEnd
    LossHasCause
    VerdictHasCause
PROPERTIES
    ExchangesEnd
    SessionEnds
CHECK_DEADLOCK FALSE
