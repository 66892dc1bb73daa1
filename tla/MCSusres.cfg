SPECIFICATION FairSpec
CONSTANTS
    s1 = s1
    s2 = s2
    Subscribers = {s1, s2}
    OrderOf <- MCOrderOf
    Hooked = {s2}
    Mortal = {s1, s2}
    Requesters = {r1, r2}
    QueueLen = 2
    MaxRequests = 2
    MaxScalars = 1
    Nobody = Nobody
INVARIANTS PassedOrdersFrozen QuietBetweenRounds
PROPERTIES PowerOffSafe EveryoneReleased
CHECK_DEADLOCK FALSE
