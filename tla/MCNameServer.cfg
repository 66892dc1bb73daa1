SPECIFICATION FairSpec
CONSTANTS
    r1 = r1
    r2 = r2
    n1 = n1
    Names = {n1}
    Registrants = {r1, r2}
    NameOf <- MCNameOf
    LimitOf <- MCLimitOf
    Clients = {c1, c2}
    Cramped = {c1}
    Mortal = {c2, r2}
    QueueLen = 1
    MaxRegistrations = 2
    MaxCalls = 5
    Unlimited = Unlimited
    None = None
INVARIANTS CountsAgree OneClient NobodyPassedOver
PROPERTIES ConnectsAnswered
CHECK_DEADLOCK FALSE
