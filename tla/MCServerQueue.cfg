CONSTANTS
    p0 = p0
    p1 = p1
    p2 = p2
    PIDs = {p0, p1, p2}
    TIDs = {1, 2}
    SIDs = {"sid"}
    Bodies = {"b"}
    QueueLen = 3
    GenMod = 4
    Clients <- MCClients
    ServerThreads = {1}
    Types = {"Move", "MutableBorrow"}
    ServerPid = p0
    ServerSid = "sid"
    Nobody = Nobody
SPECIFICATION FairSpec
INVARIANTS TypeOK GenerationsMatch NoLostWakeup
PROPERTIES EveryMessageDelivered ImplementsMailbox
