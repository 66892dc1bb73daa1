CONSTANTS
    MaxProcesses = 3
    TIDs = {2, 3}
    Bodies = {b}
    QueueLen = 2
    GenMod = 3
    MaxServers = 1
    NoServer = NoServer
    Nobody = Nobody
    Types = {"Move", "BlockingScalar", "MutableBorrow"}
    Booted = {1, 2, 3}
    Owners = {2}
    Handlers = {2}
    Mortal = {3}
    MaxThreads <- MCClientTwo
    Calls = {}
SPECIFICATION FairSpec
INVARIANTS NoFault ThreadsAccounted AnswersOwed
PROPERTIES NoThreadStarves
