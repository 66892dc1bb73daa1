CONSTANTS
    MaxProcesses = 3
    TIDs = {2, 3}
    Bodies = {b}
    QueueLen = 2
    GenMod = 3
    MaxServers = 1
    NoServer = NoServer
    Nobody = Nobody
    Types = {"Scalar", "BlockingScalar", "MutableBorrow"}
    Booted = {1, 2}
    Owners = {2}
    Handlers = {2, 3}
    Mortal = {}
    MaxThreads <- MCOneTwo
    Calls = {"ReplyAndReceiveNext", "DestroyServer", "CreateProcess", "JoinThread", "ExitThread", "WaitEvent"}
SPECIFICATION Spec
INVARIANTS NoFault OneProcessRuns ThreadsAccounted AnswersOwed ParkedThreadsWait ParentKnown
