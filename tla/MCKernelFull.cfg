CONSTANTS
    MaxProcesses = 4
    TIDs = {2, 3}
    Bodies = {b}
    QueueLen = 1
    GenMod = 2
    MaxServers = 1
    NoServer = NoServer
    Nobody = Nobody
    Types = {"Scalar", "BlockingScalar"}
    Booted = {1, 2, 3, 4}
    Owners = {2}
    Handlers = {2}
    Mortal = {}
    MaxThreads <- MCSingle
    Calls = {}
SPECIFICATION Spec
INVARIANT OneProcessRuns
