CONSTANTS
    MaxProcesses = 3
    MaxServers = 2
    MapLen = 2
    SIDs = {s1, s2}
    NoServer = NoServer
    NoSid = NoSid
SPECIFICATION Spec
SYMMETRY MCSymmetry
INVARIANTS TypeOK ConnectionsResolve CidKeepsItsServer OneCidPerAddress
PROPERTY TombstonesStay
