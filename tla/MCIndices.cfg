SPECIFICATION IdxSpec
CONSTANTS
    r1 = r1
    r2 = r2
    d1 = d1
    Requests <- MCRequests
    Docs <- MCDocs
    MaxIndices = 3
    MaxVersion = 2
    LastSecond = 3
    MaxTasks = 2
    MaxFaults = 1
    MaxStarts = 3
    Scopes <- MCScopes
SYMMETRY IndexSymmetry
INVARIANTS
    IdxTypeOK
    AliasNamesOneIndex
    LiveHasEverything
CHECK_DEADLOCK FALSE
