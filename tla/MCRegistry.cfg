SPECIFICATION FairRegSpec
CONSTANTS
    vendor = vendor
    talk = talk
    api = api
    turn = turn
    Models = {talk}
    Providers = {vendor}
    ProviderOf <- MCProviderOf
    Retries <- MCRetries
    EnvLocalModel = envLocal
    EnvFrontierModel = envFrontier
    EnvFrontier = FALSE
    NoModel = noModel
    NoSnap = noSnap
    Procs = {api}
    ApiProcs = {api}
    Callers = {turn}
    ProcOf <- MCProcOf
    Admins = {op, other}
    Model0 <- MCModel
    Prov0 <- MCProv
    Route0 <- MCRoute
    MaxChain = 2
    MaxEdits = 2
    MaxOutages = 1
INVARIANTS RegTypeOK LocalIsTheLastResort SnapshotIsCurrent
PROPERTIES DeleteSparesRouted CallsCatchUp
