SPECIFICATION OrchestratorSpec
CONSTANTS
    r1 = r1
    c1 = c1
    k1 = k1
    Requests = {r1}
    Companions = {}
    Parent <- CompanionOfR1
    LastStage = 1
    Diffusion = {1}
    FinalOutput = {1}
    Slots <- OneReplicaEach
    Hubs = {TRUE}
    KVReady = {}
    MaxFaults = 1
    Nobody = Nobody
    NoReplica = NoReplica
PROPERTY TerminalIsMonotonic
CHECK_DEADLOCK FALSE
