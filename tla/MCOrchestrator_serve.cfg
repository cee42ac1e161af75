SPECIFICATION FairSpec
CONSTANTS
    r1 = r1
    c1 = c1
    k1 = k1
    Requests = {r1}
    Companions = {c1}
    Parent <- CompanionOfR1
    LastStage = 1
    Diffusion = {1}
    FinalOutput = {1}
    Slots <- OneReplicaEach
    Hubs = {TRUE, FALSE}
    KVReady = {r1}
    MaxFaults = 1
    Nobody = Nobody
    NoReplica = NoReplica
INVARIANTS TypeOK DispatchedOnce NoStrandedParent NoLostRequest
PROPERTIES ServesRequests
CHECK_DEADLOCK FALSE
