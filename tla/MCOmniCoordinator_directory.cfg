SPECIFICATION FairCoordinatorSpec
CONSTANTS
    Replicas = {r1}
    Hubs = {h1}
    HeartbeatTimeout = 1
    GcTtl = 2
    EventBuffer = 2
    ListBuffer = 1
INVARIANTS CoordinatorTypeOK LastWordCounts
PROPERTIES HubCatchesUp SilenceIsForgiven DeadIsDropped
