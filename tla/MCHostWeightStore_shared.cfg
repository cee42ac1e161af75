SPECIFICATION StoreSpec
CONSTANTS
    p1 = p1  p2 = p2
    Processes = {p1, p2}
    Nobody = Nobody
    MaxPublications = 2
    MaxStrain = 2
SYMMETRY Either
INVARIANTS StoreTypeOK LeaseBacked PublishesAlone HealthyStays
PROPERTIES CondemnedNotServed CommitIsDurable
