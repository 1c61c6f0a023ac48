SPECIFICATION FairSpec
CONSTANTS
    Kinds = {"imported", "reference"}
    MaxPublish = 3
    MaxRevision = 1
    MaxTextures = 2
    MaxRenewals = 1
    MaxFaults = 1
INVARIANTS ReadyMeansResident NoOrphanCompile GateHasKey
PROPERTIES QueueDrains
CHECK_DEADLOCK FALSE
