\* Patches of shipped directories below a mounted overlay.
SPECIFICATION Spec
CONSTANTS
    Torn = Torn
    None = None
    Mounted = TRUE
    Pazes = {"0000/0.paz", "0009/0.paz", "0009/1.paz"}
    GroupOf <- MCGroupOf
    SortedDirs <- MCSortedDirs
    MountOrder <- MCMountOrder
    FileOrder <- MCFileOrder
    Requests <- MCRequests
    MaxPatches = 2
    MaxFailures = 2
    MaxCrashes = 1
INVARIANTS ChainMaintained
CHECK_DEADLOCK FALSE
