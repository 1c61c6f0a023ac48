\* Patches and restores that fail, are cancelled and die, without an overlay.
SPECIFICATION Spec
CONSTANTS
    Torn = Torn
    None = None
    Mounted = FALSE
    Pazes = {"0000/0.paz", "0009/0.paz", "0009/1.paz"}
    GroupOf <- MCGroupOf
    SortedDirs <- MCSortedDirs
    MountOrder <- MCMountOrder
    FileOrder <- MCFileOrder
    Requests <- MCRequests
    MaxPatches = 2
    MaxFailures = 2
    MaxCrashes = 1
INVARIANTS EntriesReadable OutcomeExact BackupCovers ChainMaintained
CHECK_DEADLOCK FALSE
