SPECIFICATION FairSpec
CONSTANTS
    None = None
    MaxChanges = 2
    MaxCopies = 1
    MaxOpens = 2
    MaxMishaps = 1
    Timers = {t1, t2}
    Workers = {w1, w2}
INVARIANTS DraftKept ClosedMeansSaved NothingSilentlyUnsaved CopiesLoad
PROPERTIES EditsReachDisk
CHECK_DEADLOCK FALSE
