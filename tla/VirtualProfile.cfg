\* Two processes publish, fail, die and recover; one file changes without the lane.
SPECIFICATION FairSpec
CONSTANTS
    p1 = p1  p2 = p2  i1 = i1  i2 = i2  b1 = b1  b2 = b2
    None = None
    VirtualLoading = FALSE
    Procs = {p1, p2}
    Ids = {i1}
    Bindings = {b1}
    MaxGen = 2
    MaxLayers = 1
    MaxFaults = 1
    MaxCrashes = 1
    MaxStrays = 1
ACTION_CONSTRAINT FirstToPrepare
INVARIANTS TypeOK LedgersAgree OwnersReserved AlwaysRecoverable
PROPERTIES JournalSettled OutcomeIsTruthful ImplementsStore ForeignLedgerKept 
CHECK_DEADLOCK FALSE
