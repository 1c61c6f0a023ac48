\* A preparation reads a registry that is rolled back.
SPECIFICATION Spec
CONSTANTS
    p1 = p1  p2 = p2  i1 = i1  i2 = i2  b1 = b1  b2 = b2
    None = None
    VirtualLoading = FALSE
    Procs = {p1, p2}
    Ids = {i1}
    Bindings = {b1}
    MaxGen = 2
    MaxLayers = 0
    MaxFaults = 1
    MaxCrashes = 0
    MaxStrays = 0
INVARIANTS PreparedFromObserved
CHECK_DEADLOCK FALSE
