\* Virtual loading is off, an overlay layer is left, and its item is sent to DMM.
SPECIFICATION FairSpec
CONSTANTS
    p1 = p1  p2 = p2  i1 = i1  i2 = i2  b1 = b1  b2 = b2
    None = None
    VirtualLoading = FALSE
    Procs = {p1}
    Ids = {i1}
    Bindings = {b1}
    MaxGen = 1
    MaxLayers = 1
    MaxFaults = 0
    MaxCrashes = 0
    MaxStrays = 1
PROPERTIES LeftoverNeverBlocks
CHECK_DEADLOCK FALSE
