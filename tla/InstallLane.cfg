\* Nested lanes of two installations, a window that closes and a process that dies.
SPECIFICATION FairSpec
CONSTANTS
    window = window  other = other
    worker = worker  executor = executor  single = single
    r1 = r1  r2 = r2
    None = None
    Procs = {window}
    Threads = {worker, executor}
    ProcOf <- MCProcOf
    Tracked = {worker}
    Windows = {window}
    Roots = {r1, r2}
    MaxCrashes = 1
INVARIANTS LaneExclusive InterruptedIsolated LanesGivenBack
PROPERTIES ExitSparesWrites CloseEnds
CHECK_DEADLOCK FALSE
