SPECIFICATION Spec

CONSTANTS
    g1 = g1
    g2 = g2
    f1 = f1
    f2 = f2
    f3 = f3
    c1 = c1
    Pid = {p1, p2}
    NoPid = NoPid
    File = {f1, f2, f3}
    NoFile = NoFile
    NumFd = 3
    Gpu = {g1, g2}
    FileGpu <- MCFileGpu
    FileClient <- MCFileClient
    NoClient = NoClient
    Callbacks <- MCCallbacks
    HasKcmp = TRUE
    MaxRefresh = 2
    MaxChanges = 4

SYMMETRY MCSymmetry
INVARIANTS OneRowPerProcess UniqueOpens UsageAcrossRefreshes CacheIsLatest
