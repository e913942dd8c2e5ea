SPECIFICATION Spec

CONSTANTS
    g1 = g1
    g2 = g2
    p1 = p1
    p2 = p2
    Gpu = {g1, g2}
    Pid = {p1, p2}
    NoGpu = NoGpu
    MaxProcs = 2
    MaxRefresh = 3

INVARIANTS CacheIsListed RefreshedNamesLive UsageIsRecent
SYMMETRY MCSymmetry
