SPECIFICATION Spec

CONSTANTS
    self = self
    p1 = p1
    p2 = p2
    Pid = {self, p1, p2}
    NvtopPid = self
    NoPid = NoPid
    NumField = 2
    Rank <- MCRank
    DefaultFields = {0, 1}
    Preference <- MCPreference
    NumSignals = 10
    WinRows = 1
    Digit = {0, 1}
    MaxProcs = 2
    MaxRow = 11

INVARIANTS SignalGoesToHighlighted CursorVisible
PROPERTY SortFieldKept
