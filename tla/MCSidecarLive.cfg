SPECIFICATION Spec

CONSTANTS
    Pid = {p1, p2}
    NoPid = NoPid
    PipeCap = 1
    FramesCap = 2
    MinBackoff = 1
    MaxBackoff = 3
    MaxFailures = 2
    Stoppable = FALSE

PROPERTIES Restarts Recovers
