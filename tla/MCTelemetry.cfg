SPECIFICATION TelemetrySpec

CONSTANTS
    Capacity = 2
    MaxSnapshot = 4
    NoMeta = NoMeta
    Second = {1, 2}
    MaxFrame = 5
    MaxArray = 7

INVARIANTS HistorySinceIsExact MetaDatesLatest FramesAreArrays
PROPERTY RefinesPoints
