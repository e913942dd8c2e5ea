SPECIFICATION SetupSpec

CONSTANTS
    g1 = g1
    g2 = g2
    g3 = g3
    Gpu = {g1, g2, g3}
    Order <- MCOrder
    FdinfoGpu = {g1, g2}
    NumMetric = 3
    MaxLines = 2
    Capacity = 2
    Configured <- MCConfigured
    MaxRefresh = 2
    NumField = 2
    NumColour = 2
    MaxInterval = 2
    MaxChanges = 2

CHECK_DEADLOCK FALSE
INVARIANTS
    OptsInSync MonitoredAsAsked CallbacksFollowList StayersKeepOrder
    PlotShowsOwnMetric ColumnsAligned CursorOnEntry
PROPERTIES
    KeysActOnHighlighted DefinedWhileAlike
