SPECIFICATION LayoutSpec
CONSTANTS
    MaxDevices = 3
    MaxLines = 4
    Rows <- MCRows
    Cols <- MCCols
    HeaderRows = 3
    HeaderCols = 64
    UintMod = 65536
INVARIANT
    ColumnsPerLineWhole
