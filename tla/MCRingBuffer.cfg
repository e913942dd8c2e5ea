SPECIFICATION Spec

CONSTANTS
    d1 = d1
    w1 = w1
    w2 = w2
    s1 = s1
    s2 = s2
    Device <- MCDevice
    Which <- MCWhich
    Sample <- MCSample
    BufferSize = 4

INVARIANT TypeOK
PROPERTY RefinesHistory
