SPECIFICATION Spec
CONSTANTS
    Vendors <- Drivers
    DeviceIds = {1, 2}
    TotalMemory = 3
    MemoryDemands <- Demands
    MaxRefreshes = 3
    MaxFaults = 1
INVARIANTS
    NoStaleReadings
    DerivationSound
    RatesNeedTwoReadings
    SnapshotHasRates
    FaultsAreContained
