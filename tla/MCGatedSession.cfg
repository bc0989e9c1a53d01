SPECIFICATION GatedSpec
CONSTANTS
    SeqMod = 3
    BdMod = 2
    None = None
    d1 = d1
    flow = flow
    level = level
    DeviceList <- MCNoDevice
    Names <- MCNames
    NodeMetrics <- MCNodeMetrics
    DeviceMetrics <- MCDeviceMetrics
    Configs <- MCConfigs
    Timestamps <- MCTimestamps
    ReconnectWhileOpen = FALSE
    StartWhileOpen = FALSE
    MaxTime = 2
    MaxConnects = 2
    MaxInFlight = 2
INVARIANTS PrimaryTypeOK OnlineHasWill Reasserted GateAgreement
PROPERTIES EndsForReason GateOpens GateCloses
ACTION_CONSTRAINT MCOneFails
