SPECIFICATION SessionSpec
CONSTANTS
    SeqMod = 2
    BdMod = 4
    None = None
    d1 = d1
    flow = flow
    level = level
    DeviceList <- MCOneDevice
    Names <- MCNames
    NodeMetrics <- MCNodeMetrics
    DeviceMetrics <- MCDeviceMetrics
    Configs <- MCConfigs
    Timestamps = {}
    ReconnectWhileOpen = FALSE
    Aliases = {0, 1}
    Inputs = {}
    FirstStored = {2}
    MaxInFlight = 2
    MaxRequests = 1
    MaxConnects = 3
    MaxLost = 1
INVARIANTS GapDetected DeathIsTrue RebirthHasReason Agreement
CONSTRAINT MCOneTrouble
