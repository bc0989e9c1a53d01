SPECIFICATION RecoverySpec
CONSTANTS
    SeqMod = 2
    BdMod = 3
    None = None
    flow = flow
    DeviceList <- MCNoDevice
    Names <- MCNames
    NodeMetrics <- MCNodeMetrics
    DeviceMetrics <- MCDeviceMetrics
    Configs <- MCConfigs
    Timestamps = {}
    ReconnectWhileOpen = FALSE
    Aliases = {}
    Inputs = {}
    FirstStored = {0}
    MaxInFlight = 1
    MaxRequests = 1
    MaxConnects = 2
    MaxLost = 1
PROPERTY Recovers
CHECK_DEADLOCK FALSE
