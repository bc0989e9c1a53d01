SPECIFICATION Spec
CONSTANTS
    SeqMod = 3
    BdMod = 3
    None = None
    d1 = d1
    d2 = d2
    temperature = temperature
    flow = flow
    level = level
    DeviceList <- MCDeviceList
    Names <- MCNames
    NodeMetrics <- MCNodeMetrics
    DeviceMetrics <- MCSharedMetrics
    Configs <- MCAliasConfigs
    Timestamps = {0, 1}
    ReconnectWhileOpen = FALSE
INVARIANT DataResolvable
