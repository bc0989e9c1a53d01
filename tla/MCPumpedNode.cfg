SPECIFICATION PumpSpec
CONSTANTS
    SeqMod = 2
    BdMod = 3
    None = None
    d1 = d1
    flow = flow
    level = level
    DeviceList <- MCDeviceList
    Names <- MCNames
    NodeMetrics <- MCNodeMetrics
    DeviceMetrics <- MCDeviceMetrics
    Configs <- MCConfigs
    Timestamps = {}
    ReconnectWhileOpen = TRUE
    ChannelCapacity = 4
    MaxConnects = 2
    MaxBreaks = 2
INVARIANTS DeathIsTold FreshDataAfterBirth ConnectReturns
