SPECIFICATION HostSpec
CONSTANTS
    SeqMod = 3
    BdMod = 2
    None = None
    d1 = d1
    d2 = d2
    flow = flow
    level = level
    DeviceList <- MCDeviceList
    Names <- MCNames
    Aliases <- MCAliases
    Inputs <- MCInputs
INVARIANT HostTypeOK
PROPERTY ViewImplemented
