SPECIFICATION MessagesSpec
CONSTANTS
    None = None
    Absent = Absent
    ByteBits = 3
    MaxDepth = 4
    Births <- MCBirths
    DataOf <- MCDataOf
    Parts <- MCParts
    Reserved <- MCReserved
    Nodes <- MCNodes
    Hosts <- MCHosts
    GivenIds <- MCGivenIds
    Foreign <- MCForeign
    Written <- MCWritten
    Sentinel <- MCSentinel
    AlgorithmName <- MCAlgorithmName
    Gzip <- MCGzip
    Jobs <- MCJobs
INVARIANTS
    BirthRoundTrip DepthLimit DataReadAsBorn
    ReportsRouted CommandsRouted StateRouted ParsedIsPrinted
    FieldsAsWritten OpenedAsSent
CHECK_DEADLOCK FALSE
