SPECIFICATION FileSpec
CONSTANTS
    old = old
    new = new
    node_bdseq = node_bdseq
    None = None
    Unreadable = Unreadable
    Users <- MCUsers
    PathOf <- MCPathOf
    PidOf <- MCPidOf
    Numbers = {0, 1, 2}
INVARIANT OwnTmp
PROPERTY StoreImplemented
