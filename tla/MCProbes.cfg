\* Every probe: three addresses and two slots, one datagram, both resolvers,
\* and a failover with slices above and below the least one.
CONSTANTS
    MaxAddresses = 3
    Limit = 2
    DialErrors = {"refused", "other"}
    TLSErrors = {"alert", "other"}
    SendErrors = {"unreachable", "other"}
    ReadErrors = {"refused", "other"}
    Resolvers = {"system", "public"}
    Wants = {"any", "ipv4", "ipv6"}
    Budgets = {4, 7}
    MinSlice = 2
    MaxPeers = 3
    Delays = {1, 3}
    HTTPErrors = {"refused", "alert"}
SPECIFICATION FairSpec
INVARIANTS
    TypeOK
    ReportIsOrdered
    PassMeansConnected
    NoConnectionLeft
    FailureWinsByAggregate
    SilenceIsNoFailure
    NXDOMAINIsCertain
    AAAASparesA
    TimeoutIsTimeoutElsewhere
    StalledSparesOthers
    EveryAddressGetsItsSlice
    WithinLayerBudget
PROPERTIES
    ProbeReturns
    ImplementsContract
CHECK_DEADLOCK FALSE
