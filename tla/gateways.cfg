SPECIFICATION FairSpec
CONSTANTS
    None = None
    Addresses = {1, 2, 3}
    Loopback = 1
    Unspecified = 0
    HostLists <- Lists
    Configs <- AutoOrRepeats
    Roles = {discovery}
    MaxEpoch = 3
    MaxUpsets = 2
CHECK_DEADLOCK FALSE
INVARIANTS
    OneGatewayPerAddress
    SnapshotStaysValid
    HeardOnOpenGateways
    ToldOrDue
PROPERTIES
    FirstAliveIsCurrent
    GatewaysFollow
    ThreadsEnd
