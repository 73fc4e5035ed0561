SPECIFICATION Spec
CONSTANTS
    None = None
    Peers = {p1, p2}
    Ttls = {7}
    Spacing = 2
    Period = 5
    Retry = 2
    Padding = 6
    MaxRetries = 1
    MaxPending = 1
INVARIANTS SpacingKept ToldInTime NeverSilent PrunedInTime
