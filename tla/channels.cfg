SPECIFICATION FairSpec
CONSTANTS
    None = None
    Publishers = {p1, p2}
    Subscribers = {s1, s2}
    Gateways = {g1}
    Ttl = 1
    Padding = 1
    RequestPeriod = 1
    MaxInFlight = 1
    MaxIdentities = 3
INVARIANTS
    KnownHasPeer
PROPERTIES
    SubscriptionServed
    Quiesces
