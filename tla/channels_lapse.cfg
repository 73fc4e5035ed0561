SPECIFICATION Spec
CONSTANTS
    None = None
    Publishers = {p1}
    Subscribers = {s1}
    Gateways = {g1, g2}
    Ttl = 1
    Padding = 1
    RequestPeriod = 1
    MaxInFlight = 1
    MaxIdentities = 2
PROPERTY RequestsLastThroughPadding
