SPECIFICATION Spec
SYMMETRY Alike
CONSTANTS
    Unit = 4
    Peers = {p1, p2}
    Tempos = {2, 5}
    Quanta = {0, 3, 4}
    AppBeats <- SomeBeats
    MaxNow = 4
    MaxOrigin = 3
INVARIANTS
    DirectionsCompose
    SessionBeatsAgree
PROPERTIES
    TempoTurnsAtOrigin
    ResetContinues
CHECK_DEADLOCK FALSE
