SPECIFICATION Spec
CONSTANTS
    None = None
    Id = {1, 2, 3}
    Epsilon = 3
    MaxRetries = 1
    SamplesRequired = 1
    TempoMin = 2
    TempoMax = 3
    Ghosts <- Ages
    Links <- Chain
    Musicians = {3}
    Tempos = {3}
    MaxChanges = 2
INVARIANT OneClockPerSession
PROPERTY EverybodyAgrees
