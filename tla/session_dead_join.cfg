SPECIFICATION Spec
CONSTANTS
    None = None
    Epsilon = 2
    MaxRetries = 1
    SamplesRequired = 1
    TempoMin = 2
    TempoMax = 3
    Id = {0, 1, 2, 3}
    Remotes = {0}
    Own = {1, 2, 3}
    FirstNode = 1
    Endpoints = {e1}
    Offsets = {0, 3}
    Clocks = {0}
    Timelines <- PlainTimeline
    StartStops <- PlainStartStop
    Tempos = {2}
    Beats = {0}
    SyncSettings = {FALSE}
    Missing = {}
    Sampling = {0, 2}
    MaxGateways = 1
    MaxOrigin = 0
    MaxStamp = 0
PROPERTIES
    JoinsInhabitedSession
