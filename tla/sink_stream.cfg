SPECIFICATION Spec
CONSTANTS
    Sizings <- BothSizings
    Formats <- MonoStereo
    Scale = 5
    Tempos = {2, 3}
    WriteSizes = {1, 2, 4}
    Jumps <- Jittered
    MaxSamples = 5
CHECK_DEADLOCK FALSE
INVARIANTS
    InOrder
    ChunksOnBeat
    DatagramsFull
PROPERTIES
    NothingDropped
