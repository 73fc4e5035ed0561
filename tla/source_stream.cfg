SPECIFICATION Spec
CONSTANTS
    None = None
    Sessions = {s1, s2}
    InboxLimit = 2
    MaxSeq = 5
    MaxChunks = 2
INVARIANTS
    LossNeverOverstated
    LossExact
    OldestDropped
