SPECIFICATION Spec
CONSTANTS
    e1 = e1
    e2 = e2
    NoEvent = NoEvent
    Events <- TwoEvents
    Partition <- OnePartition
    BatchSize = 2
    MaxAttempts = 2
    MaxReplays = 0
    Faults = {}
PROPERTY RefusedIsDead
\* The dispatcher idles when no row is due and no administrator acts.
CHECK_DEADLOCK FALSE
