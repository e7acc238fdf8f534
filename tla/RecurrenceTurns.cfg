SPECIFICATION TurnsSpec
CONSTANTS
    repair = repair  sweep = sweep  beat = beat  v1 = v1  v2 = v2
    ServiceOf <- MCServiceOf
    Schedules = {repair}
    Services = {v1}
    Selecting = {repair}
    Repairing = {repair}
    Descending = {repair}
    Interval = 1
    Caps = {0, 1}
    Expiries = {0, 1}
    QueueLimit = 2
    MaxTime = 1
    MaxSeq = 2
    MaxVersion = 2
    MaxEpoch = 2
    MaxEdits = 1
INVARIANTS
    EmittedOnce
    ScanSound
PROPERTIES
    TurnsServed
CHECK_DEADLOCK FALSE
