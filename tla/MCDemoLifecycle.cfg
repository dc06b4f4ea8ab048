\* Two demos are created, reset and purged beside two workers.
SPECIFICATION Spec
CONSTANTS
    Demo = {d1, d2}
    Number = {1, 2}
    Starter = {1}
    Call = {c1}
    Worker = {w1, w2}
    MaxDispatches = 2
    PurgeLimit = 2
    MaxSeeds = 2
    MaxEvents = 2
    NONE = NONE
INVARIANTS
    TypeOK
PROPERTIES
    UnresolvedIsKept
    DuePurged
CHECK_DEADLOCK FALSE
