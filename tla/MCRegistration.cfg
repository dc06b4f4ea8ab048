\* A page registers and corrects requests for one subscription; answers are lost,
\* the source, the connection and the requests change under it.
SPECIFICATION Spec
CONSTANTS
    Tab = {t1}
    Call = {c1, c2}
    Preview = {1, 2, 3}
    Request = {1, 2, 3}
    NONE = NONE
    s1 = s1
    a1 = a1
    a2 = a2
    Subscription = {s1}
    Adapter = {a1, a2}
    At <- MCAt
    Snapshot <- MCSnapshots
    TTL = 1
    Cutoff = 1
    MaxNow = 1
    MaxEvents = 1
    Env = {"lost", "source", "retire", "switch", "configure"}
SYMMETRY MCSymmetry
INVARIANTS
    TypeOK
    BoundaryIsPreviewed
    PreviewUsedOnce
    GroupHistory
PROPERTIES
    RegisteredInTime
CHECK_DEADLOCK FALSE
