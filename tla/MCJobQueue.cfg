\* Two workers that run two jobs each, two rows, two keys, of which a command may
\* cancel one.  No symmetry: every job finishes is a liveness property.
SPECIFICATION Spec
CONSTANTS
    k1 = k1  k2 = k2
    Job = {j1, j2}
    Worker = {w1, w2}
    Key <- MCKey
    CommandKey <- MCCommandKey
    MaxAttempts = 2
    Concurrency = 2
INVARIANTS
    TypeOK
    OneLivePerKey
    AtMostOneOwner
    AttemptBudget
PROPERTIES
    ImplementsKeyedQueue
    EveryJobFinishes
\* Rows are not reused: the queue stops when all are finished.
CHECK_DEADLOCK FALSE
