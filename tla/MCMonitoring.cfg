\* Two workers check one task around its period end, while the source changes,
\* owners and agents ask for checks, leases lapse and a worker may die.
SPECIFICATION Spec
CONSTANTS
    EvidenceMaxAge = 1
    FinalizationGrace = 1
    MonitorInterval = 2
    BoundaryDelay = 1
    FirstRetryDelay = 1
    ClockSkew = 0
    FinalizationMargin = 1
    Worker = {w1, w2}
    PeriodEnd <- MCPeriodEnd
    RetryDelays <- MCRetryDelays
    Subscription <- MCSubscriptions
    ReadError = {"SOURCE_TIMEOUT"}
    MaxNow = 4
    MaxEvents = 2
    Env = {"source", "recheck", "claim", "retire", "crash", "lapse"}
SYMMETRY MCSymmetry
INVARIANTS
    TypeOK
    CandidateIsExact
    ComparisonExplains
    EndedOnTimeIsTrue
PROPERTIES
    EvidenceNeverGoesBack
    EndedOnTimeIsFinal
\* The work ends when no job, event or tick is left.
CHECK_DEADLOCK FALSE
