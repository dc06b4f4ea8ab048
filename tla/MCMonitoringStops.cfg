\* One worker, nothing but time: a scheduled cancellation is read once more and
\* then never again.
SPECIFICATION Spec
CONSTANTS
    EvidenceMaxAge = 4
    FinalizationGrace = 1
    MonitorInterval = 1
    BoundaryDelay = 1
    FirstRetryDelay = 1
    ClockSkew = 0
    FinalizationMargin = 1
    Worker = {w1}
    PeriodEnd <- MCPeriodEnd
    RetryDelays <- MCRetryDelays
    Subscription <- MCScheduled
    ReadError = {}
    MaxNow = 4
    MaxEvents = 0
    Env = {}
INVARIANTS
    AwaitedCheckIsQueued
\* The work ends when no job or tick is left.
CHECK_DEADLOCK FALSE
