\* The gate over small contexts: cutoff at 2 before the period end 5, evidence
\* good for 1, proposals that expire at 1 or 3.
SPECIFICATION Spec
CONSTANTS
    RecoveryCutoff = 1
    PrecheckMaxAge = 1
    MaxNow = 5
    Start <- MCContexts
    PeriodEnd = 5
INVARIANTS
    DispatchGateIsExact
    AuthorizedWouldDispatch
PROPERTY WaitingNeverAllows
\* The context is only followed up to MaxNow.
CHECK_DEADLOCK FALSE
