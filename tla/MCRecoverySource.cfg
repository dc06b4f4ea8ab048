\* A hostile source and network: every fault of a write and of a read, stale
\* evidence, the cutoff, crashes, and others who change the subscription.
SPECIFICATION Spec
CONSTANTS
    Worker = {w1}
    NoWorker = NoWorker
    MaxProposals = 1
    MaxPolicy = 1
    PolicyMode <- MCApproval
    MaxDispatches = 2
    Env = {"crash", "lost", "late", "reject", "external", "reverse", "shift", "outage", "slow", "cutoff"}
INVARIANTS
    FailedNeverApplied
PROPERTIES
    ImplementsWriteLedger
\* The work ends when no job, command or deadline is left.
CHECK_DEADLOCK FALSE
