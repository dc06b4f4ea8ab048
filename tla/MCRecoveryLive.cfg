\* Every dispatch is settled and every authorization used or ended, with one crash.
SPECIFICATION LiveSpec
CONSTANTS
    Worker = {w1, w2}
    NoWorker = NoWorker
    MaxProposals = 1
    MaxPolicy = 1
    PolicyMode <- MCApproval
    MaxDispatches = 2
    Env = {"crash", "lost", "late", "reject", "external"}
    MaxCrashes = 1
PROPERTIES
    DispatchIsSettled
    AuthorizationIsUsed
\* The work ends when no job, command or deadline is left.
CHECK_DEADLOCK FALSE
