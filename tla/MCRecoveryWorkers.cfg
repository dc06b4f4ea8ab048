\* Automatic recovery by two workers that lose their leases anywhere and go on
\* regardless, with a competing job for every proposal and jobs that run out of
\* attempts; a person may schedule the cancellation at any moment.
SPECIFICATION Spec
CONSTANTS
    Worker = {w1, w2}
    NoWorker = NoWorker
    MaxProposals = 2
    MaxPolicy = 1
    PolicyMode <- MCAuto
    MaxDispatches = 1
    Env = {"compete", "lapse", "dead", "external"}
INVARIANTS
    TypeOK
    BlockedNeverSent
    OnlyAuthorizedWrites
    OneUnresolvedOperation
PROPERTIES
    ResolvedNeverRedispatched
SYMMETRY MCSymmetry
\* The work ends when no job, command or deadline is left.
CHECK_DEADLOCK FALSE
