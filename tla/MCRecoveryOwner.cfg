\* Every command of the owner at every point of a recovery, with a proposal that
\* expires, a refused credential and monitoring.
SPECIFICATION Spec
CONSTANTS
    Worker = {w1}
    NoWorker = NoWorker
    MaxProposals = 2
    MaxPolicy = 2
    PolicyMode <- MCBoth
    MaxDispatches = 1
    Env = {"pause", "policy", "withdraw", "move", "retire", "expiry", "denied", "refuse", "recheck", "monitor"}
INVARIANTS
    OneLiveProposal
PROPERTIES
    WithdrawnAuthorityStopsWrites
\* The work ends when no job, command or deadline is left.
CHECK_DEADLOCK FALSE
