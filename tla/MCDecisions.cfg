SPECIFICATION Spec
CONSTANTS
    c1 = c1
    c2 = c2
    c3 = c3
    NONE = NONE
    Proposal <- MCProposal
    Call <- MCCall
    MaxCalls = 3
SYMMETRY MCSymmetry
INVARIANTS
    TypeOK
    ApprovalIsCurrent
