\* Agents and the page report, race with one key, retry, and lose their answers.
SPECIFICATION Spec
CONSTANTS
    Credential = {d1}
    PageUser = PageUser
    Key = {1, 2}
    Request = {r1, r2}
    Text = {x1}
    Call = {c1, c2}
    Limit = 2
    MaxEvents = 2
    NONE = NONE
SYMMETRY MCSymmetry
INVARIANTS
    TypeOK
    AnswerIsTheReceipt
    RetryIsAnswered
    TaskHasItsReceipt
CHECK_DEADLOCK FALSE
