SPECIFICATION Spec
CONSTANTS
    Surfaces = {s1, s2, s3}
    Choices = {once, always}
    Remember = {always}
    ApproveOnce = once
    Reasons = {expired, noChannel}
    None = None
INVARIANTS
    TypeOK
    OutcomeIsTheWinner
    FinalizerAtMostOnce
    VisibleGrantIsPersisted
    IInv
PROPERTIES
    SubmissionDecides
    ImplementsFirstTerminal
CHECK_DEADLOCK FALSE
