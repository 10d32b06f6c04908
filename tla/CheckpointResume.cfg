SPECIFICATION Spec
CONSTANTS
    Call = {c1, c2}
    Bridged = {c1}
    Resumer = {r1, r2}
    None = None
    MaxRuns = 2
    MaxCrashes = 1
INVARIANTS
    TypeOK
    AnsweredOnce
    PendingUntilAnswer
    ResumingIsHeld
SYMMETRY Symmetry
CONSTRAINT UpToStale
CHECK_DEADLOCK FALSE
