SPECIFICATION Spec
CONSTANTS
    Call = {c1}
    Bridged = {c1}
    Resumer = {r1}
    None = None
    MaxRuns = 1
    MaxCrashes = 0
INVARIANT FailedResumeIsUndone
CONSTRAINT UpToStale
CHECK_DEADLOCK FALSE
