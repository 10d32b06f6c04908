SPECIFICATION Spec
CONSTANTS
    Call = {c1}
    Bridged = {}
    Resumer = {r1}
    None = None
    MaxRuns = 1
    MaxCrashes = 1
INVARIANT NoCallForgotten
CONSTRAINT UpToStale
CHECK_DEADLOCK FALSE
