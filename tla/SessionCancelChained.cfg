SPECIFICATION Spec
CONSTANTS
    Msg = {m1, m2, m3}
    None = None
    NativeAgent = TRUE
    Events <- QueueAndCancel
INVARIANT
    BusyRunIsDriven
CHECK_DEADLOCK FALSE
