SPECIFICATION Spec
CONSTANTS
    Msg = {m1, m2, m3}
    None = None
    NativeAgent = FALSE
    Events <- QueueAndSteer
INVARIANT
    TakenSteersReachAgent
CHECK_DEADLOCK FALSE
