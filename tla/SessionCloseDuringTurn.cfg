SPECIFICATION Spec
CONSTANTS
    Msg = {m1, m2, m3}
    None = None
    NativeAgent = TRUE
    Events <- QueueAndClose
INVARIANT
    AgentExitAwaitsTurn
CHECK_DEADLOCK FALSE
