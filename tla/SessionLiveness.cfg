SPECIFICATION FairSpec
CONSTANTS
    Msg = {m1, m2, m3}
    None = None
    NativeAgent = FALSE
    Events <- CreatingCalls
PROPERTIES
    QueuedPromptsRun
    RunsEnd
    
CHECK_DEADLOCK FALSE
