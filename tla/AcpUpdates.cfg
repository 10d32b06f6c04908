SPECIFICATION FairSpec
CONSTANTS
    MaxUpdates = 2
    MaxRequests = 2
INVARIANTS
    TypeOK
    LoadIsComplete
    TurnsAreSeparate
    AgentOrder
PROPERTIES
    AnsweredRequestsEnd
CHECK_DEADLOCK FALSE
