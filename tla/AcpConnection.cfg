SPECIFICATION FairSpec
CONSTANTS
    Call = {c1, c2}
    Incoming = {n1}
    None = None
    End = End
INVARIANTS
    TypeOK
    OwnAnswer
    WaitersRegistered
    RepliesMatchRecords
    OrderlyClose
PROPERTIES
    CloseEnds
    QueuedAnswersAreWritten
CHECK_DEADLOCK FALSE
