SPECIFICATION FairSpec
CONSTANTS
    lead = lead
    left = left
    right = right
    NoParent = NoParent
    Session = {lead, left, right}
    Client = {c1}
    Profiles <- SomeProfiles
    Inputs <- SomeInputs
    Parent <- LeadAndChildren
    max_queue_size = 2
    replay_buffer_size = 2
    MaxEvents = 4
INVARIANTS
    TypeOK
    StreamsInOrder
    SubscribedGetsEvents
    NoReaderStranded
PROPERTIES
    ResumeMissesNothing
    ReadersEnd
CHECK_DEADLOCK FALSE
