CONSTANTS
    Ids = {i1}
    MaxEvents = 2
    Events <- Variety
    Configs <- Mixed
    GlobalUrl = TRUE
    SemaphoreSize = 1
    BufferSize = 1
    MaxOpen = 1
    Faults = {"lookup", "client", "post"}
SPECIFICATION FairSpec
INVARIANTS
    TypeOK
    AtMostOnce
PROPERTIES
    WantedIsDelivered
    ReadFollows
    RefinesFeed
\* The system stops when the events are used up or the emitter is gone.
CHECK_DEADLOCK FALSE
