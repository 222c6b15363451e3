CONSTANTS
    Ids = {i1}
    MaxEvents = 2
    Events <- Messages
    Configs <- Eager
    GlobalUrl = FALSE
    SemaphoreSize = 2
    BufferSize = 2
    MaxOpen = 4
    Faults = {"post"}
SPECIFICATION FairSpec
PROPERTIES
    MessagesArePosted
\* The system stops when the events are used up or the emitter is gone.
CHECK_DEADLOCK FALSE
