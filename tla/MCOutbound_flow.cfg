CONSTANTS
    r1 = r1
    r2 = r2
    r3 = r3
    Reqs = {r1, r2, r3}
    Mixes <- Flow
    Numbers <- Addresses
    Workers = {w1}
    Buffers = {b1}
    Arrays = {a1}
    NoReq = NoReq
    Partial = Partial
    NoArray = NoArray
    Bars = 3
    Samples = {0, 101, 128, 150, 254}
    MaxSamples = 5
SPECIFICATION FairSpec
INVARIANTS
    TypeOK
    TaskCarried
PROPERTIES
    RequestEnds
    WorkerReturns
    AllChatsTried
    RefinesService
\* The system stops when every request is answered.
CHECK_DEADLOCK FALSE
