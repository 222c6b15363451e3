CONSTANTS
    r1 = r1
    r2 = r2
    r3 = r3
    Reqs = {r1, r2}
    Mixes <- Documents
    Numbers <- Phones
    Workers = {w1}
    Buffers = {b1, b2}
    Arrays = {a1, a2}
    NoReq = NoReq
    Partial = Partial
    NoArray = NoArray
    Bars = 1
    Samples = {0}
    MaxSamples = 1
SPECIFICATION Spec
INVARIANTS
    OwnMedia
\* The system stops when every request is answered.
CHECK_DEADLOCK FALSE
