CONSTANTS
    Readers = {r1, r2}
    Writers = {w1, w2}
    MaxVersion = 3
    MaxTimers = 2
SPECIFICATION FairSpec
INVARIANTS
    TypeOK
    EntryWillExpire
PROPERTIES
    CacheSettles
    StaleDiesOut
