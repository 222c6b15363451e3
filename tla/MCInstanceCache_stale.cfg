CONSTANTS
    Readers = {r1, r2}
    Writers = {w1}
    MaxVersion = 2
    MaxTimers = 2
SPECIFICATION Spec
INVARIANTS
    AppliedAtOnce
