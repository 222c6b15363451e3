CONSTANTS
    Ids = {i1}
    Clients = {c1}
    Jids = {j1}
    Reqs = {r1}
    Ops = {"pair"}
    MaxCodes = 1
    MaxCrashes = 0
    NoClient = NoClient
    NoJid = NoJid
    NoId = NoId
    Absent = Absent
SPECIFICATION Spec
INVARIANTS
    LoggedInIsRecorded
\* The system stops when the bounds on objects and identities are used up.
CHECK_DEADLOCK FALSE
