CONSTANTS
    Ids = {i1}
    Clients = {c1}
    Jids = {j1, j2}
    Reqs = {r1, r2}
    Ops = {"create", "connect", "pair", "logout", "delete"}
    MaxCodes = 1
    MaxCrashes = 0
    NoClient = NoClient
    NoJid = NoJid
    NoId = NoId
    Absent = Absent
SPECIFICATION FairSpec
PROPERTIES
    QrCleared
    ObserverEnds
\* The system stops when the bounds on objects and identities are used up.
CHECK_DEADLOCK FALSE
