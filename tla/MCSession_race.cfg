CONSTANTS
    Ids = {i1, i2}
    Clients = {c1, c2}
    Jids = {j1}
    Reqs = {r1, r2}
    Ops = {"connect", "logout"}
    MaxCodes = 1
    MaxCrashes = 1
    NoClient = NoClient
    NoJid = NoJid
    NoId = NoId
    Absent = Absent
SPECIFICATION Spec
SYMMETRY Symmetry
INVARIANTS
    TypeOK
    ObserverExclusive
    QrHasObserver
    HandlerGap
    AccountIsolation
    DeviceStoreAgrees
PROPERTIES
    RestartKeepsClaimed
    RefinesAccounts
\* The system stops when the bounds on objects and identities are used up.
CHECK_DEADLOCK FALSE
