CONSTANTS
    Ids = {i1}
    Procs = {p1, p2}
    Values = {v1}
    DefaultRead = v1
    MaxSeen = 2
    Unset = Unset
    NoId = NoId
    Absent = Absent
SPECIFICATION Spec
PROPERTIES
    WebhookKeepsOthers
