\* Pickups on the web; reliable network, with fairness.
CONSTANTS
    Users = {u1}
    Cabinets = {c1}
    Orders = {o1, o2}
    OTPs = {p1, p2, p3}
    WebSlots = {web}
    StationSlots = {esp}
    Workload <- WebKinds
    NetMayFail = FALSE
    MAX_SYNC_ENTRIES = 2
    MAX_LOG_QUEUE = 1
    MaxPushed = 1
    Null = Null
SPECIFICATION FairSpec
PROPERTY CompletedIsTakenOut
