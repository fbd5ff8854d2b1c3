\* Reliable network, web and keypad, one request at a time.
CONSTANTS
    Users = {u1}
    Cabinets = {c1, c2}
    Orders = {o1, o2}
    OTPs = {p1, p2, p3}
    WebSlots = {r1}
    StationSlots = {r1}
    Workload <- OnlineKinds
    NetMayFail = FALSE
    MAX_SYNC_ENTRIES = 2
    MAX_LOG_QUEUE = 1
    MaxPushed = 1
    Null = Null
SPECIFICATION Spec
INVARIANTS CodeFitsDoor NoParcelOfCancelled
SYMMETRY Symmetry
