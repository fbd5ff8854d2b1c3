\* The keypad alone, on a network that fails, with offline pickups.
CONSTANTS
    Users = {u1}
    Cabinets = {c1, c2}
    Orders = {o1, o2}
    OTPs = {p1, p2, p3}
    WebSlots = {web}
    StationSlots = {esp}
    Workload <- OfflineKinds
    NetMayFail = TRUE
    MAX_SYNC_ENTRIES = 2
    MAX_LOG_QUEUE = 1
    MaxPushed = 1
    Null = Null
SPECIFICATION Spec
INVARIANTS CodeFitsDoor KeypadAlive
SYMMETRY Symmetry
