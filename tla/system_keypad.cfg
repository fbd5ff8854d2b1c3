\* Reliable network; web creations overlap with the keypad.  No symmetry:
\* liveness is checked.
CONSTANTS
    Users = {u1}
    Cabinets = {c1, c2}
    Orders = {o1, o2}
    OTPs = {p1, p2, p3}
    WebSlots = {web}
    StationSlots = {esp}
    Workload <- KeypadKinds
    NetMayFail = FALSE
    MAX_SYNC_ENTRIES = 2
    MAX_LOG_QUEUE = 1
    MaxPushed = 1
    Null = Null
SPECIFICATION FairSpec
INVARIANTS TypeOK OwnParcelOnly EmptyForCourier
PROPERTIES DeliveredIsPutIn CompletedIsTakenOut
