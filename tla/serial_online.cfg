\* One request at a time, no offline pickups, failing database calls.
\* Deadlock: once all order ids are used and closed nothing is left to ask.
CONSTANTS
    Users = {u1, u2}
    Cabinets = {c1, c2}
    Orders = {o1, o2, o3}
    OTPs = {p1, p2, p3, p4}
    Requests = {r1}
    Null = Null
    Workload <- OnlineKinds
    DbMayFail = TRUE
SPECIFICATION Spec
SYMMETRY Symmetry
INVARIANTS ReservedForOwner
PROPERTY RefinesBooking
CHECK_DEADLOCK FALSE
