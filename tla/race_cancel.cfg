\* Two overlapping requests: a delivered order that gets cancelled.
CONSTANTS
    Users = {u1, u2}
    Cabinets = {c1}
    Orders = {o1, o2}
    OTPs = {p1, p2, p3}
    Requests = {r1, r2}
    Null = Null
    Workload <- OnlineKinds
    DbMayFail = FALSE
SPECIFICATION Spec
PROPERTY OnlyPendingCancelled
