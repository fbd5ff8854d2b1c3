\* One request at a time, all kinds, failing database calls.
CONSTANTS
    Users = {u1, u2}
    Cabinets = {c1, c2}
    Orders = {o1, o2, o3}
    OTPs = {p1, p2, p3, p4}
    Requests = {r1}
    Null = Null
    Workload <- AllKinds
    DbMayFail = TRUE
SPECIFICATION Spec
SYMMETRY Symmetry
INVARIANTS TypeOK OtpUnique ActiveHasCode
PROPERTY Lifecycle
