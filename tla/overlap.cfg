\* Two overlapping requests for one compartment, no offline pickups, no failing
\* database calls; fairness of the handlers, so no symmetry.
\* Deadlock: once all order ids are used and closed nothing is left to ask.
CONSTANTS
    Users = {u1}
    Cabinets = {c1}
    Orders = {o1, o2}
    OTPs = {p1, p2, p3}
    Requests = {r1, r2}
    Null = Null
    Workload <- OnlineKinds
    DbMayFail = FALSE
SPECIFICATION FairSpec
INVARIANT NoLeakedReservation
PROPERTIES RequestsFinish ReservationSettles
CHECK_DEADLOCK FALSE
