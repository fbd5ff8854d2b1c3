--------------------------- MODULE CabinetBooking ---------------------------
(***************************************************************************)
(* What the locker service promises about one compartment (Cabinet):  it   *)
(* is empty, or booked for one user and waiting for the parcel, or holding *)
(* that user's parcel, and it is booked again only after it became empty.  *)
(* This is the abstract specification of server/index.js; LockerServer is  *)
(* the detailed one.                                                       *)
(***************************************************************************)
CONSTANTS Cabinets, Users, Null

VARIABLE box   \* box[c]: what compartment c is used for

Empty == [state |-> "empty", user |-> Null]

Booked(u)  == [state |-> "pending", user |-> u]

Holding(u) == [state |-> "delivered", user |-> u]

Init == box = [c \in Cabinets |-> Empty]

\* An order of user u takes the empty compartment c.
Book(c, u) == box[c] = Empty /\ box' = [box EXCEPT ![c] = Booked(u)]

\* The shipper puts the parcel in.
Deliver(c, u) == box[c] = Booked(u) /\ box' = [box EXCEPT ![c] = Holding(u)]

\* The owner takes the parcel out, or gives up an order not delivered yet.
Release(c) == box[c] # Empty /\ box' = [box EXCEPT ![c] = Empty]

Next == \E c \in Cabinets : \/ Release(c)
                            \/ \E u \in Users : Book(c, u) \/ Deliver(c, u)

Spec == Init /\ [][Next]_box
=============================================================================
