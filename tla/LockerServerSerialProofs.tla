---------------------- MODULE LockerServerSerialProofs ----------------------
(***************************************************************************)
(* Theorems about LockerServer when it serves one request at a time: codes *)
(* and life cycle of the orders, whatever database calls fail and whatever *)
(* the station reports; and, without those reports, that compartments      *)
(* belong to the users of their orders and that the server implements      *)
(* CabinetBooking.  With overlapping requests none of these hold.          *)
(***************************************************************************)
EXTENDS LockerServerProofs

OneAtATime == \A r, s \in Requests : r = s

Unused(code) == \A o \in Orders : Active(o) => orders[o].code # code

\* What the request in progress knows about its order.
Knows(q) ==
    /\ q.step \in CreateSteps =>
          orders[q.order].status = "none" /\ Unused(q.drawn)
    /\ q.step \in {"newCode", "deliver"} =>
          /\ orders[q.order].status = "pending"
          /\ orders[q.order].code = q.seen
    /\ q.step = "deliver" => Unused(q.drawn)
    /\ q.step = "findOrder" => q.kind = "sync"
    /\ q.step = "close" =>
          /\ orders[q.order].status = IF q.kind = "cancel" THEN "pending"
                                                           ELSE "delivered"
          /\ orders[q.order].code = q.seen

Knowing == \A r \in Requests : Knows(reqs[r])

CodesInv == OtpUnique /\ ActiveHasCode /\ Knowing

-----------------------------------------------------------------------------
(* Codes *)

\* The request in progress is the only one.
LEMMA OnlyRequest ==
    ASSUME OneAtATime, TypeOK, NEW r \in Requests, NEW q,
           reqs' = [reqs EXCEPT ![r] = q]
    PROVE  \A s \in Requests : reqs'[s] = q
  BY DEF OneAtATime, TypeOK

\* A step that leaves the orders alone.
LEMMA KeepOrders ==
    ASSUME OneAtATime, TypeOK, CodesInv, NEW r \in Requests, NEW q, Knows(q),
           reqs' = [reqs EXCEPT ![r] = q], UNCHANGED orders
    PROVE  CodesInv'
<1>1. Knows(q)'
  BY DEF Knows, Unused, Active
<1>2. Knowing'
  BY <1>1, OnlyRequest DEF Knowing
<1> QED
  BY <1>2 DEF CodesInv, OtpUnique, ActiveHasCode, Active

LEMMA IdleKnows == Knows(Idle) /\ Knows(Idle)'
  BY DEF Idle, Knows, CreateSteps

\* A step that ends the request and stores one document: a closed order without
\* code, or an open one with a code that no other open order has.
LEMMA StoreOrder ==
    ASSUME TypeOK, OtpUnique, ActiveHasCode, NEW o \in Orders, NEW doc,
           orders' = [orders EXCEPT ![o] = doc],
           \/ doc.status \notin {"pending", "delivered"} /\ doc.code = Null
           \/ /\ doc.status \in {"pending", "delivered"}
              /\ doc.code # Null
              /\ \A p \in Orders \ {o} : Active(p) => orders[p].code # doc.code
    PROVE  OtpUnique' /\ ActiveHasCode'
<1>1. orders'[o] = doc /\ \A p \in Orders \ {o} : orders'[p] = orders[p]
  BY DEF TypeOK
<1>2. ActiveHasCode'
  BY <1>1 DEF ActiveHasCode, Active
<1>3. OtpUnique'
  BY <1>1 DEF OtpUnique, Active
<1> QED
  BY <1>2, <1>3

LEMMA ArrivalCodes ==
    ASSUME OneAtATime, TypeOK, CodesInv, NEW r \in Requests, Arrival(r)
    PROVE  CodesInv'
<1>1. ASSUME NEW u \in Users, CreateOrder(r, u)
      PROVE  CodesInv'
  <2>1. PICK otp \in GenerateUniqueOTP, o \in FreshIds :
          Begin(r, "create", [Idle EXCEPT !.step = "findCabinet", !.user = u,
                                          !.order = o, !.drawn = otp])
    BY <1>1 DEF CreateOrder
  <2>2. PICK q : q = [Idle EXCEPT !.step = "findCabinet", !.user = u,
                                  !.order = o, !.drawn = otp, !.kind = "create"]
    OBVIOUS
  <2>3. Knows(q)
    BY <2>2 DEF Idle, Knows, CreateSteps, FreshIds, GenerateUniqueOTP, Unused
  <2>4. reqs' = [reqs EXCEPT ![r] = q] /\ UNCHANGED orders
    BY <2>1, <2>2 DEF Begin, Idle
  <2> QED
    BY <2>3, <2>4, KeepOrders
<1>2. ASSUME NEW code \in OTPs, VerifyDelivery(r, code)
      PROVE  CodesInv'
  <2>1. PICK o \in Orders :
          /\ orders[o].code = code /\ orders[o].status = "pending"
          /\ Begin(r, "deliver", [Idle EXCEPT !.step = "newCode", !.order = o,
                                              !.seen = code])
    BY <1>2 DEF VerifyDelivery
  <2>2. PICK q : q = [Idle EXCEPT !.step = "newCode", !.order = o,
                                  !.seen = code, !.kind = "deliver"]
    OBVIOUS
  <2>3. Knows(q)
    BY <2>1, <2>2 DEF Idle, Knows, CreateSteps
  <2>4. reqs' = [reqs EXCEPT ![r] = q] /\ UNCHANGED orders
    BY <2>1, <2>2 DEF Begin, Idle
  <2> QED
    BY <2>3, <2>4, KeepOrders
<1>3. ASSUME NEW o \in Orders, NEW k, Begin(r, k, Loaded(o)),
             orders[o].status = IF k = "cancel" THEN "pending" ELSE "delivered"
      PROVE  CodesInv'
  <2>1. PICK q : q = [Loaded(o) EXCEPT !.kind = k]
    OBVIOUS
  <2>2. Knows(q)
    BY <1>3, <2>1 DEF Loaded, Idle, Knows, CreateSteps
  <2>3. reqs' = [reqs EXCEPT ![r] = q] /\ UNCHANGED orders
    BY <1>3, <2>1 DEF Begin
  <2> QED
    BY <2>2, <2>3, KeepOrders
<1>4. ASSUME NEW c \in Cabinets, SyncFromEsp(r, c)
      PROVE  CodesInv'
  <2>1. PICK q : q = [Idle EXCEPT !.step = "free", !.cab = c,
                                  !.holder = cabinets[c], !.kind = "sync"]
    OBVIOUS
  <2>2. Knows(q)
    BY <2>1 DEF Idle, Knows, CreateSteps
  <2>3. reqs' = [reqs EXCEPT ![r] = q] /\ UNCHANGED orders
    BY <1>4, <2>1 DEF SyncFromEsp, Begin, Idle
  <2> QED
    BY <2>2, <2>3, KeepOrders
<1>5. ASSUME NEW code \in OTPs, VerifyPickup(r, code)
      PROVE  CodesInv'
  BY <1>3, <1>5 DEF VerifyPickup
<1>6. ASSUME NEW o \in Orders, Pickup(r, o) \/ CancelOrder(r, o)
      PROVE  CodesInv'
  BY <1>3, <1>6 DEF Pickup, CancelOrder
<1> QED
  BY <1>1, <1>2, <1>4, <1>5, <1>6 DEF Arrival

\* The steps of handlers that only read or write cabinets.
LEMMA OtherCodes ==
    ASSUME OneAtATime, TypeOK, CodesInv, NEW r \in Requests,
           \/ FindCabinet(r) \/ Reserve(r) \/ LoadCabinet(r) \/ FreeCabinet(r)
           \/ FindDelivered(r) \/ DrawPickupCode(r) \/ DbFailure(r)
    PROVE  CodesInv'
<1> USE RequestType DEF ReqStates
<1>k. Knows(reqs[r])
  BY DEF CodesInv, Knowing
<1>1. CASE Respond(r) /\ UNCHANGED orders
  BY <1>1, IdleKnows, KeepOrders DEF Respond
<1>2. ASSUME NEW c, reqs' = [reqs EXCEPT ![r].step = "reserve", ![r].cab = c],
             At(r, "findCabinet"), UNCHANGED orders
      PROVE  CodesInv'
  <2>1. PICK q : q = [reqs[r] EXCEPT !.step = "reserve", !.cab = c]
    OBVIOUS
  <2>2. reqs' = [reqs EXCEPT ![r] = q]
    BY <1>2, <2>1 DEF TypeOK
  <2>3. Knows(q)
    BY <1>2, <2>1, <1>k DEF Knows, CreateSteps, At
  <2> QED
    BY <1>2, <2>2, <2>3, KeepOrders
<1>3. CASE Reserve(r)
  <2>1. PICK q : q = [reqs[r] EXCEPT !.step = "insert"]
    OBVIOUS
  <2>2. reqs' = [reqs EXCEPT ![r] = q]
    BY <1>3, <2>1 DEF TypeOK, Reserve, Goto
  <2>3. Knows(q)
    BY <1>3, <2>1, <1>k DEF Knows, CreateSteps, At, Reserve
  <2> QED
    BY <1>3, <2>2, <2>3, KeepOrders DEF Reserve
<1>4. CASE LoadCabinet(r)
  <2>1. PICK q : q = [reqs[r] EXCEPT !.step = "free",
                                     !.holder = cabinets[reqs[r].cab]]
    OBVIOUS
  <2>2. reqs' = [reqs EXCEPT ![r] = q]
    BY <1>4, <2>1 DEF TypeOK, LoadCabinet
  <2>3. Knows(q)
    BY <2>1 DEF Knows, CreateSteps
  <2> QED
    BY <1>4, <2>2, <2>3, KeepOrders DEF LoadCabinet
<1>5. CASE FreeCabinet(r) /\ Goto(r, "findOrder")
  <2>1. PICK q : q = [reqs[r] EXCEPT !.step = "findOrder"]
    OBVIOUS
  <2>2. reqs' = [reqs EXCEPT ![r] = q]
    BY <1>5, <2>1 DEF TypeOK, Goto
  <2>3. Knows(q)
    BY <1>5, <2>1 DEF Knows, CreateSteps, FreeCabinet, Goto, Respond, Idle, At, TypeOK
  <2> QED
    BY <1>5, <2>2, <2>3, KeepOrders DEF FreeCabinet
<1>6. ASSUME FindDelivered(r), NEW o \in Orders, orders[o].status = "delivered",
             reqs' = [reqs EXCEPT ![r].step = "close", ![r].order = o,
                                  ![r].seen = orders[o].code]
      PROVE  CodesInv'
  <2>1. PICK q : q = [reqs[r] EXCEPT !.step = "close", !.order = o,
                                     !.seen = orders[o].code]
    OBVIOUS
  <2>2. reqs' = [reqs EXCEPT ![r] = q]
    BY <1>6, <2>1 DEF TypeOK
  <2>3. reqs[r].kind = "sync"
    BY <1>6, <1>k DEF Knows, FindDelivered, At
  <2>4. Knows(q)
    BY <1>6, <2>1, <2>3 DEF Knows, CreateSteps
  <2> QED
    BY <1>6, <2>2, <2>4, KeepOrders DEF FindDelivered
<1>7. CASE DrawPickupCode(r)
  <2>1. PICK otp \in GenerateUniqueOTP :
          reqs' = [reqs EXCEPT ![r].step = "deliver", ![r].drawn = otp]
    BY <1>7 DEF DrawPickupCode
  <2>2. PICK q : q = [reqs[r] EXCEPT !.step = "deliver", !.drawn = otp]
    OBVIOUS
  <2>3. reqs' = [reqs EXCEPT ![r] = q]
    BY <2>1, <2>2 DEF TypeOK
  <2>4. Knows(q)
    BY <1>7, <2>1, <2>2, <1>k
       DEF Knows, CreateSteps, At, DrawPickupCode, GenerateUniqueOTP, Unused
  <2> QED
    BY <1>7, <2>3, <2>4, KeepOrders DEF DrawPickupCode
<1>8. CASE FindCabinet(r)
  BY <1>1, <1>2, <1>8 DEF FindCabinet
<1>9. CASE FreeCabinet(r)
  BY <1>1, <1>5, <1>9 DEF FreeCabinet
<1>10. CASE FindDelivered(r)
  BY <1>1, <1>6, <1>10 DEF FindDelivered
<1>11. CASE DbFailure(r)
  BY <1>1, <1>11 DEF DbFailure
<1> QED
  BY <1>3, <1>4, <1>7, <1>8, <1>9, <1>10, <1>11

\* A step that ends the request and stores one document.
LEMMA StoreAndRespond ==
    ASSUME OneAtATime, TypeOK, CodesInv, NEW r \in Requests, Respond(r),
           OtpUnique', ActiveHasCode'
    PROVE  CodesInv'
  BY OnlyRequest, IdleKnows DEF Respond, Knowing, CodesInv

\* What the three saves of an order store.
LEMMA InsertedOrder ==
    ASSUME TypeOK, CodesInv, NEW r \in Requests, InsertOrder(r)
    PROVE  \E doc :
             /\ orders' = [orders EXCEPT ![reqs[r].order] = doc]
             /\ doc = [user |-> reqs[r].user, cab |-> reqs[r].cab,
                       status |-> "pending", code |-> reqs[r].drawn,
                       expired |-> FALSE]
             /\ reqs[r].order \in Orders /\ reqs[r].drawn \in OTPs
             /\ orders[reqs[r].order].status = "none"
             /\ Unused(reqs[r].drawn)
  BY RequestType
     DEF CodesInv, Knowing, Knows, CreateSteps, InsertOrder, At, Supplied, OrderSteps

LEMMA DeliveredOrder ==
    ASSUME TypeOK, CodesInv, NEW r \in Requests, SaveDelivery(r)
    PROVE  \E doc :
             /\ orders' = [orders EXCEPT ![reqs[r].order] = doc]
             /\ doc = [orders[reqs[r].order] EXCEPT !.status = "delivered",
                          !.code = reqs[r].drawn, !.expired = FALSE]
             /\ reqs[r].order \in Orders /\ reqs[r].drawn \in OTPs
             /\ orders[reqs[r].order].status = "pending"
             /\ Unused(reqs[r].drawn)
<1>1. /\ reqs[r].order \in Orders /\ reqs[r].drawn \in OTPs
      /\ orders[reqs[r].order].status = "pending"
      /\ orders[reqs[r].order].code = reqs[r].seen
      /\ Unused(reqs[r].drawn)
  BY RequestType
     DEF CodesInv, Knowing, Knows, SaveDelivery, At, Supplied, OrderSteps
<1>2. Dirty(orders[reqs[r].order].code, reqs[r].seen, reqs[r].drawn) = reqs[r].drawn
  BY <1>1 DEF Dirty
<1> QED
  BY <1>1, <1>2 DEF SaveDelivery

LEMMA ClosedOrder ==
    ASSUME TypeOK, CodesInv, NEW r \in Requests, CloseOrder(r)
    PROVE  \E doc :
             /\ orders' = [orders EXCEPT ![reqs[r].order] = doc]
             /\ doc = [orders[reqs[r].order] EXCEPT !.status = Final(r),
                                                    !.code = Null]
             /\ reqs[r].order \in Orders
             /\ <<orders[reqs[r].order].status, doc.status>> \in Transitions
             /\ doc.status \in {"cancelled", "completed"}
             /\ Active(reqs[r].order)
<1> DEFINE o == reqs[r].order
<1>1. /\ o \in Orders
      /\ orders[o].status = IF reqs[r].kind = "cancel" THEN "pending"
                                                       ELSE "delivered"
      /\ orders[o].code = reqs[r].seen
  BY RequestType DEF CodesInv, Knowing, Knows, CloseOrder, At, Supplied, OrderSteps
<1>2. PICK doc : doc = [orders[o] EXCEPT !.status = Final(r), !.code = Null]
  OBVIOUS
<1>3. doc.status = Final(r)
  BY <1>1, <1>2 DEF TypeOK, OrderDocs
<1>4. orders' = [orders EXCEPT ![o] = doc]
  BY <1>1, <1>2 DEF CloseOrder, Dirty
<1> QED
  BY <1>1, <1>2, <1>3, <1>4 DEF Final, Transitions, Active

LEMMA SavesCodes ==
    ASSUME OneAtATime, TypeOK, CodesInv, NEW r \in Requests,
           InsertOrder(r) \/ SaveDelivery(r) \/ CloseOrder(r)
    PROVE  CodesInv'
<1> USE ServerAssumption
<1>1. CASE InsertOrder(r)
  <2>1. OtpUnique' /\ ActiveHasCode'
    BY <1>1, InsertedOrder, StoreOrder DEF CodesInv, Unused
  <2> QED
    BY <1>1, <2>1, StoreAndRespond DEF InsertOrder
<1>2. CASE SaveDelivery(r)
  <2>1. PICK doc :
             /\ orders' = [orders EXCEPT ![reqs[r].order] = doc]
             /\ doc = [orders[reqs[r].order] EXCEPT !.status = "delivered",
                          !.code = reqs[r].drawn, !.expired = FALSE]
             /\ reqs[r].order \in Orders /\ reqs[r].drawn \in OTPs
             /\ Unused(reqs[r].drawn)
    BY <1>2, DeliveredOrder
  <2>2. doc.status = "delivered" /\ doc.code = reqs[r].drawn
    BY <2>1 DEF TypeOK, OrderDocs
  <2>3. OtpUnique' /\ ActiveHasCode'
    BY <2>1, <2>2, StoreOrder DEF CodesInv, Unused
  <2> QED
    BY <1>2, <2>3, StoreAndRespond DEF SaveDelivery
<1>3. CASE CloseOrder(r)
  <2>1. PICK doc :
             /\ orders' = [orders EXCEPT ![reqs[r].order] = doc]
             /\ doc = [orders[reqs[r].order] EXCEPT !.status = Final(r),
                                                    !.code = Null]
             /\ reqs[r].order \in Orders
             /\ doc.status \in {"cancelled", "completed"}
    BY <1>3, ClosedOrder
  <2>2. doc.code = Null
    BY <2>1 DEF TypeOK, OrderDocs
  <2>3. OtpUnique' /\ ActiveHasCode'
    BY <2>1, <2>2, StoreOrder DEF CodesInv
  <2>4. CASE Respond(r)
    BY <2>3, <2>4, StoreAndRespond
  <2>5. CASE reqs' = [reqs EXCEPT ![r].step = "loadCabinet",
                                  ![r].cab = orders[reqs[r].order].cab]
    <3>1. PICK q : q = [reqs[r] EXCEPT !.step = "loadCabinet",
                                       !.cab = orders[reqs[r].order].cab]
      OBVIOUS
    <3>2. reqs' = [reqs EXCEPT ![r] = q] /\ q.step = "loadCabinet"
      BY <2>5, <3>1, RequestType DEF TypeOK, ReqStates
    <3>3. Knows(q)'
      BY <3>2 DEF Knows, CreateSteps
    <3> QED
      BY <2>3, <3>2, <3>3, OnlyRequest DEF CodesInv, Knowing
  <2> QED
    BY <1>3, <2>4, <2>5 DEF CloseOrder
<1> QED
  BY <1>1, <1>2, <1>3

LEMMA ExpireCodes ==
    ASSUME TypeOK, CodesInv, NEW o \in Orders, Expire(o)
    PROVE  CodesInv'
<1>1. /\ orders' \in [Orders -> OrderDocs]
      /\ \A p \in Orders : /\ orders'[p].status = orders[p].status
                           /\ orders'[p].code = orders[p].code
  BY DEF TypeOK, OrderDocs, Expire
<1>2. \A p \in Orders : Active(p)' <=> Active(p)
  BY <1>1 DEF Active
<1>3. OtpUnique' /\ ActiveHasCode'
  BY <1>1, <1>2 DEF CodesInv, OtpUnique, ActiveHasCode
<1>4. ASSUME NEW s \in Requests
      PROVE  Knows(reqs[s])'
  <2>1. Knows(reqs[s]) /\ Supplied(reqs[s]) /\ UNCHANGED reqs
    BY DEF CodesInv, Knowing, TypeOK, Expire
  <2>2. \A code : Unused(code) => Unused(code)'
    BY <1>1, <1>2 DEF Unused
  <2> QED
    BY <1>1, <2>1, <2>2 DEF Knows, Supplied, OrderSteps, CreateSteps
<1> QED
  BY <1>3, <1>4 DEF CodesInv, Knowing
LEMMA InitCodes == Init => CodesInv
<1> SUFFICES ASSUME Init PROVE CodesInv
  OBVIOUS
<1>1. OtpUnique /\ ActiveHasCode
  BY DEF Init, NoOrder, OtpUnique, ActiveHasCode, Active
<1>2. Knowing
  BY IdleKnows DEF Init, Knowing
<1> QED
  BY <1>1, <1>2 DEF CodesInv

SerialInv == TypeOK /\ CodesInv

LEMMA NextCodes ==
    ASSUME OneAtATime
    PROVE  SerialInv /\ [Next]_vars => SerialInv'
<1> SUFFICES ASSUME TypeOK, CodesInv, [Next]_vars
             PROVE  CodesInv'
  BY NextType DEF SerialInv
<1>1. ASSUME NEW r \in Requests, Arrival(r)
      PROVE  CodesInv'
  BY <1>1, ArrivalCodes
<1>2. ASSUME NEW r \in Requests, Handler(r) \/ DbFailure(r)
      PROVE  CodesInv'
  BY <1>2, OtherCodes, SavesCodes DEF Handler
<1>3. ASSUME NEW o \in Orders, Expire(o)
      PROVE  CodesInv'
  BY <1>3, ExpireCodes
<1>4. ASSUME UNCHANGED vars
      PROVE  CodesInv'
  BY <1>4 DEF vars, CodesInv, OtpUnique, ActiveHasCode, Knowing, Knows, Unused, Active
<1> QED
  BY <1>1, <1>2, <1>3, <1>4 DEF Next

LEMMA Serial ==
    ASSUME OneAtATime
    PROVE  Spec => []SerialInv
<1>1. Init => SerialInv
  BY InitType, InitCodes DEF SerialInv
<1> QED
  BY <1>1, NextCodes, PTL DEF Spec

\* One request at a time: no two orders that wait for delivery or pickup share a
\* code, however many codes have been drawn and given back.
THEOREM CodesAreUnique ==
    ASSUME OneAtATime
    PROVE  Spec => []OtpUnique
<1>1. SerialInv => OtpUnique
  BY DEF SerialInv, CodesInv
<1> QED
  BY <1>1, Serial, PTL

\* One request at a time: exactly the open orders have a code, also when a handler
\* fails half way.
THEOREM OpenOrdersHaveCodes ==
    ASSUME OneAtATime
    PROVE  Spec => []ActiveHasCode
<1>1. SerialInv => ActiveHasCode
  BY DEF SerialInv, CodesInv
<1> QED
  BY <1>1, Serial, PTL

-----------------------------------------------------------------------------
(* Life cycle *)

Advance == \A o \in Orders :
              \/ orders'[o].status = orders[o].status
              \/ <<orders[o].status, orders'[o].status>> \in Transitions

\* A step that changes one document only.
LEMMA AdvanceOne ==
    ASSUME TypeOK, NEW id \in Orders, NEW doc,
           orders' = [orders EXCEPT ![id] = doc],
           \/ doc.status = orders[id].status
           \/ <<orders[id].status, doc.status>> \in Transitions
    PROVE  Advance
  BY DEF TypeOK, Advance

LEMMA NextAdvance ==
    ASSUME SerialInv, [Next]_vars
    PROVE  Advance
<1> USE DEF SerialInv
<1>1. CASE UNCHANGED orders
  BY <1>1 DEF Advance
<1>2. ASSUME NEW r \in Requests, InsertOrder(r)
      PROVE  Advance
  BY <1>2, InsertedOrder, AdvanceOne DEF Transitions
<1>3. ASSUME NEW r \in Requests, SaveDelivery(r)
      PROVE  Advance
  <2>1. PICK doc :
             /\ orders' = [orders EXCEPT ![reqs[r].order] = doc]
             /\ doc = [orders[reqs[r].order] EXCEPT !.status = "delivered",
                          !.code = reqs[r].drawn, !.expired = FALSE]
             /\ reqs[r].order \in Orders
             /\ orders[reqs[r].order].status = "pending"
    BY <1>3, DeliveredOrder
  <2>2. doc.status = "delivered"
    BY <2>1 DEF TypeOK, OrderDocs
  <2> QED
    BY <2>1, <2>2, AdvanceOne DEF Transitions
<1>4. ASSUME NEW r \in Requests, CloseOrder(r)
      PROVE  Advance
  BY <1>4, ClosedOrder, AdvanceOne
<1>5. ASSUME NEW o \in Orders, Expire(o)
      PROVE  Advance
  BY <1>5 DEF TypeOK, OrderDocs, Expire, Advance
<1>6. ASSUME NEW r \in Requests, Arrival(r)
      PROVE  UNCHANGED orders
  BY <1>6 DEF Arrival, CreateOrder, VerifyDelivery, VerifyPickup, Pickup, CancelOrder,
     SyncFromEsp, Begin
<1>7. ASSUME NEW r \in Requests, Handler(r) \/ DbFailure(r),
             ~InsertOrder(r), ~SaveDelivery(r), ~CloseOrder(r)
      PROVE  UNCHANGED orders
  BY <1>7 DEF Handler, FindCabinet, Reserve, DrawPickupCode, LoadCabinet, FreeCabinet,
     FindDelivered, DbFailure
<1> QED
  BY <1>1, <1>2, <1>3, <1>4, <1>5, <1>6, <1>7 DEF Next, vars

\* One request at a time: an order goes pending, delivered, completed, or pending,
\* cancelled, and nothing leaves a final status.
THEOREM LifeCycleKept ==
    ASSUME OneAtATime
    PROVE  Spec => Lifecycle
<1>1. SerialInv /\ [Next]_vars => [Advance]_vars
  BY NextAdvance
<1> QED
  BY <1>1, Serial, PTL DEF Spec, Lifecycle, Advance

-----------------------------------------------------------------------------
(* Compartments *)

NoReports == "sync" \notin Workload

FreeOf(c) == \A o \in Orders : Active(o) => orders[o].cab # c

\* Every open order has a compartment of its own, and a user.
OneEach ==
    /\ \A o, p \in Orders :
          Active(o) /\ Active(p) /\ orders[o].cab = orders[p].cab => o = p
    /\ \A o \in Orders : Active(o) => orders[o].user \in Users

\* What the request in progress knows about its compartment.
Holds(q) ==
    /\ q.kind # "sync"
    /\ q.step # "findOrder"
    /\ q.step = "reserve" => cabinets[q.cab] = Null
    /\ q.step = "insert" => cabinets[q.cab] = q.user
    /\ q.step \in {"insert", "loadCabinet", "free"} => FreeOf(q.cab)

OwnedInv == ReservedForOwner /\ OneEach /\ \A r \in Requests : Holds(reqs[r])

LEMMA IdleHolds == Holds(Idle) /\ Holds(Idle)'
  BY ServerAssumption DEF Idle, Holds, Kinds

\* The open orders, their users and compartments stay as they are.
SameOpen ==
    \A o \in Orders : /\ Active(o)' <=> Active(o)
                      /\ orders'[o].user = orders[o].user
                      /\ orders'[o].cab = orders[o].cab

\* A step that keeps the open orders and changes the cabinet of none of them.
LEMMA KeepOwned ==
    ASSUME OneAtATime, TypeOK, OwnedInv, SameOpen, NEW r \in Requests, NEW q,
           reqs' = [reqs EXCEPT ![r] = q],
           \A o \in Orders : Active(o) =>
                cabinets'[orders[o].cab] = cabinets[orders[o].cab],
           Holds(q)'
    PROVE  OwnedInv'
<1>1. \A s \in Requests : Holds(reqs[s])'
  BY OnlyRequest
<1>2. ReservedForOwner' /\ OneEach'
  BY DEF OwnedInv, SameOpen, ReservedForOwner, OneEach
<1> QED
  BY <1>1, <1>2 DEF OwnedInv

LEMMA SameDocsOwned ==
    ASSUME OneAtATime, TypeOK, OwnedInv, NEW r \in Requests, NEW q,
           reqs' = [reqs EXCEPT ![r] = q], UNCHANGED <<orders, cabinets>>, Holds(q)
    PROVE  OwnedInv'
<1>1. SameOpen /\ Holds(q)'
  BY DEF SameOpen, Active, Holds, FreeOf
<1> QED
  BY <1>1, KeepOwned

\* A compartment without user has no open order.
LEMMA NullIsFree ==
    ASSUME OwnedInv, NEW c, cabinets[c] = Null
    PROVE  FreeOf(c)
  BY ServerAssumption DEF OwnedInv, ReservedForOwner, OneEach, FreeOf

LEMMA ArrivalOwned ==
    ASSUME OneAtATime, NoReports, TypeOK, OwnedInv, NEW r \in Requests, Arrival(r)
    PROVE  OwnedInv'
<1>1. PICK q : /\ reqs' = [reqs EXCEPT ![r] = q]
               /\ UNCHANGED <<orders, cabinets>>
               /\ q.kind # "sync"
               /\ q.step \in {"findCabinet", "newCode", "close"}
  BY ArrivalRequest DEF NoReports
<1>2. Holds(q)
  BY <1>1 DEF Holds
<1> QED
  BY <1>1, <1>2, SameDocsOwned

\* The handlers' steps before and after the saves.
LEMMA FindCabinetOwned ==
    ASSUME OneAtATime, TypeOK, OwnedInv, NEW r \in Requests, FindCabinet(r)
    PROVE  OwnedInv'
<1>1. CASE Respond(r)
  BY <1>1, IdleHolds, SameDocsOwned DEF FindCabinet, Respond
<1>2. ASSUME NEW c \in Cabinets, cabinets[c] = Null,
             reqs' = [reqs EXCEPT ![r].step = "reserve", ![r].cab = c]
      PROVE  OwnedInv'
  <2>1. PICK q : q = [reqs[r] EXCEPT !.step = "reserve", !.cab = c]
    OBVIOUS
  <2>2. reqs' = [reqs EXCEPT ![r] = q]
    BY <1>2, <2>1, RequestType DEF TypeOK, ReqStates
  <2>3. q.kind = reqs[r].kind /\ q.step = "reserve" /\ q.cab = c
    BY <2>1, RequestType DEF ReqStates
  <2>4. Holds(q)
    BY <1>2, <2>3 DEF Holds, OwnedInv
  <2> QED
    BY <2>2, <2>4, SameDocsOwned DEF FindCabinet
<1> QED
  BY <1>1, <1>2 DEF FindCabinet

LEMMA ReserveOwned ==
    ASSUME OneAtATime, TypeOK, OwnedInv, NEW r \in Requests, Reserve(r)
    PROVE  OwnedInv'
<1>1. PICK q : q = [reqs[r] EXCEPT !.step = "insert"]
  OBVIOUS
<1>2. reqs' = [reqs EXCEPT ![r] = q]
  BY <1>1, RequestType DEF TypeOK, ReqStates, Reserve, Goto
<1>3. /\ q.kind = reqs[r].kind /\ q.step = "insert"
      /\ q.cab = reqs[r].cab /\ q.user = reqs[r].user
  BY <1>1, RequestType DEF ReqStates
<1>4. FreeOf(q.cab) /\ q.kind # "sync" /\ q.cab \in Cabinets
  BY <1>3, NullIsFree, RequestType
     DEF OwnedInv, Holds, Reserve, At, Supplied, CabinetSteps
<1>5. SameOpen /\ FreeOf(q.cab)'
  BY <1>4 DEF SameOpen, FreeOf, Active, Reserve
<1>6. cabinets'[q.cab] = q.user
      /\ \A c \in Cabinets \ {q.cab} : cabinets'[c] = cabinets[c]
  BY <1>3, <1>4 DEF Reserve, TypeOK
<1>7. \A o \in Orders : Active(o) =>
           cabinets'[orders[o].cab] = cabinets[orders[o].cab]
  BY <1>4, <1>6 DEF FreeOf, TypeOK, Active
<1>8. Holds(q)'
  BY <1>3, <1>4, <1>5, <1>6 DEF Holds
<1> QED
  BY <1>2, <1>5, <1>7, <1>8, KeepOwned

LEMMA InsertOrderOwned ==
    ASSUME OneAtATime, TypeOK, CodesInv, OwnedInv, NEW r \in Requests, InsertOrder(r)
    PROVE  OwnedInv'
<1> DEFINE id == reqs[r].order
<1>1. PICK doc : /\ orders' = [orders EXCEPT ![id] = doc]
                 /\ doc = [user |-> reqs[r].user, cab |-> reqs[r].cab,
                           status |-> "pending", code |-> reqs[r].drawn,
                           expired |-> FALSE]
                 /\ id \in Orders
  BY InsertedOrder
<1>2. /\ orders'[id] = doc /\ doc.user = reqs[r].user /\ doc.cab = reqs[r].cab
      /\ \A p \in Orders \ {id} : orders'[p] = orders[p]
  BY <1>1 DEF TypeOK
<1>3. /\ reqs[r].user \in Users
      /\ cabinets[reqs[r].cab] = reqs[r].user
      /\ FreeOf(reqs[r].cab)
  BY RequestType DEF InsertOrder, At, Supplied, OwnedInv, Holds
<1>4. \A s \in Requests : Holds(reqs[s])'
  BY OnlyRequest, IdleHolds DEF InsertOrder, Respond
<1>5. OneEach'
  BY <1>2, <1>3 DEF OwnedInv, OneEach, FreeOf, Active
<1>6. ReservedForOwner'
  BY <1>2, <1>3 DEF OwnedInv, ReservedForOwner, Active, InsertOrder
<1> QED
  BY <1>4, <1>5, <1>6 DEF OwnedInv

LEMMA DrawPickupCodeOwned ==
    ASSUME OneAtATime, TypeOK, OwnedInv, NEW r \in Requests, DrawPickupCode(r)
    PROVE  OwnedInv'
<1>1. PICK otp \in OTPs :
        reqs' = [reqs EXCEPT ![r].step = "deliver", ![r].drawn = otp]
  BY DEF DrawPickupCode, GenerateUniqueOTP
<1>2. PICK q : q = [reqs[r] EXCEPT !.step = "deliver", !.drawn = otp]
  OBVIOUS
<1>3. reqs' = [reqs EXCEPT ![r] = q]
  BY <1>1, <1>2, RequestType DEF TypeOK, ReqStates
<1>4. q.kind = reqs[r].kind /\ q.step = "deliver"
  BY <1>2, RequestType DEF ReqStates
<1>5. Holds(q)
  BY <1>4 DEF Holds, OwnedInv
<1> QED
  BY <1>3, <1>5, SameDocsOwned DEF DrawPickupCode

\* A delivery keeps the open orders; so does the clock.
LEMMA SaveDeliverySame ==
    ASSUME TypeOK, CodesInv, NEW r \in Requests, SaveDelivery(r)
    PROVE  SameOpen
<1> DEFINE id == reqs[r].order
<1>1. PICK doc : /\ orders' = [orders EXCEPT ![id] = doc]
                 /\ doc = [orders[id] EXCEPT !.status = "delivered",
                              !.code = reqs[r].drawn, !.expired = FALSE]
                 /\ id \in Orders
                 /\ orders[id].status = "pending"
  BY DeliveredOrder
<1>2. /\ doc.status = "delivered"
      /\ doc.user = orders[id].user /\ doc.cab = orders[id].cab
  BY <1>1 DEF TypeOK, OrderDocs
<1> QED
  BY <1>1, <1>2 DEF SameOpen, Active, TypeOK

LEMMA SaveDeliveryOwned ==
    ASSUME OneAtATime, TypeOK, CodesInv, OwnedInv, NEW r \in Requests, SaveDelivery(r)
    PROVE  OwnedInv'
  BY SaveDeliverySame, KeepOwned, IdleHolds DEF SaveDelivery, Respond

LEMMA ExpireSame ==
    ASSUME TypeOK, NEW o \in Orders, Expire(o)
    PROVE  SameOpen
  BY DEF TypeOK, OrderDocs, Expire, SameOpen, Active

LEMMA ExpireOwned ==
    ASSUME TypeOK, OwnedInv, NEW o \in Orders, Expire(o)
    PROVE  OwnedInv'
<1>1. SameOpen /\ UNCHANGED <<cabinets, reqs>>
  BY ExpireSame DEF Expire
<1>2. ReservedForOwner' /\ OneEach'
  BY <1>1 DEF OwnedInv, SameOpen, ReservedForOwner, OneEach
<1>3. \A r \in Requests : Holds(reqs[r])'
  BY <1>1 DEF OwnedInv, SameOpen, Holds, FreeOf
<1> QED
  BY <1>2, <1>3 DEF OwnedInv

\* Closing an order makes its compartment free; it stays reserved until FreeCabinet.
LEMMA ClosedFree ==
    ASSUME TypeOK, CodesInv, OwnedInv, NEW r \in Requests, CloseOrder(r),
           NEW id, id = reqs[r].order, NEW c, c = orders[id].cab
    PROVE  /\ id \in Orders
           /\ Active(id) /\ ~Active(id)'
           /\ \A p \in Orders \ {id} :
                 orders'[p] = orders[p] /\ (Active(p)' <=> Active(p))
           /\ FreeOf(c)'
<1>1. PICK doc : /\ orders' = [orders EXCEPT ![id] = doc]
                 /\ id \in Orders
                 /\ doc.status \in {"cancelled", "completed"}
                 /\ Active(id)
  BY ClosedOrder
<1>2. /\ orders'[id] = doc
      /\ \A p \in Orders \ {id} : orders'[p] = orders[p]
  BY <1>1 DEF TypeOK
<1>3. ~Active(id)' /\ \A p \in Orders \ {id} : Active(p)' <=> Active(p)
  BY <1>1, <1>2 DEF Active
<1>4. FreeOf(c)'
  <2> SUFFICES ASSUME NEW p \in Orders, Active(p)', orders'[p].cab = c
               PROVE  FALSE
    BY DEF FreeOf
  <2>1. p # id /\ Active(p) /\ orders[p].cab = orders[id].cab
    BY <1>2, <1>3
  <2> QED
    BY <1>1, <2>1 DEF OwnedInv, OneEach
<1> QED
  BY <1>1, <1>2, <1>3, <1>4

LEMMA CloseOrderOwned ==
    ASSUME OneAtATime, TypeOK, CodesInv, OwnedInv, NEW r \in Requests, CloseOrder(r)
    PROVE  OwnedInv'
<1>1. reqs[r].kind # "sync"
  BY DEF OwnedInv, Holds
<1>2. PICK id, c : id = reqs[r].order /\ c = orders[id].cab
  OBVIOUS
<1>3. PICK q : q = [reqs[r] EXCEPT !.step = "loadCabinet", !.cab = c]
  OBVIOUS
<1>4. reqs' = [reqs EXCEPT ![r] = q]
  BY <1>1, <1>2, <1>3, RequestType DEF CloseOrder, TypeOK, ReqStates
<1>5. q.kind = reqs[r].kind /\ q.step = "loadCabinet" /\ q.cab = c
  BY <1>3, RequestType DEF ReqStates
<1>6. FreeOf(q.cab)'
  BY <1>2, <1>5, ClosedFree
<1>7. Holds(q)'
  BY <1>1, <1>5, <1>6 DEF Holds
<1>8. \A s \in Requests : Holds(reqs[s])'
  BY <1>4, <1>7, OnlyRequest
<1>9. \A p \in Orders : Active(p)' => Active(p) /\ orders'[p] = orders[p]
  BY <1>2, ClosedFree
<1>10. ReservedForOwner' /\ OneEach'
  BY <1>9 DEF OwnedInv, ReservedForOwner, OneEach, CloseOrder
<1> QED
  BY <1>8, <1>10 DEF OwnedInv

LEMMA LoadCabinetOwned ==
    ASSUME OneAtATime, TypeOK, OwnedInv, NEW r \in Requests, LoadCabinet(r)
    PROVE  OwnedInv'
<1>1. PICK q : q = [reqs[r] EXCEPT !.step = "free",
                                   !.holder = cabinets[reqs[r].cab]]
  OBVIOUS
<1>2. reqs' = [reqs EXCEPT ![r] = q]
  BY <1>1, RequestType DEF LoadCabinet, TypeOK, ReqStates
<1>3. q.kind = reqs[r].kind /\ q.step = "free" /\ q.cab = reqs[r].cab
  BY <1>1, RequestType DEF ReqStates
<1>4. Holds(q)
  BY <1>3 DEF Holds, OwnedInv, LoadCabinet, At
<1> QED
  BY <1>2, <1>4, SameDocsOwned DEF LoadCabinet

LEMMA FreeCabinetOwned ==
    ASSUME OneAtATime, TypeOK, OwnedInv, NEW r \in Requests, FreeCabinet(r)
    PROVE  OwnedInv'
<1>1. reqs' = [reqs EXCEPT ![r] = Idle]
  BY DEF FreeCabinet, Respond, OwnedInv, Holds
<1>2. FreeOf(reqs[r].cab)
  BY DEF FreeCabinet, At, OwnedInv, Holds
<1>3. SameOpen
  BY DEF FreeCabinet, SameOpen, Active
<1>4. \A o \in Orders : Active(o) =>
           cabinets'[orders[o].cab] = cabinets[orders[o].cab]
  BY <1>2 DEF FreeCabinet, FreeOf, TypeOK, Active
<1> QED
  BY <1>1, <1>3, <1>4, IdleHolds, KeepOwned

BookingInv == SerialInv /\ OwnedInv

LEMMA InitBooking ==
    ASSUME Init
    PROVE  BookingInv
<1>1. SerialInv
  BY InitType, InitCodes DEF SerialInv
<1>2. ReservedForOwner /\ OneEach
  BY DEF Init, NoOrder, ReservedForOwner, OneEach, Active
<1>3. \A r \in Requests : Holds(reqs[r])
  BY IdleHolds DEF Init
<1> QED
  BY <1>1, <1>2, <1>3 DEF BookingInv, OwnedInv

LEMMA NextBooking ==
    ASSUME OneAtATime, NoReports
    PROVE  BookingInv /\ [Next]_vars => BookingInv'
<1> SUFFICES ASSUME BookingInv, [Next]_vars
             PROVE  OwnedInv'
  BY NextCodes DEF BookingInv
<1> USE DEF BookingInv, SerialInv
<1>1. ASSUME NEW r \in Requests, Arrival(r)
      PROVE  OwnedInv'
  BY <1>1, ArrivalOwned
<1>2. ASSUME NEW r \in Requests, FindDelivered(r)
      PROVE  FALSE
  BY <1>2 DEF FindDelivered, At, OwnedInv, Holds
<1>3. ASSUME NEW r \in Requests, DbFailure(r)
      PROVE  OwnedInv'
  BY <1>3, IdleHolds, SameDocsOwned DEF DbFailure, Respond
<1>4. ASSUME NEW r \in Requests, Handler(r)
      PROVE  OwnedInv'
  BY <1>2, <1>4, FindCabinetOwned, ReserveOwned, InsertOrderOwned, DrawPickupCodeOwned,
     SaveDeliveryOwned, CloseOrderOwned, LoadCabinetOwned, FreeCabinetOwned DEF Handler
<1>5. ASSUME NEW o \in Orders, Expire(o)
      PROVE  OwnedInv'
  BY <1>5, ExpireOwned
<1>6. ASSUME UNCHANGED vars
      PROVE  OwnedInv'
  BY <1>6 DEF vars, OwnedInv, ReservedForOwner, OneEach, Holds, FreeOf, Active
<1> QED
  BY <1>1, <1>3, <1>4, <1>5, <1>6 DEF Next

\* One request at a time and no offline pickups: the compartment of an open order is
\* reserved for the order's user, also when database calls fail between the saves
\* of an order and of its cabinet.
THEOREM OwnersKeepCompartments ==
    ASSUME OneAtATime, NoReports
    PROVE  Spec => []ReservedForOwner
<1>1. BookingInv => ReservedForOwner
  BY DEF BookingInv, OwnedInv
<1> QED
  BY <1>1, InitBooking, NextBooking, PTL DEF Spec

-----------------------------------------------------------------------------
(* The server implements CabinetBooking *)

\* What a compartment is used for follows from its only open order.
LEMMA BoxOfOpen ==
    ASSUME OneEach, NEW o \in Orders, Active(o)
    PROVE  BoxOf(orders[o].cab) =
             [state |-> orders[o].status, user |-> orders[o].user]
<1> DEFINE open == {p \in Orders : Active(p) /\ orders[p].cab = orders[o].cab}
<1>1. open = {o}
  BY DEF OneEach
<1>2. (CHOOSE p \in open : TRUE) = o
  BY <1>1
<1> QED
  BY <1>1, <1>2 DEF BoxOf

LEMMA BoxOfFree ==
    ASSUME NEW c, FreeOf(c)
    PROVE  BoxOf(c) = [state |-> "empty", user |-> Null]
<1>1. {p \in Orders : Active(p) /\ orders[p].cab = c} = {}
  BY DEF FreeOf
<1> QED
  BY <1>1 DEF BoxOf

LEMMA InitRefines == Init => Abstract!Init
<1> SUFFICES ASSUME Init PROVE Abstract!Init
  OBVIOUS
<1>1. \A c \in Cabinets : FreeOf(c)
  BY DEF Init, NoOrder, FreeOf, Active
<1> QED
  BY <1>1, BoxOfFree DEF Abstract!Init, Abstract!Empty

\* The same after a step.
LEMMA BoxOfOpenNext ==
    ASSUME OneEach', NEW o \in Orders, Active(o)', NEW c, c = orders'[o].cab
    PROVE  BoxOf(c)' = [state |-> orders'[o].status, user |-> orders'[o].user]
<1> DEFINE open == {p \in Orders : Active(p)' /\ orders'[p].cab = c}
<1>1. open = {o}
  BY DEF OneEach
<1>2. (CHOOSE p \in open : TRUE) = o
  BY <1>1
<1> QED
  BY <1>1, <1>2 DEF BoxOf

LEMMA BoxOfFreeNext ==
    ASSUME NEW c, FreeOf(c)'
    PROVE  BoxOf(c)' = [state |-> "empty", user |-> Null]
<1>1. {p \in Orders : Active(p)' /\ orders'[p].cab = c} = {}
  BY DEF FreeOf
<1> QED
  BY <1>1 DEF BoxOf

\* What the abstract state reads of order o stays as it is.
SameOrder(o) == /\ orders'[o].status = orders[o].status
                /\ orders'[o].user = orders[o].user
                /\ orders'[o].cab = orders[o].cab

\* A compartment keeps its use when its open orders do.
LEMMA SameBox ==
    ASSUME NEW c,
           \A o \in Orders : \/ SameOrder(o)
                             \/ ~(Active(o) /\ orders[o].cab = c)
                                /\ ~(Active(o)' /\ orders'[o].cab = c)
    PROVE  BoxOf(c)' = BoxOf(c)
<1> DEFINE open == {o \in Orders : Active(o) /\ orders[o].cab = c}
           p == CHOOSE o \in open : TRUE
<1>1. {o \in Orders : Active(o)' /\ orders'[o].cab = c} = open
  BY DEF Active, SameOrder
<1>2. CASE open = {}
  BY <1>1, <1>2 DEF BoxOf
<1>3. CASE open # {}
  <2>1. p \in open
    BY <1>3
  <2>2. SameOrder(p)
    BY <2>1
  <2>3. BoxOf(c) = [state |-> orders[p].status, user |-> orders[p].user]
    BY <1>3 DEF BoxOf
  <2>4. BoxOf(c)' = [state |-> orders'[p].status, user |-> orders'[p].user]
    BY <1>1, <1>3 DEF BoxOf
  <2> QED
    BY <2>2, <2>3, <2>4 DEF SameOrder
<1> QED
  BY <1>2, <1>3

Box == [c \in Cabinets |-> BoxOf(c)]

LEMMA OneBox ==
    ASSUME NEW c \in Cabinets, NEW v, BoxOf(c)' = v,
           \A d \in Cabinets \ {c} : BoxOf(d)' = BoxOf(d)
    PROVE  Box' = [Box EXCEPT ![c] = v]
  BY DEF Box

LEMMA SameOrders ==
    ASSUME \A o \in Orders : SameOrder(o)
    PROVE  UNCHANGED Box
  BY SameBox DEF Box

LEMMA InsertOrderBooks ==
    ASSUME BookingInv, BookingInv', NEW r \in Requests, InsertOrder(r)
    PROVE  \E c \in Cabinets, u \in Users : Abstract!Book(c, u)
<1> USE DEF BookingInv, SerialInv, OwnedInv
<1>1. PICK id, c, u : id = reqs[r].order /\ c = reqs[r].cab /\ u = reqs[r].user
  OBVIOUS
<1>2. PICK doc : /\ orders' = [orders EXCEPT ![id] = doc]
                 /\ doc = [user |-> u, cab |-> c, status |-> "pending",
                           code |-> reqs[r].drawn, expired |-> FALSE]
                 /\ id \in Orders
                 /\ orders[id].status = "none"
  BY <1>1, InsertedOrder
<1>3. /\ orders'[id].user = u /\ orders'[id].cab = c
      /\ orders'[id].status = "pending"
      /\ \A p \in Orders \ {id} : orders'[p] = orders[p]
  BY <1>2 DEF TypeOK
<1>4. u \in Users /\ c \in Cabinets /\ FreeOf(c)
  BY <1>1, RequestType DEF InsertOrder, At, Supplied, CabinetSteps, Holds
<1>5. BoxOf(c)' = [state |-> "pending", user |-> u]
  BY <1>2, <1>3, BoxOfOpenNext DEF Active
<1>6. \A d \in Cabinets \ {c} : BoxOf(d)' = BoxOf(d)
  BY <1>2, <1>3, SameBox DEF Active, SameOrder
<1>7. Box[c] = [state |-> "empty", user |-> Null]
  BY <1>4, BoxOfFree DEF Box
<1>8. Box' = [Box EXCEPT ![c] = [state |-> "pending", user |-> u]]
  BY <1>4, <1>5, <1>6, OneBox
<1> QED
  BY <1>4, <1>7, <1>8 DEF Box, Abstract!Book, Abstract!Empty, Abstract!Booked

LEMMA SaveDeliveryDelivers ==
    ASSUME BookingInv, BookingInv', NEW r \in Requests, SaveDelivery(r)
    PROVE  \E c \in Cabinets, u \in Users : Abstract!Deliver(c, u)
<1> USE DEF BookingInv, SerialInv, OwnedInv
<1>1. PICK id : id = reqs[r].order
  OBVIOUS
<1>2. PICK c, u : c = orders[id].cab /\ u = orders[id].user
  OBVIOUS
<1>3. PICK doc : /\ orders' = [orders EXCEPT ![id] = doc]
                 /\ doc = [orders[id] EXCEPT !.status = "delivered",
                              !.code = reqs[r].drawn, !.expired = FALSE]
                 /\ id \in Orders
                 /\ orders[id].status = "pending"
  BY <1>1, DeliveredOrder
<1>4. /\ orders'[id].user = u /\ orders'[id].cab = c
      /\ orders'[id].status = "delivered"
      /\ \A p \in Orders \ {id} : orders'[p] = orders[p]
  BY <1>2, <1>3 DEF TypeOK, OrderDocs
<1>5. Active(id) /\ Active(id)' /\ u \in Users /\ c \in Cabinets
  BY <1>2, <1>3, <1>4 DEF Active, OneEach, TypeOK
<1>6. BoxOf(c) = [state |-> "pending", user |-> u]
  BY <1>2, <1>3, <1>5, BoxOfOpen
<1>7. BoxOf(c)' = [state |-> "delivered", user |-> u]
  BY <1>3, <1>4, <1>5, BoxOfOpenNext
<1>8. \A d \in Cabinets \ {c} : BoxOf(d)' = BoxOf(d)
  BY <1>2, <1>3, <1>4, SameBox DEF SameOrder
<1>9. Box[c] = [state |-> "pending", user |-> u]
  BY <1>5, <1>6 DEF Box
<1>10. Box' = [Box EXCEPT ![c] = [state |-> "delivered", user |-> u]]
  BY <1>5, <1>7, <1>8, OneBox
<1> QED
  BY <1>5, <1>9, <1>10 DEF Box, Abstract!Deliver, Abstract!Booked, Abstract!Holding

LEMMA CloseOrderReleases ==
    ASSUME BookingInv, BookingInv', NEW r \in Requests, CloseOrder(r)
    PROVE  \E c \in Cabinets : Abstract!Release(c)
<1> USE DEF BookingInv, SerialInv, OwnedInv
<1>1. PICK id : id = reqs[r].order
  OBVIOUS
<1>2. PICK c : c = orders[id].cab
  OBVIOUS
<1>3. /\ id \in Orders /\ Active(id) /\ ~Active(id)' /\ FreeOf(c)'
      /\ \A p \in Orders \ {id} : orders'[p] = orders[p]
  BY <1>1, <1>2, ClosedFree
<1>4. c \in Cabinets
  BY <1>2, <1>3 DEF Active, TypeOK
<1>5. orders'[id].cab = c
  <2>1. PICK doc : /\ orders' = [orders EXCEPT ![id] = doc]
                   /\ doc = [orders[id] EXCEPT !.status = Final(r), !.code = Null]
    BY <1>1, ClosedOrder
  <2> QED
    BY <1>2, <1>3, <2>1 DEF TypeOK, OrderDocs
<1>6. BoxOf(c) = [state |-> orders[id].status, user |-> orders[id].user]
  BY <1>2, <1>3, BoxOfOpen
<1>7. BoxOf(c)' = [state |-> "empty", user |-> Null]
  BY <1>3, BoxOfFreeNext
<1>8. \A d \in Cabinets \ {c} : BoxOf(d)' = BoxOf(d)
  BY <1>2, <1>3, <1>5, SameBox DEF SameOrder
<1>9. Box[c] # [state |-> "empty", user |-> Null]
  BY <1>3, <1>4, <1>6 DEF Box, Active
<1>10. Box' = [Box EXCEPT ![c] = [state |-> "empty", user |-> Null]]
  BY <1>4, <1>7, <1>8, OneBox
<1> QED
  BY <1>4, <1>9, <1>10 DEF Box, Abstract!Release, Abstract!Empty

LEMMA NextRefines ==
    ASSUME BookingInv, BookingInv', [Next]_vars
    PROVE  [Abstract!Next]_Box
<1> USE DEF BookingInv, SerialInv, OwnedInv
<1>1. CASE UNCHANGED orders
  BY <1>1, SameOrders DEF SameOrder
<1>2. ASSUME NEW r \in Requests, InsertOrder(r)
      PROVE  Abstract!Next
  BY <1>2, InsertOrderBooks DEF Abstract!Next
<1>3. ASSUME NEW r \in Requests, SaveDelivery(r)
      PROVE  Abstract!Next
  BY <1>3, SaveDeliveryDelivers DEF Abstract!Next
<1>4. ASSUME NEW r \in Requests, CloseOrder(r)
      PROVE  Abstract!Next
  BY <1>4, CloseOrderReleases DEF Abstract!Next
<1>5. ASSUME NEW o \in Orders, Expire(o)
      PROVE  UNCHANGED Box
  BY <1>5, SameOrders DEF TypeOK, OrderDocs, Expire, SameOrder
<1>6. ASSUME NEW r \in Requests, Arrival(r)
      PROVE  UNCHANGED orders
  BY <1>6 DEF Arrival, CreateOrder, VerifyDelivery, VerifyPickup, Pickup, CancelOrder,
     SyncFromEsp, Begin
<1>7. ASSUME NEW r \in Requests, Handler(r) \/ DbFailure(r),
             ~InsertOrder(r), ~SaveDelivery(r), ~CloseOrder(r)
      PROVE  UNCHANGED orders
  BY <1>7 DEF Handler, FindCabinet, Reserve, DrawPickupCode, LoadCabinet, FreeCabinet,
     FindDelivered, DbFailure
<1> QED
  BY <1>1, <1>2, <1>3, <1>4, <1>5, <1>6, <1>7 DEF Next, vars

\* One request at a time and no offline pickups: the orders collection implements
\* CabinetBooking; what a compartment is used for, read off its open orders, is
\* booked, filled and emptied for one user at a time, also when handlers fail half way.
THEOREM ImplementsBooking ==
    ASSUME OneAtATime, NoReports
    PROVE  Spec => RefinesBooking
<1>1. Init => Abstract!Init
  BY InitRefines
<1>2. BookingInv /\ BookingInv' /\ [Next]_vars =>
          [Abstract!Next]_([c \in Cabinets |-> BoxOf(c)])
  BY NextRefines DEF Box
<1> QED
  BY <1>1, <1>2, InitBooking, NextBooking, PTL DEF Spec, RefinesBooking, Abstract!Spec
=============================================================================
