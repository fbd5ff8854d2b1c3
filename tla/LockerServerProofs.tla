------------------------- MODULE LockerServerProofs -------------------------
(***************************************************************************)
(* Theorems about LockerServer, for every number of users, cabinets,       *)
(* orders, codes and overlapping requests.                                 *)
(***************************************************************************)
EXTENDS LockerServer, TLAPS

\* What every step does to the stored documents: they stay documents, and an
\* order once stored stays stored, in the cabinet it was created with.
DocsStep ==
    /\ orders' \in [Orders -> OrderDocs]
    /\ cabinets' \in [Cabinets -> Users \cup {Null}]
    /\ \A o \in Orders :
          orders'[o].status # "none" => orders'[o].cab \in Cabinets
    /\ \A o \in Orders : orders[o].status # "none" => orders'[o].status # "none"

-----------------------------------------------------------------------------
(* Type correctness *)

\* A step that gives one request a well-supplied next state keeps TypeOK.
LEMMA SetRequest ==
    ASSUME TypeOK, DocsStep, NEW r \in Requests, NEW q \in ReqStates,
           Supplied(q), reqs' = [reqs EXCEPT ![r] = q]
    PROVE  TypeOK'
<1>1. reqs' \in [Requests -> ReqStates]
  BY DEF TypeOK
<1>2. \A s \in Requests : Supplied(reqs[s])'
  <2> TAKE s \in Requests
  <2>1. reqs'[s] \in ReqStates /\ Supplied(reqs'[s])
    BY DEF TypeOK
  <2>2. orders'[reqs'[s].order].status # "none" \/ reqs'[s].order \notin Orders
        \/ orders[reqs'[s].order].status = "none"
    BY DEF DocsStep
  <2>3. QED
    BY <2>1, <2>2 DEF Supplied, OrderSteps
<1>3. QED
  BY <1>1, <1>2 DEF TypeOK, DocsStep

LEMMA SameDocs ==
    ASSUME TypeOK, UNCHANGED <<orders, cabinets>>
    PROVE  DocsStep
  BY DEF TypeOK, DocsStep

LEMMA IdleType == Idle \in ReqStates /\ Supplied(Idle)
  BY DEF Idle, ReqStates, Supplied, Steps, OrderSteps, CabinetSteps

\* The request of a step has its type and what it needs.
LEMMA RequestType ==
    ASSUME TypeOK, NEW r \in Requests
    PROVE  /\ reqs[r] \in ReqStates
           /\ Supplied(reqs[r])
  BY DEF TypeOK

LEMMA RespondType ==
    ASSUME TypeOK, DocsStep, NEW r \in Requests, Respond(r)
    PROVE  TypeOK'
  BY SetRequest, IdleType DEF Respond

LEMMA CreateOrderType ==
    ASSUME TypeOK, NEW r \in Requests, NEW u \in Users, CreateOrder(r, u)
    PROVE  TypeOK'
<1>1. PICK otp \in OTPs, o \in Orders :
        Begin(r, "create", [Idle EXCEPT !.step = "findCabinet", !.user = u,
                                        !.order = o, !.drawn = otp])
  BY DEF CreateOrder, GenerateUniqueOTP, FreshIds
<1> DEFINE q == [Idle EXCEPT !.step = "findCabinet", !.user = u,
                             !.order = o, !.drawn = otp, !.kind = "create"]
<1>2. q \in ReqStates
  BY DEF Idle, ReqStates, Kinds, Steps
<1>3. Supplied(q)
  BY DEF Idle, Supplied, OrderSteps, CabinetSteps
<1>4. reqs' = [reqs EXCEPT ![r] = q] /\ UNCHANGED <<orders, cabinets>>
  BY <1>1 DEF Begin, Idle
<1> QED
  BY <1>2, <1>3, <1>4, SetRequest, SameDocs

\* Closing an order, taken up by any of the kinds that do so.
LEMMA LoadedType ==
    ASSUME TypeOK, NEW r \in Requests, NEW o \in Orders, NEW k \in Kinds,
           orders[o].status # "none", Begin(r, k, Loaded(o))
    PROVE  TypeOK'
<1>1. PICK q : q = [Loaded(o) EXCEPT !.kind = k]
  OBVIOUS
<1>2. q \in ReqStates
  BY <1>1 DEF Loaded, Idle, ReqStates, Steps, TypeOK, OrderDocs
<1>3. Supplied(q)
  BY <1>1 DEF Loaded, Idle, Supplied, OrderSteps, CabinetSteps
<1>4. reqs' = [reqs EXCEPT ![r] = q] /\ UNCHANGED <<orders, cabinets>>
  BY <1>1 DEF Begin
<1> QED
  BY <1>2, <1>3, <1>4, SetRequest, SameDocs

LEMMA VerifyDeliveryType ==
    ASSUME TypeOK, NEW r \in Requests, NEW code, VerifyDelivery(r, code)
    PROVE  TypeOK'
<1>1. PICK o \in Orders :
        /\ orders[o].code = code
        /\ orders[o].status = "pending"
        /\ Begin(r, "deliver", [Idle EXCEPT !.step = "newCode", !.order = o,
                                            !.seen = code])
  BY DEF VerifyDelivery
<1> DEFINE q == [Idle EXCEPT !.step = "newCode", !.order = o, !.seen = code,
                             !.kind = "deliver"]
<1>2. q \in ReqStates
  BY <1>1 DEF Idle, ReqStates, Kinds, Steps, TypeOK, OrderDocs
<1>3. Supplied(q)
  BY <1>1 DEF Idle, Supplied, OrderSteps, CabinetSteps
<1>4. reqs' = [reqs EXCEPT ![r] = q] /\ UNCHANGED <<orders, cabinets>>
  BY <1>1 DEF Begin, Idle
<1> QED
  BY <1>2, <1>3, <1>4, SetRequest, SameDocs

LEMMA SyncFromEspType ==
    ASSUME TypeOK, NEW r \in Requests, NEW c \in Cabinets, SyncFromEsp(r, c)
    PROVE  TypeOK'
<1>1. PICK q : q = [Idle EXCEPT !.step = "free", !.cab = c,
                                !.holder = cabinets[c], !.kind = "sync"]
  OBVIOUS
<1>2. q \in ReqStates
  BY <1>1 DEF Idle, ReqStates, Kinds, Steps, TypeOK
<1>3. Supplied(q)
  BY <1>1 DEF Idle, Supplied, OrderSteps, CabinetSteps
<1>4. reqs' = [reqs EXCEPT ![r] = q] /\ UNCHANGED <<orders, cabinets>>
  BY <1>1 DEF SyncFromEsp, Begin, Idle
<1> QED
  BY <1>2, <1>3, <1>4, SetRequest, SameDocs

LEMMA ArrivalType ==
    ASSUME TypeOK, NEW r \in Requests, Arrival(r)
    PROVE  TypeOK'
<1>1. ASSUME NEW u \in Users, CreateOrder(r, u)
      PROVE  TypeOK'
  BY <1>1, CreateOrderType
<1>2. ASSUME NEW code \in OTPs, VerifyDelivery(r, code)
      PROVE  TypeOK'
  BY <1>2, VerifyDeliveryType
<1>3. ASSUME NEW code \in OTPs, VerifyPickup(r, code)
      PROVE  TypeOK'
  BY <1>3, LoadedType DEF VerifyPickup, Kinds
<1>4. ASSUME NEW o \in Orders, Pickup(r, o)
      PROVE  TypeOK'
  BY <1>4, LoadedType DEF Pickup, Kinds
<1>5. ASSUME NEW o \in Orders, CancelOrder(r, o)
      PROVE  TypeOK'
  BY <1>5, LoadedType DEF CancelOrder, Kinds
<1>6. ASSUME NEW c \in Cabinets, SyncFromEsp(r, c)
      PROVE  TypeOK'
  BY <1>6, SyncFromEspType
<1> QED
  BY <1>1, <1>2, <1>3, <1>4, <1>5, <1>6 DEF Arrival

LEMMA FindCabinetType ==
    ASSUME TypeOK, NEW r \in Requests, FindCabinet(r)
    PROVE  TypeOK'
<1>1. DocsStep
  BY SameDocs DEF FindCabinet
<1>2. ASSUME NEW c \in Cabinets,
             reqs' = [reqs EXCEPT ![r].step = "reserve", ![r].cab = c]
      PROVE  TypeOK'
  <2>1. PICK q : q = [reqs[r] EXCEPT !.step = "reserve", !.cab = c]
    OBVIOUS
  <2>2. q \in ReqStates
    BY <2>1, RequestType DEF ReqStates, Steps
  <2>3. Supplied(q)
    BY <2>1, RequestType
       DEF ReqStates, Supplied, OrderSteps, CabinetSteps, FindCabinet, At
  <2>4. reqs' = [reqs EXCEPT ![r] = q]
    BY <1>2, <2>1, RequestType DEF ReqStates, TypeOK
  <2> QED
    BY <1>1, <2>2, <2>3, <2>4, SetRequest
<1> QED
  BY <1>1, <1>2, RespondType DEF FindCabinet

LEMMA ReserveType ==
    ASSUME TypeOK, NEW r \in Requests, Reserve(r)
    PROVE  TypeOK'
<1>1. DocsStep
  BY RequestType DEF Reserve, DocsStep, TypeOK, At, Supplied, CabinetSteps
<1>2. PICK q : q = [reqs[r] EXCEPT !.step = "insert"]
  OBVIOUS
<1>3. q \in ReqStates
  BY <1>2, RequestType DEF ReqStates, Steps
<1>4. Supplied(q)
  BY <1>2, RequestType
     DEF ReqStates, Supplied, OrderSteps, CabinetSteps, Reserve, At
<1>5. reqs' = [reqs EXCEPT ![r] = q]
  BY <1>2, RequestType DEF ReqStates, TypeOK, Reserve, Goto
<1> QED
  BY <1>1, <1>3, <1>4, <1>5, SetRequest

LEMMA InsertOrderType ==
    ASSUME TypeOK, NEW r \in Requests, InsertOrder(r)
    PROVE  TypeOK'
<1>1. DocsStep
  BY RequestType
     DEF InsertOrder, DocsStep, TypeOK, At, Supplied, OrderSteps, CabinetSteps,
         OrderDocs, Statuses
<1> QED
  BY <1>1, RespondType DEF InsertOrder

LEMMA DrawPickupCodeType ==
    ASSUME TypeOK, NEW r \in Requests, DrawPickupCode(r)
    PROVE  TypeOK'
<1>1. DocsStep
  BY SameDocs DEF DrawPickupCode
<1>2. PICK otp \in OTPs :
        reqs' = [reqs EXCEPT ![r].step = "deliver", ![r].drawn = otp]
  BY DEF DrawPickupCode, GenerateUniqueOTP
<1>3. PICK q : q = [reqs[r] EXCEPT !.step = "deliver", !.drawn = otp]
  OBVIOUS
<1>4. q \in ReqStates
  BY <1>3, RequestType DEF ReqStates, Steps
<1>5. Supplied(q)
  BY <1>3, RequestType
     DEF ReqStates, Supplied, OrderSteps, CabinetSteps, DrawPickupCode, At
<1>6. reqs' = [reqs EXCEPT ![r] = q]
  BY <1>2, <1>3, RequestType DEF ReqStates, TypeOK
<1> QED
  BY <1>1, <1>4, <1>5, <1>6, SetRequest

LEMMA SaveDeliveryType ==
    ASSUME TypeOK, NEW r \in Requests, SaveDelivery(r)
    PROVE  TypeOK'
<1> DEFINE id == reqs[r].order
<1>1. id \in Orders /\ reqs[r].drawn \in OTPs
  BY RequestType DEF SaveDelivery, At, Supplied, OrderSteps
<1>2. orders[id] \in OrderDocs /\ orders[id].cab \in Cabinets
  BY <1>1, RequestType DEF SaveDelivery, At, Supplied, TypeOK
<1>3. PICK code \in OTPs \cup {Null} :
        code = Dirty(orders[id].code, reqs[r].seen, reqs[r].drawn)
  BY <1>1, <1>2 DEF OrderDocs, Dirty
<1>4. PICK doc : doc = [orders[id] EXCEPT !.status = "delivered",
                                          !.code = code, !.expired = FALSE]
  OBVIOUS
<1>5. doc \in OrderDocs /\ doc.cab \in Cabinets /\ doc.status = "delivered"
  BY <1>2, <1>4 DEF OrderDocs, Statuses
<1>6. orders' = [orders EXCEPT ![id] = doc]
  BY <1>3, <1>4 DEF SaveDelivery
<1>7. DocsStep
  BY <1>1, <1>5, <1>6 DEF DocsStep, TypeOK, SaveDelivery
<1> QED
  BY <1>7, RespondType DEF SaveDelivery

LEMMA CloseOrderType ==
    ASSUME TypeOK, NEW r \in Requests, CloseOrder(r)
    PROVE  TypeOK'
<1> DEFINE id == reqs[r].order
<1>1. id \in Orders /\ orders[id] \in OrderDocs /\ orders[id].cab \in Cabinets
  BY RequestType DEF CloseOrder, At, Supplied, OrderSteps, TypeOK
<1>2. PICK code \in OTPs \cup {Null} :
        code = Dirty(orders[id].code, reqs[r].seen, Null)
  BY <1>1 DEF OrderDocs, Dirty
<1>3. PICK doc : doc = [orders[id] EXCEPT !.status = Final(r), !.code = code]
  OBVIOUS
<1>4. doc \in OrderDocs /\ doc.cab \in Cabinets /\ doc.status # "none"
  BY <1>1, <1>3 DEF OrderDocs, Statuses, Final
<1>5. orders' = [orders EXCEPT ![id] = doc]
  BY <1>2, <1>3 DEF CloseOrder
<1>6. DocsStep
  BY <1>1, <1>4, <1>5 DEF DocsStep, TypeOK, CloseOrder
<1>7. ASSUME reqs' = [reqs EXCEPT ![r].step = "loadCabinet",
                                  ![r].cab = orders[id].cab]
      PROVE  TypeOK'
  <2>1. PICK q : q = [reqs[r] EXCEPT !.step = "loadCabinet",
                                     !.cab = orders[id].cab]
    OBVIOUS
  <2>2. q \in ReqStates
    BY <1>1, <2>1, RequestType DEF ReqStates, Steps
  <2>3. Supplied(q)
    BY <1>1, <2>1, RequestType
       DEF ReqStates, Supplied, OrderSteps, CabinetSteps, CloseOrder, At
  <2>4. reqs' = [reqs EXCEPT ![r] = q]
    BY <1>7, <2>1, RequestType DEF ReqStates, TypeOK
  <2> QED
    BY <1>6, <2>2, <2>3, <2>4, SetRequest
<1> QED
  BY <1>6, <1>7, RespondType DEF CloseOrder

LEMMA LoadCabinetType ==
    ASSUME TypeOK, NEW r \in Requests, LoadCabinet(r)
    PROVE  TypeOK'
<1>1. DocsStep
  BY SameDocs DEF LoadCabinet
<1>2. PICK q : q = [reqs[r] EXCEPT !.step = "free",
                                   !.holder = cabinets[reqs[r].cab]]
  OBVIOUS
<1>3. reqs[r].cab \in Cabinets
  BY RequestType DEF LoadCabinet, At, Supplied, CabinetSteps
<1>4. q \in ReqStates
  BY <1>2, <1>3, RequestType DEF ReqStates, Steps, TypeOK
<1>5. Supplied(q)
  BY <1>2, <1>3, RequestType
     DEF ReqStates, Supplied, OrderSteps, CabinetSteps, LoadCabinet, At
<1>6. reqs' = [reqs EXCEPT ![r] = q]
  BY <1>2, RequestType DEF ReqStates, TypeOK, LoadCabinet
<1> QED
  BY <1>1, <1>4, <1>5, <1>6, SetRequest

LEMMA FreeCabinetType ==
    ASSUME TypeOK, NEW r \in Requests, FreeCabinet(r)
    PROVE  TypeOK'
<1>1. reqs[r].cab \in Cabinets
  BY RequestType DEF FreeCabinet, At, Supplied, CabinetSteps
<1>2. DocsStep
  BY <1>1 DEF FreeCabinet, DocsStep, TypeOK, Dirty
<1>3. ASSUME Goto(r, "findOrder")
      PROVE  TypeOK'
  <2>1. PICK q : q = [reqs[r] EXCEPT !.step = "findOrder"]
    OBVIOUS
  <2>2. q \in ReqStates
    BY <2>1, RequestType DEF ReqStates, Steps
  <2>3. Supplied(q)
    BY <1>1, <2>1, RequestType DEF ReqStates, Supplied, OrderSteps, CabinetSteps
  <2>4. reqs' = [reqs EXCEPT ![r] = q]
    BY <1>3, <2>1, RequestType DEF ReqStates, TypeOK, Goto
  <2> QED
    BY <1>2, <2>2, <2>3, <2>4, SetRequest
<1> QED
  BY <1>2, <1>3, RespondType DEF FreeCabinet

LEMMA FindDeliveredType ==
    ASSUME TypeOK, NEW r \in Requests, FindDelivered(r)
    PROVE  TypeOK'
<1>1. DocsStep
  BY SameDocs DEF FindDelivered
<1>2. ASSUME NEW o \in Orders, orders[o].status = "delivered",
             reqs' = [reqs EXCEPT ![r].step = "close", ![r].order = o,
                                  ![r].seen = orders[o].code]
      PROVE  TypeOK'
  <2>1. PICK q : q = [reqs[r] EXCEPT !.step = "close", !.order = o,
                                     !.seen = orders[o].code]
    OBVIOUS
  <2>2. q \in ReqStates
    BY <2>1, RequestType DEF ReqStates, Steps, TypeOK, OrderDocs
  <2>3. Supplied(q)
    BY <1>2, <2>1, RequestType
       DEF ReqStates, Supplied, OrderSteps, CabinetSteps
  <2>4. reqs' = [reqs EXCEPT ![r] = q]
    BY <1>2, <2>1, RequestType DEF ReqStates, TypeOK
  <2> QED
    BY <1>1, <2>2, <2>3, <2>4, SetRequest
<1> QED
  BY <1>1, <1>2, RespondType DEF FindDelivered

LEMMA ExpireType ==
    ASSUME TypeOK, NEW o \in Orders, Expire(o)
    PROVE  TypeOK'
<1>1. PICK doc : doc = [orders[o] EXCEPT !.expired = TRUE]
  OBVIOUS
<1>2. doc \in OrderDocs /\ doc.cab \in Cabinets /\ doc.status = "pending"
  BY <1>1 DEF TypeOK, OrderDocs, Expire
<1>3. orders' = [orders EXCEPT ![o] = doc]
  BY <1>1 DEF Expire
<1>4. DocsStep
  BY <1>2, <1>3 DEF DocsStep, TypeOK, Expire
<1>5. \A s \in Requests : Supplied(reqs[s])'
  BY <1>4 DEF Supplied, OrderSteps, TypeOK, DocsStep, Expire
<1> QED
  BY <1>4, <1>5 DEF TypeOK, DocsStep, Expire

LEMMA InitType == Init => TypeOK
<1> SUFFICES ASSUME Init PROVE TypeOK
  OBVIOUS
<1>1. NoOrder \in OrderDocs /\ NoOrder.status = "none"
  BY DEF NoOrder, OrderDocs, Statuses
<1> QED
  BY <1>1, IdleType DEF Init, TypeOK

LEMMA NextType == TypeOK /\ [Next]_vars => TypeOK'
<1> SUFFICES ASSUME TypeOK, [Next]_vars PROVE TypeOK'
  OBVIOUS
<1>1. ASSUME NEW r \in Requests, Arrival(r)
      PROVE  TypeOK'
  BY <1>1, ArrivalType
<1>2. ASSUME NEW r \in Requests, Handler(r)
      PROVE  TypeOK'
  BY <1>2, FindCabinetType, ReserveType, InsertOrderType, DrawPickupCodeType,
     SaveDeliveryType, CloseOrderType, LoadCabinetType, FreeCabinetType,
     FindDeliveredType DEF Handler
<1>3. ASSUME NEW r \in Requests, DbFailure(r)
      PROVE  TypeOK'
  BY <1>3, RespondType, SameDocs DEF DbFailure
<1>4. ASSUME NEW o \in Orders, Expire(o)
      PROVE  TypeOK'
  BY <1>4, ExpireType
<1>5. ASSUME UNCHANGED vars
      PROVE  TypeOK'
  BY <1>5 DEF vars, TypeOK, Supplied
<1> QED
  BY <1>1, <1>2, <1>3, <1>4, <1>5 DEF Next

\* Whatever requests overlap and whichever database calls fail, documents and
\* requests keep their types and no handler works on a document it has not found.
THEOREM TypeCorrect == Spec => []TypeOK
<1> QED
  BY InitType, NextType, PTL DEF Spec
-----------------------------------------------------------------------------
(* What a step does, for the modules that build on this one *)

\* Request r has been taken up in the state q.
Arrived(r, q) ==
    /\ reqs[r].step = "idle"
    /\ reqs' = [reqs EXCEPT ![r] = q]
    /\ UNCHANGED <<orders, cabinets>>

LEMMA CreateOrderArrives ==
    ASSUME NEW r \in Requests, NEW u \in Users, CreateOrder(r, u)
    PROVE  \E q : /\ Arrived(r, q)
                  /\ q.kind = "create" /\ q.step = "findCabinet"
                  /\ q.order \in FreshIds
<1>1. PICK otp \in OTPs, o \in FreshIds :
        Begin(r, "create", [Idle EXCEPT !.step = "findCabinet", !.user = u,
                                        !.order = o, !.drawn = otp])
  BY DEF CreateOrder, GenerateUniqueOTP
<1> WITNESS [Idle EXCEPT !.step = "findCabinet", !.user = u, !.order = o,
                         !.drawn = otp, !.kind = "create"]
<1> QED
  BY <1>1 DEF Arrived, Begin, Idle

LEMMA LoadedArrives ==
    ASSUME NEW r \in Requests, NEW o \in Orders, NEW k, Begin(r, k, Loaded(o))
    PROVE  \E q : /\ Arrived(r, q)
                  /\ q.kind = k /\ q.step = "close" /\ q.order = o
<1> WITNESS [Loaded(o) EXCEPT !.kind = k]
<1> QED
  BY DEF Arrived, Begin, Loaded, Idle

LEMMA VerifyDeliveryArrives ==
    ASSUME NEW r \in Requests, NEW code, VerifyDelivery(r, code)
    PROVE  \E q : /\ Arrived(r, q)
                  /\ q.kind = "deliver" /\ q.step = "newCode"
                  /\ q.order \in Orders /\ orders[q.order].status = "pending"
<1>1. PICK o \in Orders :
        /\ orders[o].status = "pending"
        /\ Begin(r, "deliver", [Idle EXCEPT !.step = "newCode", !.order = o,
                                            !.seen = code])
  BY DEF VerifyDelivery
<1> WITNESS [Idle EXCEPT !.step = "newCode", !.order = o, !.seen = code,
                         !.kind = "deliver"]
<1> QED
  BY <1>1 DEF Arrived, Begin, Idle

LEMMA SyncFromEspArrives ==
    ASSUME NEW r \in Requests, NEW c, SyncFromEsp(r, c)
    PROVE  \E q : /\ Arrived(r, q)
                  /\ q.kind = "sync" /\ q.step = "free" /\ q.order = Null
<1> WITNESS [Idle EXCEPT !.step = "free", !.cab = c, !.holder = cabinets[c],
                         !.kind = "sync"]
<1> QED
  BY DEF Arrived, SyncFromEsp, Begin, Idle

CreateSteps == {"findCabinet", "reserve", "insert"}

DeliverSteps == {"newCode", "deliver"}

\* The request of r works on with its order, or has found a stored one to close.
GoesOn(r) ==
    /\ reqs'[r].kind = reqs[r].kind
    /\ \/ reqs'[r].order = reqs[r].order
       \/ /\ reqs'[r].order \in Orders
          /\ orders[reqs'[r].order].status # "none"
          /\ reqs'[r].step = "close"
    /\ reqs'[r].step \in CreateSteps => reqs[r].step \in CreateSteps
    /\ reqs'[r].step \in DeliverSteps => reqs[r].step \in DeliverSteps

\* The three saves: what becomes of the request's order.
Saves(r) ==
    LET o == reqs[r].order IN
    \/ At(r, "insert") /\ reqs'[r] = Idle /\ orders'[o].status = "pending"
    \/ /\ At(r, "deliver") /\ reqs'[r] = Idle
       /\ orders'[o].status = "delivered" /\ orders'[o].cab = orders[o].cab
    \/ /\ At(r, "close")
       /\ orders'[o].status \in {"completed", "cancelled"}
       /\ orders'[o].cab = orders[o].cab

HandlerEffect(r) ==
    /\ \A s \in Requests \ {r} : reqs'[s] = reqs[s]
    /\ reqs'[r] = Idle \/ GoesOn(r)
    /\ \A o \in Orders \ {reqs[r].order} : orders'[o] = orders[o]
    /\ orders' = orders \/ Saves(r)

\* A step that only moves request r on.
LEMMA MoveEffect ==
    ASSUME TypeOK, NEW r \in Requests, NEW q,
           reqs' = [reqs EXCEPT ![r] = q], UNCHANGED orders,
           q.kind = reqs[r].kind, q.order = reqs[r].order,
           q.step \in CreateSteps => reqs[r].step \in CreateSteps,
           q.step \in DeliverSteps => reqs[r].step \in DeliverSteps
    PROVE  HandlerEffect(r)
<1>1. reqs'[r] = q /\ \A s \in Requests \ {r} : reqs'[s] = reqs[s]
  BY DEF TypeOK
<1> QED
  BY <1>1 DEF HandlerEffect, GoesOn

\* A step that ends request r.
LEMMA RespondEffect ==
    ASSUME TypeOK, NEW r \in Requests, Respond(r),
           \A o \in Orders \ {reqs[r].order} : orders'[o] = orders[o],
           orders' = orders \/ Saves(r)
    PROVE  HandlerEffect(r)
  BY DEF TypeOK, Respond, HandlerEffect

LEMMA FindCabinetEffect ==
    ASSUME TypeOK, NEW r \in Requests, FindCabinet(r)
    PROVE  HandlerEffect(r)
<1>1. ASSUME NEW c \in Cabinets,
             reqs' = [reqs EXCEPT ![r].step = "reserve", ![r].cab = c]
      PROVE  HandlerEffect(r)
  <2>1. PICK q : q = [reqs[r] EXCEPT !.step = "reserve", !.cab = c]
    OBVIOUS
  <2>2. reqs' = [reqs EXCEPT ![r] = q]
    BY <1>1, <2>1, RequestType DEF ReqStates, TypeOK
  <2>3. q.step = "reserve" /\ q.kind = reqs[r].kind /\ q.order = reqs[r].order
    BY <2>1, RequestType DEF ReqStates
  <2> QED
    BY <2>2, <2>3, MoveEffect DEF CreateSteps, DeliverSteps, FindCabinet, At
<1> QED
  BY <1>1, RespondEffect DEF FindCabinet

LEMMA ReserveEffect ==
    ASSUME TypeOK, NEW r \in Requests, Reserve(r)
    PROVE  HandlerEffect(r)
<1>1. PICK q : q = [reqs[r] EXCEPT !.step = "insert"]
  OBVIOUS
<1>2. reqs' = [reqs EXCEPT ![r] = q]
  BY <1>1, RequestType DEF ReqStates, TypeOK, Reserve, Goto
<1>3. q.step = "insert" /\ q.kind = reqs[r].kind /\ q.order = reqs[r].order
  BY <1>1, RequestType DEF ReqStates
<1> QED
  BY <1>2, <1>3, MoveEffect DEF CreateSteps, DeliverSteps, Reserve, At

LEMMA InsertOrderEffect ==
    ASSUME TypeOK, NEW r \in Requests, InsertOrder(r)
    PROVE  HandlerEffect(r)
<1>1. reqs[r].order \in Orders
  BY RequestType DEF InsertOrder, At, Supplied, OrderSteps
<1>2. /\ \A o \in Orders \ {reqs[r].order} : orders'[o] = orders[o]
      /\ orders'[reqs[r].order].status = "pending"
  BY <1>1 DEF InsertOrder, TypeOK
<1>3. Saves(r)
  BY <1>2 DEF InsertOrder, Saves, Respond, TypeOK
<1> QED
  BY <1>2, <1>3, RespondEffect DEF InsertOrder

LEMMA DrawPickupCodeEffect ==
    ASSUME TypeOK, NEW r \in Requests, DrawPickupCode(r)
    PROVE  HandlerEffect(r)
<1>1. PICK otp \in OTPs :
        reqs' = [reqs EXCEPT ![r].step = "deliver", ![r].drawn = otp]
  BY DEF DrawPickupCode, GenerateUniqueOTP
<1>2. PICK q : q = [reqs[r] EXCEPT !.step = "deliver", !.drawn = otp]
  OBVIOUS
<1>3. reqs' = [reqs EXCEPT ![r] = q]
  BY <1>1, <1>2, RequestType DEF ReqStates, TypeOK
<1>4. q.step = "deliver" /\ q.kind = reqs[r].kind /\ q.order = reqs[r].order
  BY <1>2, RequestType DEF ReqStates
<1> QED
  BY <1>3, <1>4, MoveEffect DEF CreateSteps, DeliverSteps, DrawPickupCode, At

LEMMA SaveDeliveryEffect ==
    ASSUME TypeOK, NEW r \in Requests, SaveDelivery(r)
    PROVE  HandlerEffect(r)
<1> DEFINE o == reqs[r].order
<1>1. o \in Orders /\ orders[o] \in OrderDocs
  BY RequestType DEF SaveDelivery, At, Supplied, OrderSteps, TypeOK
<1>2. /\ \A p \in Orders \ {o} : orders'[p] = orders[p]
      /\ orders'[o].status = "delivered"
      /\ orders'[o].cab = orders[o].cab
  BY <1>1 DEF SaveDelivery, TypeOK, OrderDocs
<1>3. Saves(r)
  BY <1>2 DEF SaveDelivery, Saves, Respond, TypeOK
<1> QED
  BY <1>2, <1>3, RespondEffect DEF SaveDelivery

LEMMA CloseOrderEffect ==
    ASSUME TypeOK, NEW r \in Requests, CloseOrder(r)
    PROVE  HandlerEffect(r)
<1> DEFINE o == reqs[r].order
<1>1. o \in Orders /\ orders[o] \in OrderDocs
  BY RequestType DEF CloseOrder, At, Supplied, OrderSteps, TypeOK
<1>2. /\ \A p \in Orders \ {o} : orders'[p] = orders[p]
      /\ orders'[o].status = Final(r)
      /\ orders'[o].cab = orders[o].cab
  BY <1>1 DEF CloseOrder, TypeOK, OrderDocs
<1>3. Saves(r)
  BY <1>2 DEF CloseOrder, Saves, Final
<1>4. ASSUME reqs' = [reqs EXCEPT ![r].step = "loadCabinet",
                                  ![r].cab = orders[o].cab]
      PROVE  HandlerEffect(r)
  <2>1. PICK q : q = [reqs[r] EXCEPT !.step = "loadCabinet",
                                     !.cab = orders[o].cab]
    OBVIOUS
  <2>2. reqs' = [reqs EXCEPT ![r] = q]
    BY <1>4, <2>1, RequestType DEF ReqStates, TypeOK
  <2>3. q.step = "loadCabinet" /\ q.kind = reqs[r].kind /\ q.order = o
    BY <2>1, RequestType DEF ReqStates
  <2>4. reqs'[r] = q /\ \A s \in Requests \ {r} : reqs'[s] = reqs[s]
    BY <2>2 DEF TypeOK
  <2>5. GoesOn(r)
    BY <2>3, <2>4 DEF GoesOn, CreateSteps, DeliverSteps
  <2> QED
    BY <1>2, <1>3, <2>4, <2>5 DEF HandlerEffect
<1> QED
  BY <1>2, <1>3, <1>4, RespondEffect DEF CloseOrder

LEMMA LoadCabinetEffect ==
    ASSUME TypeOK, NEW r \in Requests, LoadCabinet(r)
    PROVE  HandlerEffect(r)
<1>1. PICK q : q = [reqs[r] EXCEPT !.step = "free",
                                   !.holder = cabinets[reqs[r].cab]]
  OBVIOUS
<1>2. reqs' = [reqs EXCEPT ![r] = q]
  BY <1>1, RequestType DEF ReqStates, TypeOK, LoadCabinet
<1>3. q.step = "free" /\ q.kind = reqs[r].kind /\ q.order = reqs[r].order
  BY <1>1, RequestType DEF ReqStates
<1> QED
  BY <1>2, <1>3, MoveEffect DEF CreateSteps, DeliverSteps, LoadCabinet

LEMMA FreeCabinetEffect ==
    ASSUME TypeOK, NEW r \in Requests, FreeCabinet(r)
    PROVE  HandlerEffect(r)
<1>1. ASSUME Goto(r, "findOrder")
      PROVE  HandlerEffect(r)
  <2>1. PICK q : q = [reqs[r] EXCEPT !.step = "findOrder"]
    OBVIOUS
  <2>2. reqs' = [reqs EXCEPT ![r] = q]
    BY <1>1, <2>1, RequestType DEF ReqStates, TypeOK, Goto
  <2>3. q.step = "findOrder" /\ q.kind = reqs[r].kind /\ q.order = reqs[r].order
    BY <2>1, RequestType DEF ReqStates
  <2> QED
    BY <2>2, <2>3, MoveEffect DEF CreateSteps, DeliverSteps, FreeCabinet
<1> QED
  BY <1>1, RespondEffect DEF FreeCabinet

LEMMA FindDeliveredEffect ==
    ASSUME TypeOK, NEW r \in Requests, FindDelivered(r)
    PROVE  HandlerEffect(r)
<1>1. ASSUME NEW o \in Orders, orders[o].status = "delivered",
             reqs' = [reqs EXCEPT ![r].step = "close", ![r].order = o,
                                  ![r].seen = orders[o].code]
      PROVE  HandlerEffect(r)
  <2>1. PICK q : q = [reqs[r] EXCEPT !.step = "close", !.order = o,
                                     !.seen = orders[o].code]
    OBVIOUS
  <2>2. reqs' = [reqs EXCEPT ![r] = q]
    BY <1>1, <2>1, RequestType DEF ReqStates, TypeOK
  <2>3. q.step = "close" /\ q.kind = reqs[r].kind /\ q.order = o
    BY <2>1, RequestType DEF ReqStates
  <2>4. reqs'[r] = q /\ \A s \in Requests \ {r} : reqs'[s] = reqs[s]
    BY <2>2 DEF TypeOK
  <2>5. GoesOn(r)
    BY <1>1, <2>3, <2>4 DEF GoesOn, CreateSteps, DeliverSteps
  <2> QED
    BY <2>4, <2>5 DEF HandlerEffect, FindDelivered
<1> QED
  BY <1>1, RespondEffect DEF FindDelivered

\* A handler touches its own request and its own order, and of the order the
\* cabinet never.
LEMMA HandlerDoes ==
    ASSUME TypeOK, NEW r \in Requests, Handler(r)
    PROVE  HandlerEffect(r)
  BY FindCabinetEffect, ReserveEffect, InsertOrderEffect, DrawPickupCodeEffect,
     SaveDeliveryEffect, CloseOrderEffect, LoadCabinetEffect, FreeCabinetEffect,
     FindDeliveredEffect DEF Handler

\* The same step by step, without EXCEPT: what each database call does to the
\* request, to its order and to its cabinet.
StepsTo(r, from, to) ==
    /\ reqs[r].step = from /\ reqs'[r].step = to
    /\ reqs'[r].kind = reqs[r].kind /\ reqs'[r].order = reqs[r].order

EndsAt(r, from) == reqs[r].step = from /\ reqs'[r] = Idle

SameButOrder(id) ==
    UNCHANGED cabinets /\ \A o \in Orders \ {id} : orders'[o] = orders[o]

SameButCabinet(c) ==
    UNCHANGED orders /\ \A d \in Cabinets \ {c} : cabinets'[d] = cabinets[d]

Finds(r) ==
    /\ UNCHANGED <<orders, cabinets>>
    /\ \/ EndsAt(r, "findCabinet")
       \/ /\ StepsTo(r, "findCabinet", "reserve")
          /\ reqs'[r].cab \in Cabinets /\ cabinets[reqs'[r].cab] = Null

Reserves(r) ==
    /\ StepsTo(r, "reserve", "insert")
    /\ reqs'[r].cab = reqs[r].cab /\ cabinets'[reqs[r].cab] \in Users
    /\ SameButCabinet(reqs[r].cab)

Inserts(r) ==
    /\ EndsAt(r, "insert")
    /\ SameButOrder(reqs[r].order)
    /\ orders'[reqs[r].order].status = "pending"
    /\ orders'[reqs[r].order].cab = reqs[r].cab

Draws(r) ==
    StepsTo(r, "newCode", "deliver") /\ UNCHANGED <<orders, cabinets>>

Delivers(r) ==
    /\ EndsAt(r, "deliver")
    /\ SameButOrder(reqs[r].order)
    /\ orders'[reqs[r].order].status = "delivered"
    /\ orders'[reqs[r].order].cab = orders[reqs[r].order].cab

Closes(r) ==
    /\ SameButOrder(reqs[r].order)
    /\ orders'[reqs[r].order].status = Final(r)
    /\ orders'[reqs[r].order].cab = orders[reqs[r].order].cab
    /\ \/ EndsAt(r, "close") /\ reqs[r].kind = "sync"
       \/ /\ StepsTo(r, "close", "loadCabinet")
          /\ reqs'[r].cab = orders[reqs[r].order].cab

Loads(r) ==
    /\ StepsTo(r, "loadCabinet", "free") /\ reqs'[r].cab = reqs[r].cab
    /\ UNCHANGED <<orders, cabinets>>

Frees(r) ==
    /\ SameButCabinet(reqs[r].cab)
    /\ cabinets'[reqs[r].cab] \in {Null, cabinets[reqs[r].cab]}
    /\ \/ EndsAt(r, "free") /\ reqs[r].kind # "sync"
       \/ StepsTo(r, "free", "findOrder") /\ reqs[r].kind = "sync"

Searches(r) ==
    /\ UNCHANGED <<orders, cabinets>>
    /\ \/ EndsAt(r, "findOrder")
       \/ /\ reqs[r].step = "findOrder" /\ reqs'[r].step = "close"
          /\ reqs'[r].kind = reqs[r].kind
          /\ reqs'[r].order \in Orders
          /\ orders[reqs'[r].order].status = "delivered"

HandlerStep(r) ==
    /\ \A s \in Requests \ {r} : reqs'[s] = reqs[s]
    /\ \/ Finds(r) \/ Reserves(r) \/ Inserts(r) \/ Draws(r) \/ Delivers(r)
       \/ Closes(r) \/ Loads(r) \/ Frees(r) \/ Searches(r)

\* A request that is moved on, or ended.
LEMMA MovedRequest ==
    ASSUME TypeOK, NEW r \in Requests, NEW q, reqs' = [reqs EXCEPT ![r] = q]
    PROVE  reqs'[r] = q /\ \A s \in Requests \ {r} : reqs'[s] = reqs[s]
  BY DEF TypeOK

LEMMA CreationSteps ==
    ASSUME TypeOK, NEW r \in Requests
    PROVE  /\ FindCabinet(r) => HandlerStep(r)
           /\ Reserve(r) => HandlerStep(r)
           /\ InsertOrder(r) => HandlerStep(r)
<1>1. reqs[r] \in ReqStates /\ Supplied(reqs[r])
  BY RequestType
<1>2. ASSUME FindCabinet(r) PROVE HandlerStep(r)
  <2>1. CASE Respond(r)
    BY <1>2, <2>1, MovedRequest
       DEF FindCabinet, Respond, At, HandlerStep, Finds, EndsAt
  <2>2. ASSUME NEW c \in Cabinets, cabinets[c] = Null,
               reqs' = [reqs EXCEPT ![r].step = "reserve", ![r].cab = c]
        PROVE  HandlerStep(r)
    <3>1. /\ reqs'[r] = [reqs[r] EXCEPT !.step = "reserve", !.cab = c]
          /\ \A s \in Requests \ {r} : reqs'[s] = reqs[s]
      BY <2>2, <1>1 DEF TypeOK, ReqStates
    <3>2. /\ reqs'[r].step = "reserve" /\ reqs'[r].cab = c
          /\ reqs'[r].kind = reqs[r].kind /\ reqs'[r].order = reqs[r].order
      BY <1>1, <3>1 DEF ReqStates
    <3>3. QED
      BY <1>2, <2>2, <3>1, <3>2
         DEF FindCabinet, At, HandlerStep, Finds, StepsTo
  <2>3. QED
    BY <1>2, <2>1, <2>2 DEF FindCabinet
<1>3. ASSUME Reserve(r) PROVE HandlerStep(r)
  <2>1. /\ reqs'[r] = [reqs[r] EXCEPT !.step = "insert"]
        /\ \A s \in Requests \ {r} : reqs'[s] = reqs[s]
    BY <1>3 DEF Reserve, Goto, TypeOK
  <2>2. /\ reqs'[r].step = "insert" /\ reqs'[r].cab = reqs[r].cab
        /\ reqs'[r].kind = reqs[r].kind /\ reqs'[r].order = reqs[r].order
    BY <1>1, <2>1 DEF ReqStates
  <2>3. reqs[r].cab \in Cabinets /\ reqs[r].user \in Users
    BY <1>1, <1>3 DEF Reserve, At, Supplied, CabinetSteps
  <2>4. /\ cabinets'[reqs[r].cab] \in Users
        /\ SameButCabinet(reqs[r].cab)
    BY <1>3, <2>3 DEF Reserve, TypeOK, SameButCabinet
  <2>5. QED
    BY <1>3, <2>1, <2>2, <2>4 DEF Reserve, At, HandlerStep, Reserves, StepsTo
<1>4. ASSUME InsertOrder(r) PROVE HandlerStep(r)
  <2>1. reqs[r].order \in Orders
    BY <1>1, <1>4 DEF InsertOrder, At, Supplied, OrderSteps
  <2>2. /\ orders'[reqs[r].order].status = "pending"
        /\ orders'[reqs[r].order].cab = reqs[r].cab
        /\ SameButOrder(reqs[r].order)
    BY <1>4, <2>1 DEF InsertOrder, TypeOK, SameButOrder
  <2>3. QED
    BY <1>4, <2>2, MovedRequest
       DEF InsertOrder, Respond, At, HandlerStep, Inserts, EndsAt
<1> QED
  BY <1>2, <1>3, <1>4

LEMMA DeliverySteps ==
    ASSUME TypeOK, NEW r \in Requests
    PROVE  /\ DrawPickupCode(r) => HandlerStep(r)
           /\ SaveDelivery(r) => HandlerStep(r)
<1>1. reqs[r] \in ReqStates /\ Supplied(reqs[r])
  BY RequestType
<1>2. ASSUME DrawPickupCode(r) PROVE HandlerStep(r)
  <2>1. PICK otp : reqs' = [reqs EXCEPT ![r].step = "deliver", ![r].drawn = otp]
    BY <1>2 DEF DrawPickupCode
  <2>2. /\ reqs'[r] = [reqs[r] EXCEPT !.step = "deliver", !.drawn = otp]
        /\ \A s \in Requests \ {r} : reqs'[s] = reqs[s]
    BY <2>1, <1>1 DEF TypeOK, ReqStates
  <2>3. /\ reqs'[r].step = "deliver"
        /\ reqs'[r].kind = reqs[r].kind /\ reqs'[r].order = reqs[r].order
    BY <1>1, <2>2 DEF ReqStates
  <2>4. QED
    BY <1>2, <2>2, <2>3 DEF DrawPickupCode, At, HandlerStep, Draws, StepsTo
<1>3. ASSUME SaveDelivery(r) PROVE HandlerStep(r)
  <2>1. PICK o \in Orders : o = reqs[r].order /\ orders[o] \in OrderDocs
    BY <1>1, <1>3 DEF SaveDelivery, At, Supplied, OrderSteps, TypeOK
  <2>2. /\ orders'[o].status = "delivered" /\ orders'[o].cab = orders[o].cab
        /\ SameButOrder(o)
    BY <1>3, <2>1 DEF SaveDelivery, TypeOK, OrderDocs, SameButOrder
  <2>3. QED
    BY <1>3, <2>1, <2>2, MovedRequest
       DEF SaveDelivery, Respond, At, HandlerStep, Delivers, EndsAt
<1> QED
  BY <1>2, <1>3

LEMMA ClosingSteps ==
    ASSUME TypeOK, NEW r \in Requests
    PROVE  /\ CloseOrder(r) => HandlerStep(r)
           /\ LoadCabinet(r) => HandlerStep(r)
<1>1. reqs[r] \in ReqStates /\ Supplied(reqs[r])
  BY RequestType
<1>2. ASSUME CloseOrder(r) PROVE HandlerStep(r)
  <2>1. PICK o \in Orders : o = reqs[r].order /\ orders[o] \in OrderDocs
    BY <1>1, <1>2 DEF CloseOrder, At, Supplied, OrderSteps, TypeOK
  <2>2. /\ orders'[o].status = Final(r) /\ orders'[o].cab = orders[o].cab
        /\ SameButOrder(o)
    BY <1>2, <2>1 DEF CloseOrder, TypeOK, OrderDocs, SameButOrder
  <2>3. CASE Respond(r) /\ reqs[r].kind = "sync"
    BY <1>2, <2>1, <2>2, <2>3, MovedRequest
       DEF CloseOrder, Respond, At, HandlerStep, Closes, EndsAt
  <2>4. CASE reqs' = [reqs EXCEPT ![r].step = "loadCabinet",
                                  ![r].cab = orders[o].cab]
    <3>1. /\ reqs'[r] = [reqs[r] EXCEPT !.step = "loadCabinet",
                                        !.cab = orders[o].cab]
          /\ \A s \in Requests \ {r} : reqs'[s] = reqs[s]
      BY <2>4, <1>1 DEF TypeOK, ReqStates
    <3>2. /\ reqs'[r].step = "loadCabinet" /\ reqs'[r].cab = orders[o].cab
          /\ reqs'[r].kind = reqs[r].kind /\ reqs'[r].order = reqs[r].order
      BY <1>1, <3>1 DEF ReqStates
    <3>3. QED
      BY <1>2, <2>1, <2>2, <3>1, <3>2
         DEF CloseOrder, At, HandlerStep, Closes, StepsTo
  <2>5. QED
    BY <1>2, <2>1, <2>3, <2>4 DEF CloseOrder
<1>3. ASSUME LoadCabinet(r) PROVE HandlerStep(r)
  <2>1. /\ reqs'[r] = [reqs[r] EXCEPT !.step = "free",
                                      !.holder = cabinets[reqs[r].cab]]
        /\ \A s \in Requests \ {r} : reqs'[s] = reqs[s]
    BY <1>3, <1>1 DEF LoadCabinet, TypeOK, ReqStates
  <2>2. /\ reqs'[r].step = "free" /\ reqs'[r].cab = reqs[r].cab
        /\ reqs'[r].kind = reqs[r].kind /\ reqs'[r].order = reqs[r].order
    BY <1>1, <2>1 DEF ReqStates
  <2>3. QED
    BY <1>3, <2>1, <2>2 DEF LoadCabinet, At, HandlerStep, Loads, StepsTo
<1> QED
  BY <1>2, <1>3

LEMMA ReleasingSteps ==
    ASSUME TypeOK, NEW r \in Requests
    PROVE  /\ FreeCabinet(r) => HandlerStep(r)
           /\ FindDelivered(r) => HandlerStep(r)
<1>1. reqs[r] \in ReqStates /\ Supplied(reqs[r])
  BY RequestType
<1>2. ASSUME FreeCabinet(r) PROVE HandlerStep(r)
  <2>1. reqs[r].cab \in Cabinets
    BY <1>1, <1>2 DEF FreeCabinet, At, Supplied, CabinetSteps
  <2>2. /\ cabinets'[reqs[r].cab] \in {Null, cabinets[reqs[r].cab]}
        /\ SameButCabinet(reqs[r].cab)
    BY <1>2, <2>1 DEF FreeCabinet, TypeOK, Dirty, SameButCabinet
  <2>3. CASE Respond(r) /\ reqs[r].kind # "sync"
    BY <1>2, <2>2, <2>3, MovedRequest
       DEF FreeCabinet, Respond, At, HandlerStep, Frees, EndsAt
  <2>4. CASE Goto(r, "findOrder") /\ reqs[r].kind = "sync"
    <3>1. /\ reqs'[r] = [reqs[r] EXCEPT !.step = "findOrder"]
          /\ \A s \in Requests \ {r} : reqs'[s] = reqs[s]
      BY <2>4 DEF Goto, TypeOK
    <3>2. /\ reqs'[r].step = "findOrder"
          /\ reqs'[r].kind = reqs[r].kind /\ reqs'[r].order = reqs[r].order
      BY <1>1, <3>1 DEF ReqStates
    <3>3. QED
      BY <1>2, <2>2, <2>4, <3>1, <3>2
         DEF FreeCabinet, At, HandlerStep, Frees, StepsTo
  <2>5. QED
    BY <1>2, <2>3, <2>4 DEF FreeCabinet
<1>3. ASSUME FindDelivered(r) PROVE HandlerStep(r)
  <2>1. CASE Respond(r)
    BY <1>3, <2>1, MovedRequest
       DEF FindDelivered, Respond, At, HandlerStep, Searches, EndsAt
  <2>2. ASSUME NEW o \in Orders, orders[o].status = "delivered",
               reqs' = [reqs EXCEPT ![r].step = "close", ![r].order = o,
                                    ![r].seen = orders[o].code]
        PROVE  HandlerStep(r)
    <3>1. /\ reqs'[r] = [reqs[r] EXCEPT !.step = "close", !.order = o,
                                        !.seen = orders[o].code]
          /\ \A s \in Requests \ {r} : reqs'[s] = reqs[s]
      BY <2>2, <1>1 DEF TypeOK, ReqStates
    <3>2. /\ reqs'[r].step = "close" /\ reqs'[r].order = o
          /\ reqs'[r].kind = reqs[r].kind
      BY <1>1, <3>1 DEF ReqStates
    <3>3. QED
      BY <1>3, <2>2, <3>1, <3>2 DEF FindDelivered, At, HandlerStep, Searches
  <2>3. QED
    BY <1>3, <2>1, <2>2 DEF FindDelivered
<1> QED
  BY <1>2, <1>3

LEMMA HandlerSteps ==
    ASSUME TypeOK, NEW r \in Requests, Handler(r)
    PROVE  HandlerStep(r)
  BY CreationSteps, DeliverySteps, ClosingSteps, ReleasingSteps DEF Handler

-----------------------------------------------------------------------------
(* No leaked reservation *)

\* The order id of a creation in progress is its own and not in use.
CreationsFresh ==
    \A r \in Requests :
        reqs[r].step \in {"findCabinet", "reserve", "insert"} =>
            /\ orders[reqs[r].order].status = "none"
            /\ \A s \in Requests \ {r} : reqs[s].order # reqs[r].order

NoSync == \A r \in Requests : reqs[r].kind # "sync"

\* The station never reports an offline pickup and the database never fails:
\* the two ways in which the code does leak a reservation, or frees one early.
OnlineAndUp == "sync" \notin Workload /\ DbMayFail = FALSE

ReservationInv == TypeOK /\ CreationsFresh /\ NoSync /\ NoLeakedReservation

LEMMA InitReservation == Init => ReservationInv
<1> SUFFICES ASSUME Init PROVE ReservationInv
  OBVIOUS
<1>1. TypeOK
  BY InitType
<1>2. CreationsFresh /\ NoSync /\ NoLeakedReservation
  BY ServerAssumption
     DEF Init, Idle, CreationsFresh, NoSync, NoLeakedReservation, Kinds
<1> QED
  BY <1>1, <1>2 DEF ReservationInv

\* A step that leaves the cabinets alone, keeps the open orders open and takes
\* from no request the task to insert an order or to release a cabinet.
LEMMA KeepReservations ==
    ASSUME TypeOK, NoLeakedReservation, NEW r \in Requests, NEW q,
           reqs' = [reqs EXCEPT ![r] = q], UNCHANGED cabinets,
           \A o \in Orders : Active(o) =>
                Active(o)' /\ orders'[o].cab = orders[o].cab,
           \A c \in Cabinets :
                cabinets[c] # Null /\ (Booking(r, c) \/ Releasing(r, c)) =>
                (Booking(r, c) \/ Releasing(r, c))'
    PROVE  NoLeakedReservation'
<1> SUFFICES ASSUME NEW c \in Cabinets, cabinets'[c] # Null
             PROVE  \/ \E o \in Orders : Active(o)' /\ orders'[o].cab = c
                    \/ \E s \in Requests : (Booking(s, c) \/ Releasing(s, c))'
  BY DEF NoLeakedReservation
<1>1. CASE \E o \in Orders : Active(o) /\ orders[o].cab = c
  BY <1>1
<1>2. CASE \E s \in Requests : Booking(s, c) \/ Releasing(s, c)
  <2>1. PICK s \in Requests : Booking(s, c) \/ Releasing(s, c)
    BY <1>2
  <2>2. CASE s = r
    BY <2>1, <2>2
  <2>3. CASE s # r
    <3>1. reqs'[s] = reqs[s]
      BY <2>3 DEF TypeOK
    <3> QED
      BY <2>1, <3>1 DEF Booking, Releasing, At
  <2> QED
    BY <2>2, <2>3
<1> QED
  BY <1>1, <1>2 DEF NoLeakedReservation

\* A new request is no sync and works on a fresh order id or a stored order.
LEMMA ArrivalRequest ==
    ASSUME TypeOK, "sync" \notin Workload, NEW r \in Requests, Arrival(r)
    PROVE  \E q : /\ reqs' = [reqs EXCEPT ![r] = q]
                  /\ UNCHANGED <<orders, cabinets>>
                  /\ reqs[r].step = "idle"
                  /\ q.kind # "sync"
                  /\ \/ q.step = "findCabinet" /\ q.order \in FreshIds
                     \/ /\ q.step \in {"newCode", "close"}
                        /\ q.order \in Orders
                        /\ orders[q.order].status # "none"
<1>1. ASSUME NEW u \in Users, CreateOrder(r, u)
      PROVE  \E q : /\ reqs' = [reqs EXCEPT ![r] = q]
                    /\ UNCHANGED <<orders, cabinets>>
                    /\ reqs[r].step = "idle"
                    /\ q.kind # "sync"
                    /\ q.step = "findCabinet" /\ q.order \in FreshIds
  <2>1. PICK otp \in OTPs, o \in FreshIds :
          Begin(r, "create", [Idle EXCEPT !.step = "findCabinet", !.user = u,
                                          !.order = o, !.drawn = otp])
    BY <1>1 DEF CreateOrder, GenerateUniqueOTP
  <2>2. PICK q : q = [Idle EXCEPT !.step = "findCabinet", !.user = u,
                                  !.order = o, !.drawn = otp, !.kind = "create"]
    OBVIOUS
  <2>3. q.kind # "sync" /\ q.step = "findCabinet" /\ q.order \in FreshIds
    BY <2>2 DEF Idle
  <2>4. reqs' = [reqs EXCEPT ![r] = q]
    BY <2>1, <2>2 DEF Begin, Idle
  <2> QED
    BY <2>1, <2>3, <2>4 DEF Begin
<1>2. ASSUME NEW o \in Orders, NEW k \in Kinds, Begin(r, k, Loaded(o)),
             orders[o].status # "none"
      PROVE  \E q : /\ reqs' = [reqs EXCEPT ![r] = q]
                    /\ UNCHANGED <<orders, cabinets>>
                    /\ reqs[r].step = "idle"
                    /\ q.kind # "sync"
                    /\ q.step = "close"
                    /\ q.order \in Orders
                    /\ orders[q.order].status # "none"
  <2>1. PICK q : q = [Loaded(o) EXCEPT !.kind = k]
    OBVIOUS
  <2>2. q.kind # "sync" /\ q.step = "close" /\ q.order = o
    BY <1>2, <2>1 DEF Begin, Loaded, Idle
  <2>3. reqs' = [reqs EXCEPT ![r] = q]
    BY <1>2, <2>1 DEF Begin
  <2> QED
    BY <1>2, <2>2, <2>3 DEF Begin
<1>3. ASSUME NEW code \in OTPs, VerifyDelivery(r, code)
      PROVE  \E q : /\ reqs' = [reqs EXCEPT ![r] = q]
                    /\ UNCHANGED <<orders, cabinets>>
                    /\ reqs[r].step = "idle"
                    /\ q.kind # "sync"
                    /\ q.step = "newCode"
                    /\ q.order \in Orders
                    /\ orders[q.order].status # "none"
  <2>1. PICK o \in Orders :
          /\ orders[o].status = "pending"
          /\ Begin(r, "deliver", [Idle EXCEPT !.step = "newCode", !.order = o,
                                              !.seen = code])
    BY <1>3 DEF VerifyDelivery
  <2>2. PICK q : q = [Idle EXCEPT !.step = "newCode", !.order = o,
                                  !.seen = code, !.kind = "deliver"]
    OBVIOUS
  <2>3. q.kind # "sync" /\ q.step = "newCode" /\ q.order = o
    BY <2>2 DEF Idle
  <2>4. reqs' = [reqs EXCEPT ![r] = q]
    BY <2>1, <2>2 DEF Begin, Idle
  <2> QED
    BY <2>1, <2>3, <2>4 DEF Begin
<1>4. ASSUME NEW c \in Cabinets, SyncFromEsp(r, c)
      PROVE  FALSE
  BY <1>4 DEF SyncFromEsp, Begin
<1>5. CASE \E u \in Users : CreateOrder(r, u)
  BY <1>1, <1>5
<1>6. CASE \E code \in OTPs : VerifyDelivery(r, code)
  BY <1>3, <1>6
<1>7. CASE \/ \E code \in OTPs : VerifyPickup(r, code)
           \/ \E o \in Orders : Pickup(r, o) \/ CancelOrder(r, o)
  <2>1. \E o \in Orders, k \in Kinds :
            Begin(r, k, Loaded(o)) /\ orders[o].status # "none"
    BY <1>7 DEF VerifyPickup, Pickup, CancelOrder, Kinds
  <2> QED
    BY <1>2, <2>1
<1> QED
  BY <1>4, <1>5, <1>6, <1>7 DEF Arrival

LEMMA ArrivalReservation ==
    ASSUME ReservationInv, OnlineAndUp, NEW r \in Requests, Arrival(r)
    PROVE  CreationsFresh' /\ NoSync' /\ NoLeakedReservation'
<1> USE DEF ReservationInv
<1>1. PICK q : /\ reqs' = [reqs EXCEPT ![r] = q]
               /\ UNCHANGED <<orders, cabinets>>
               /\ reqs[r].step = "idle"
               /\ q.kind # "sync"
               /\ \/ q.step = "findCabinet" /\ q.order \in FreshIds
                  \/ /\ q.step \in {"newCode", "close"}
                     /\ q.order \in Orders
                     /\ orders[q.order].status # "none"
  BY ArrivalRequest DEF OnlineAndUp
<1>2. /\ reqs'[r] = q
      /\ \A s \in Requests \ {r} : reqs'[s] = reqs[s]
  BY <1>1 DEF TypeOK
<1>3. CreationsFresh'
  BY <1>1, <1>2 DEF CreationsFresh, FreshIds
<1>4. NoSync'
  BY <1>1, <1>2 DEF NoSync
<1>5. NoLeakedReservation'
  BY <1>1, KeepReservations DEF Active, Booking, Releasing, At
<1> QED
  BY <1>3, <1>4, <1>5

\* A step that changes at most the order of its own request, and goes on with
\* that order, none, or a stored one.
LEMMA HandlerFresh ==
    ASSUME TypeOK, CreationsFresh, NoSync, NEW r \in Requests, NEW q,
           reqs' = [reqs EXCEPT ![r] = q],
           q.kind # "sync",
           \A o \in Orders : o # reqs[r].order => orders'[o] = orders[o],
           \/ q.order \in {reqs[r].order, Null}
           \/ q.order \in Orders /\ orders[q.order].status # "none",
           q.step \in CreateSteps =>
               /\ reqs[r].step \in CreateSteps
               /\ q.order = reqs[r].order
               /\ orders' = orders
    PROVE  CreationsFresh' /\ NoSync'
<1>1. /\ reqs'[r] = q
      /\ \A s \in Requests \ {r} : reqs'[s] = reqs[s]
  BY DEF TypeOK
<1>2. NoSync'
  BY <1>1 DEF NoSync
<1>3. ASSUME NEW s \in Requests, reqs'[s].step \in CreateSteps
      PROVE  /\ orders'[reqs'[s].order].status = "none"
             /\ \A t \in Requests \ {s} : reqs'[t].order # reqs'[s].order
  <2>1. CASE s = r
    BY <1>1, <1>3, <2>1 DEF CreationsFresh, CreateSteps
  <2>2. CASE s # r
    <3>1. reqs[s].order \in Orders /\ reqs[s].order # Null
      BY <1>1, <1>3, <2>2, RequestType, ServerAssumption
         DEF CreateSteps, Supplied, OrderSteps
    <3>2. /\ orders[reqs[s].order].status = "none"
          /\ \A t \in Requests \ {s} : reqs[t].order # reqs[s].order
      BY <1>1, <1>3, <2>2 DEF CreationsFresh, CreateSteps
    <3>3. q.order # reqs[s].order
      BY <2>2, <3>1, <3>2
    <3> QED
      BY <1>1, <2>2, <3>1, <3>2, <3>3
  <2> QED
    BY <2>1, <2>2
<1>4. CreationsFresh'
  BY <1>3 DEF CreationsFresh, CreateSteps
<1> QED
  BY <1>2, <1>4

LEMMA RespondFresh ==
    ASSUME TypeOK, CreationsFresh, NoSync, NEW r \in Requests, Respond(r),
           \A o \in Orders : o # reqs[r].order => orders'[o] = orders[o]
    PROVE  CreationsFresh' /\ NoSync'
<1>1. /\ Idle.kind # "sync" /\ Idle.order = Null
      /\ Idle.step \notin CreateSteps
  BY ServerAssumption DEF Idle, CreateSteps, Kinds
<1>2. PICK q : q = Idle
  OBVIOUS
<1>3. reqs' = [reqs EXCEPT ![r] = q]
  BY <1>2 DEF Respond
<1> QED
  BY <1>1, <1>2, <1>3, HandlerFresh

LEMMA FindCabinetReservation ==
    ASSUME ReservationInv, NEW r \in Requests, FindCabinet(r)
    PROVE  CreationsFresh' /\ NoSync' /\ NoLeakedReservation'
<1> USE DEF ReservationInv
<1>1. ASSUME NEW c \in Cabinets,
             reqs' = [reqs EXCEPT ![r].step = "reserve", ![r].cab = c]
      PROVE  CreationsFresh' /\ NoSync' /\ NoLeakedReservation'
  <2>1. PICK q : q = [reqs[r] EXCEPT !.step = "reserve", !.cab = c]
    OBVIOUS
  <2>2. reqs' = [reqs EXCEPT ![r] = q]
    BY <1>1, <2>1, RequestType DEF ReqStates, TypeOK
  <2>3. q.kind # "sync" /\ q.order = reqs[r].order
    BY <2>1, RequestType DEF NoSync, ReqStates
  <2>4. CreationsFresh' /\ NoSync'
    BY <2>2, <2>3, HandlerFresh DEF FindCabinet, At, CreateSteps
  <2>5. NoLeakedReservation'
    BY <2>2, KeepReservations DEF FindCabinet, At, Active, Booking, Releasing
  <2> QED
    BY <2>4, <2>5
<1>2. ASSUME Respond(r)
      PROVE  CreationsFresh' /\ NoSync' /\ NoLeakedReservation'
  <2>1. CreationsFresh' /\ NoSync'
    BY <1>2, RespondFresh DEF FindCabinet
  <2>2. NoLeakedReservation'
    BY <1>2, KeepReservations
       DEF Respond, FindCabinet, At, Active, Booking, Releasing
  <2> QED
    BY <2>1, <2>2
<1> QED
  BY <1>1, <1>2 DEF FindCabinet

LEMMA ReserveReservation ==
    ASSUME ReservationInv, NEW r \in Requests, Reserve(r)
    PROVE  CreationsFresh' /\ NoSync' /\ NoLeakedReservation'
<1> USE DEF ReservationInv
<1>1. PICK q : q = [reqs[r] EXCEPT !.step = "insert"]
  OBVIOUS
<1>2. reqs' = [reqs EXCEPT ![r] = q]
  BY <1>1, RequestType DEF ReqStates, TypeOK, Reserve, Goto
<1>3. /\ q.kind # "sync" /\ q.order = reqs[r].order
      /\ q.step = "insert" /\ q.cab = reqs[r].cab
  BY <1>1, RequestType DEF NoSync, ReqStates
<1>4. CreationsFresh' /\ NoSync'
  BY <1>2, <1>3, HandlerFresh DEF Reserve, At, CreateSteps
<1>5. /\ reqs'[r] = q
      /\ \A s \in Requests \ {r} : reqs'[s] = reqs[s]
  BY <1>2 DEF TypeOK
<1>6. ASSUME NEW c \in Cabinets, cabinets'[c] # Null
      PROVE  \/ \E o \in Orders : Active(o)' /\ orders'[o].cab = c
             \/ \E s \in Requests : (Booking(s, c) \/ Releasing(s, c))'
  <2>1. CASE c = reqs[r].cab
    BY <1>3, <1>5, <2>1 DEF Booking, At
  <2>2. CASE c # reqs[r].cab
    <3>1. cabinets[c] # Null
      BY <1>6, <2>2 DEF Reserve, TypeOK
    <3>2. CASE \E o \in Orders : Active(o) /\ orders[o].cab = c
      BY <3>2 DEF Reserve, Active
    <3>3. CASE \E s \in Requests : Booking(s, c) \/ Releasing(s, c)
      <4>1. PICK s \in Requests : Booking(s, c) \/ Releasing(s, c)
        BY <3>3
      <4>2. reqs'[s] = reqs[s]
        BY <1>5, <2>2, <4>1 DEF Booking, Releasing
      <4> QED
        BY <4>1, <4>2 DEF Booking, Releasing, At
    <3> QED
      BY <3>1, <3>2, <3>3 DEF NoLeakedReservation
  <2> QED
    BY <2>1, <2>2
<1> QED
  BY <1>4, <1>6 DEF NoLeakedReservation

LEMMA InsertOrderReservation ==
    ASSUME ReservationInv, NEW r \in Requests, InsertOrder(r)
    PROVE  CreationsFresh' /\ NoSync' /\ NoLeakedReservation'
<1> USE DEF ReservationInv
<1>0. PICK id : id = reqs[r].order
  OBVIOUS
<1>1. id \in Orders /\ reqs[r].cab \in Cabinets /\ orders[id].status = "none"
  BY <1>0, RequestType
     DEF InsertOrder, At, Supplied, OrderSteps, CabinetSteps, CreationsFresh
<1>2. /\ Active(id)' /\ orders'[id].cab = reqs[r].cab
      /\ \A o \in Orders \ {id} : orders'[o] = orders[o]
  <2>1. PICK doc : doc = [user |-> reqs[r].user, cab |-> reqs[r].cab,
                          status |-> "pending", code |-> reqs[r].drawn,
                          expired |-> FALSE]
    OBVIOUS
  <2>2. orders' = [orders EXCEPT ![id] = doc]
    BY <1>0, <2>1 DEF InsertOrder
  <2>3. doc.status = "pending" /\ doc.cab = reqs[r].cab
    BY <2>1
  <2> QED
    BY <1>1, <2>2, <2>3 DEF TypeOK, Active
<1>3. CreationsFresh' /\ NoSync'
  BY <1>0, <1>2, RespondFresh DEF InsertOrder
<1>4. \A s \in Requests \ {r} : reqs'[s] = reqs[s]
  BY DEF InsertOrder, Respond, TypeOK
<1>5. ASSUME NEW c \in Cabinets, cabinets'[c] # Null
      PROVE  \/ \E o \in Orders : Active(o)' /\ orders'[o].cab = c
             \/ \E s \in Requests : (Booking(s, c) \/ Releasing(s, c))'
  <2>1. cabinets[c] # Null
    BY <1>5 DEF InsertOrder
  <2>2. CASE \E o \in Orders : Active(o) /\ orders[o].cab = c
    BY <1>1, <1>2, <2>2 DEF Active
  <2>3. CASE \E s \in Requests : Booking(s, c) \/ Releasing(s, c)
    <3>1. PICK s \in Requests : Booking(s, c) \/ Releasing(s, c)
      BY <2>3
    <3>2. CASE s = r
      <4>1. c = reqs[r].cab
        BY <3>1, <3>2 DEF Booking, Releasing
      <4> QED
        BY <1>1, <1>2, <4>1
    <3>3. CASE s # r
      BY <1>4, <3>1, <3>3 DEF Booking, Releasing, At
    <3> QED
      BY <3>2, <3>3
  <2> QED
    BY <2>1, <2>2, <2>3 DEF NoLeakedReservation
<1> QED
  BY <1>3, <1>5 DEF NoLeakedReservation

LEMMA DrawPickupCodeReservation ==
    ASSUME ReservationInv, NEW r \in Requests, DrawPickupCode(r)
    PROVE  CreationsFresh' /\ NoSync' /\ NoLeakedReservation'
<1> USE DEF ReservationInv
<1>1. PICK otp : reqs' = [reqs EXCEPT ![r].step = "deliver", ![r].drawn = otp]
  BY DEF DrawPickupCode
<1>2. PICK q : q = [reqs[r] EXCEPT !.step = "deliver", !.drawn = otp]
  OBVIOUS
<1>3. reqs' = [reqs EXCEPT ![r] = q]
  BY <1>1, <1>2, RequestType DEF ReqStates, TypeOK
<1>4. q.kind # "sync" /\ q.order = reqs[r].order /\ q.step = "deliver"
  BY <1>2, RequestType DEF NoSync, ReqStates
<1>5. CreationsFresh' /\ NoSync'
  BY <1>3, <1>4, HandlerFresh DEF DrawPickupCode, CreateSteps
<1>6. NoLeakedReservation'
  BY <1>3, KeepReservations DEF DrawPickupCode, At, Active, Booking, Releasing
<1> QED
  BY <1>5, <1>6

LEMMA SaveDeliveryReservation ==
    ASSUME ReservationInv, NEW r \in Requests, SaveDelivery(r)
    PROVE  CreationsFresh' /\ NoSync' /\ NoLeakedReservation'
<1> USE DEF ReservationInv
<1> DEFINE id == reqs[r].order
<1>1. id \in Orders
  BY RequestType DEF SaveDelivery, At, Supplied, OrderSteps
<1>2. /\ orders'[id].status = "delivered" /\ orders'[id].cab = orders[id].cab
      /\ \A o \in Orders \ {id} : orders'[o] = orders[o]
  BY <1>1 DEF SaveDelivery, TypeOK, OrderDocs
<1>3. CreationsFresh' /\ NoSync'
  BY <1>2, RespondFresh DEF SaveDelivery
<1>4. NoLeakedReservation'
  BY <1>2, KeepReservations
     DEF SaveDelivery, Respond, At, Active, Booking, Releasing
<1> QED
  BY <1>3, <1>4

LEMMA CloseOrderReservation ==
    ASSUME ReservationInv, NEW r \in Requests, CloseOrder(r)
    PROVE  CreationsFresh' /\ NoSync' /\ NoLeakedReservation'
<1> USE DEF ReservationInv
<1> DEFINE id == reqs[r].order
<1>1. id \in Orders
  BY RequestType DEF CloseOrder, At, Supplied, OrderSteps
<1>2. \A o \in Orders \ {id} : orders'[o] = orders[o]
  BY DEF CloseOrder, TypeOK
<1>3. PICK q : q = [reqs[r] EXCEPT !.step = "loadCabinet",
                                   !.cab = orders[id].cab]
  OBVIOUS
<1>4. reqs' = [reqs EXCEPT ![r] = q]
  BY <1>3, RequestType DEF ReqStates, TypeOK, CloseOrder, NoSync
<1>5. /\ q.kind # "sync" /\ q.order = reqs[r].order
      /\ q.step = "loadCabinet" /\ q.cab = orders[id].cab
  BY <1>3, RequestType DEF NoSync, ReqStates
<1>6. CreationsFresh' /\ NoSync'
  BY <1>2, <1>4, <1>5, HandlerFresh DEF CreateSteps
<1>7. /\ reqs'[r] = q
      /\ \A s \in Requests \ {r} : reqs'[s] = reqs[s]
  BY <1>4 DEF TypeOK
<1>8. ASSUME NEW c \in Cabinets, cabinets'[c] # Null
      PROVE  \/ \E o \in Orders : Active(o)' /\ orders'[o].cab = c
             \/ \E s \in Requests : (Booking(s, c) \/ Releasing(s, c))'
  <2>1. CASE c = orders[id].cab
    BY <1>5, <1>7, <2>1 DEF Releasing, At
  <2>2. CASE c # orders[id].cab
    <3>1. cabinets[c] # Null
      BY <1>8 DEF CloseOrder
    <3>2. CASE \E o \in Orders : Active(o) /\ orders[o].cab = c
      BY <1>2, <2>2, <3>2 DEF Active
    <3>3. CASE \E s \in Requests : Booking(s, c) \/ Releasing(s, c)
      <4>1. PICK s \in Requests : Booking(s, c) \/ Releasing(s, c)
        BY <3>3
      <4>2. s # r
        BY <4>1 DEF CloseOrder, Booking, Releasing, At
      <4> QED
        BY <1>7, <4>1, <4>2 DEF Booking, Releasing, At
    <3> QED
      BY <3>1, <3>2, <3>3 DEF NoLeakedReservation
  <2> QED
    BY <2>1, <2>2
<1> QED
  BY <1>6, <1>8 DEF NoLeakedReservation

LEMMA LoadCabinetReservation ==
    ASSUME ReservationInv, NEW r \in Requests, LoadCabinet(r)
    PROVE  CreationsFresh' /\ NoSync' /\ NoLeakedReservation'
<1> USE DEF ReservationInv
<1>1. PICK q : q = [reqs[r] EXCEPT !.step = "free",
                                   !.holder = cabinets[reqs[r].cab]]
  OBVIOUS
<1>2. reqs' = [reqs EXCEPT ![r] = q]
  BY <1>1, RequestType DEF ReqStates, TypeOK, LoadCabinet
<1>3. /\ q.kind # "sync" /\ q.order = reqs[r].order /\ q.step = "free"
      /\ q.cab = reqs[r].cab /\ q.holder = cabinets[reqs[r].cab]
  BY <1>1, RequestType DEF NoSync, ReqStates
<1>4. CreationsFresh' /\ NoSync'
  BY <1>2, <1>3, HandlerFresh DEF LoadCabinet, CreateSteps
<1>5. reqs'[r] = q
  BY <1>2 DEF TypeOK
<1>6. NoLeakedReservation'
  BY <1>2, <1>3, <1>5, KeepReservations
     DEF LoadCabinet, At, Active, Booking, Releasing
<1> QED
  BY <1>4, <1>6

LEMMA FreeCabinetReservation ==
    ASSUME ReservationInv, NEW r \in Requests, FreeCabinet(r)
    PROVE  CreationsFresh' /\ NoSync' /\ NoLeakedReservation'
<1> USE DEF ReservationInv
<1>1. Respond(r) /\ orders' = orders
  BY DEF FreeCabinet, NoSync
<1>2. CreationsFresh' /\ NoSync'
  BY <1>1, RespondFresh
<1>3. \A s \in Requests \ {r} : reqs'[s] = reqs[s]
  BY <1>1 DEF Respond, TypeOK
<1>4. \A c \in Cabinets : cabinets'[c] # Null =>
            cabinets[c] # Null /\ ~Booking(r, c) /\ ~Releasing(r, c)
  BY DEF FreeCabinet, TypeOK, Dirty, Booking, Releasing, At
<1>5. ASSUME NEW c \in Cabinets, cabinets'[c] # Null
      PROVE  \/ \E o \in Orders : Active(o)' /\ orders'[o].cab = c
             \/ \E s \in Requests : (Booking(s, c) \/ Releasing(s, c))'
  <2>1. CASE \E o \in Orders : Active(o) /\ orders[o].cab = c
    BY <1>1, <2>1 DEF Active
  <2>2. CASE \E s \in Requests : Booking(s, c) \/ Releasing(s, c)
    BY <1>3, <1>4, <1>5, <2>2 DEF Booking, Releasing, At
  <2> QED
    BY <1>4, <1>5, <2>1, <2>2 DEF NoLeakedReservation
<1> QED
  BY <1>2, <1>5 DEF NoLeakedReservation

LEMMA FindDeliveredReservation ==
    ASSUME ReservationInv, NEW r \in Requests, FindDelivered(r)
    PROVE  CreationsFresh' /\ NoSync' /\ NoLeakedReservation'
<1> USE DEF ReservationInv
<1>1. ASSUME NEW o \in Orders, orders[o].status = "delivered",
             reqs' = [reqs EXCEPT ![r].step = "close", ![r].order = o,
                                  ![r].seen = orders[o].code]
      PROVE  CreationsFresh' /\ NoSync' /\ NoLeakedReservation'
  <2>1. PICK q : q = [reqs[r] EXCEPT !.step = "close", !.order = o,
                                     !.seen = orders[o].code]
    OBVIOUS
  <2>2. reqs' = [reqs EXCEPT ![r] = q]
    BY <1>1, <2>1, RequestType DEF ReqStates, TypeOK
  <2>3. q.kind # "sync" /\ q.order = o /\ q.step = "close"
    BY <2>1, RequestType DEF NoSync, ReqStates
  <2>4. CreationsFresh' /\ NoSync'
    BY <1>1, <2>2, <2>3, HandlerFresh DEF FindDelivered, CreateSteps
  <2>5. NoLeakedReservation'
    BY <2>2, KeepReservations DEF FindDelivered, At, Active, Booking, Releasing
  <2> QED
    BY <2>4, <2>5
<1>2. ASSUME Respond(r)
      PROVE  CreationsFresh' /\ NoSync' /\ NoLeakedReservation'
  <2>1. CreationsFresh' /\ NoSync'
    BY <1>2, RespondFresh DEF FindDelivered
  <2>2. NoLeakedReservation'
    BY <1>2, KeepReservations
       DEF Respond, FindDelivered, At, Active, Booking, Releasing
  <2> QED
    BY <2>1, <2>2
<1> QED
  BY <1>1, <1>2 DEF FindDelivered

LEMMA ExpireReservation ==
    ASSUME ReservationInv, NEW o \in Orders, Expire(o)
    PROVE  CreationsFresh' /\ NoSync' /\ NoLeakedReservation'
<1> USE DEF ReservationInv
<1>1. /\ orders[o].status = "pending" /\ reqs' = reqs /\ cabinets' = cabinets
      /\ orders'[o].status = "pending" /\ orders'[o].cab = orders[o].cab
      /\ \A p \in Orders \ {o} : orders'[p] = orders[p]
  BY DEF Expire, TypeOK, OrderDocs
<1>2. NoSync'
  BY <1>1 DEF NoSync
<1>3. CreationsFresh'
  BY <1>1, RequestType DEF CreationsFresh, Supplied, OrderSteps
<1>4. \A p \in Orders : Active(p) => Active(p)' /\ orders'[p].cab = orders[p].cab
  BY <1>1 DEF Active
<1>5. NoLeakedReservation'
  BY <1>1, <1>4 DEF NoLeakedReservation, Booking, Releasing, At
<1> QED
  BY <1>2, <1>3, <1>5

LEMMA NextReservation ==
    ASSUME OnlineAndUp
    PROVE  ReservationInv /\ [Next]_vars => ReservationInv'
<1> SUFFICES ASSUME ReservationInv, [Next]_vars
             PROVE  CreationsFresh' /\ NoSync' /\ NoLeakedReservation'
  BY NextType DEF ReservationInv
<1>1. ASSUME NEW r \in Requests, Arrival(r)
      PROVE  CreationsFresh' /\ NoSync' /\ NoLeakedReservation'
  BY <1>1, ArrivalReservation
<1>2. ASSUME NEW r \in Requests, Handler(r)
      PROVE  CreationsFresh' /\ NoSync' /\ NoLeakedReservation'
  BY <1>2, FindCabinetReservation, ReserveReservation, InsertOrderReservation,
     DrawPickupCodeReservation, SaveDeliveryReservation, CloseOrderReservation,
     LoadCabinetReservation, FreeCabinetReservation, FindDeliveredReservation
     DEF Handler
<1>3. ASSUME NEW o \in Orders, Expire(o)
      PROVE  CreationsFresh' /\ NoSync' /\ NoLeakedReservation'
  BY <1>3, ExpireReservation
<1>4. ASSUME NEW r \in Requests, DbFailure(r)
      PROVE  FALSE
  BY <1>4 DEF DbFailure, OnlineAndUp
<1>5. ASSUME UNCHANGED vars
      PROVE  CreationsFresh' /\ NoSync' /\ NoLeakedReservation'
  BY <1>5 DEF vars, ReservationInv, CreationsFresh, NoSync, NoLeakedReservation,
     Active, Booking, Releasing, At
<1> QED
  BY <1>1, <1>2, <1>3, <1>4, <1>5 DEF Next

\* As long as the station is online and the database answers, no number of
\* overlapping requests leaves a compartment reserved with nobody to release it.
THEOREM ReservationsKept ==
    ASSUME OnlineAndUp
    PROVE  Spec => []NoLeakedReservation
<1>1. ReservationInv => NoLeakedReservation
  BY DEF ReservationInv
<1> QED
  BY <1>1, InitReservation, NextReservation, PTL DEF Spec
=============================================================================
