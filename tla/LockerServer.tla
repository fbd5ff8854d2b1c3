---------------------------- MODULE LockerServer ----------------------------
(***************************************************************************)
(* The order part of the backend (server/index.js on the Mongoose models   *)
(* of server/database.js): the orders and cabinets collections and the     *)
(* HTTP handlers that change them.                                         *)
(*                                                                         *)
(* Node runs one handler until its next await; every await is one call to  *)
(* MongoDB, atomic for the one document it reads or writes.  So a request  *)
(* is a small process and each action below is one database call with the  *)
(* code that runs until the next one.  What a handler loaded stays in its  *)
(* request record while other requests change the stored documents.        *)
(*                                                                         *)
(* The database holds one Device (database.js creates one, no handler adds *)
(* another), so a device lookup that succeeds yields that station and the  *)
(* cabinets are those of the station.  A request answered 4xx before its   *)
(* first write changes nothing and is no step here.                        *)
(***************************************************************************)
CONSTANTS
    Users,      \* accounts
    Cabinets,   \* compartments of the station
    Orders,     \* ids of orders that may be created: the bound on creations
    OTPs,       \* six-digit codes
    Requests,   \* slots of requests in progress: how many may overlap
    Workload,   \* the kinds of request that arrive
    DbMayFail,  \* whether a database call may throw
    Null        \* JavaScript's null

Kinds == {"create", "deliver", "pickup_web", "pickup_otp", "cancel", "sync"}

ASSUME ServerAssumption ==
    /\ Workload \subseteq Kinds
    /\ DbMayFail \in BOOLEAN
    /\ Null \notin Users \cup Cabinets \cup Orders \cup OTPs \cup Kinds

VARIABLES
    orders,     \* the orders collection; status "none" is an id not in use
    cabinets,   \* Cabinet.userId
    reqs        \* the requests in progress

vars == <<orders, cabinets, reqs>>

Statuses == {"none", "pending", "delivered", "completed", "cancelled"}

Steps == {"idle", "findCabinet", "reserve", "insert", "newCode", "deliver",
          "close", "loadCabinet", "free", "findOrder"}

\* An order document. "expired": otpExpiresAt lies in the past.
OrderDocs == [user : Users \cup {Null}, cab : Cabinets \cup {Null},
              status : Statuses, code : OTPs \cup {Null}, expired : BOOLEAN]

NoOrder == [user |-> Null, cab |-> Null, status |-> "none", code |-> Null,
            expired |-> FALSE]

\* A request: the step it will do next, its inputs and what it has loaded.
ReqStates == [kind   : Kinds \cup {Null},
              step   : Steps,
              user   : Users \cup {Null},      \* req.userId of a creation
              order  : Orders \cup {Null},     \* order being handled
              cab    : Cabinets \cup {Null},   \* its cabinet
              drawn  : OTPs \cup {Null},       \* code from generateUniqueOTP
              seen   : OTPs \cup {Null},       \* otpCode of the loaded order
              holder : Users \cup {Null}]      \* userId of the loaded cabinet

Idle == [kind |-> Null, step |-> "idle", user |-> Null, order |-> Null,
         cab |-> Null, drawn |-> Null, seen |-> Null, holder |-> Null]

Active(o) == orders[o].status \in {"pending", "delivered"}

\* Init: the seeded station; its one sample order is completed, has no code and
\* holds no cabinet, and no handler finds it, so it is left out.
Init == /\ orders = [o \in Orders |-> NoOrder]
        /\ cabinets = [c \in Cabinets |-> Null]
        /\ reqs = [r \in Requests |-> Idle]

-----------------------------------------------------------------------------
(* Helpers *)

\* doc.save() sends only the paths whose value differs from the loaded one.
Dirty(stored, loaded, new) == IF new = loaded THEN stored ELSE new

\* Seeded fault: the query for an existing code looks at pending orders only.
GenerateUniqueOTP_PendingOnly ==
    {otp \in OTPs : \A o \in Orders :
        orders[o].status = "pending" => orders[o].code # otp}

\* Seeded fault: the query for an existing code leaves out the code.
GenerateUniqueOTP_AnyOrder == {otp \in OTPs : \A o \in Orders : ~Active(o)}

\* The codes the do-while loop can end with: those no active order has now.
GenerateUniqueOTP ==
    {otp \in OTPs : \A o \in Orders : Active(o) => orders[o].code # otp}

\* Ids MongoDB has not handed out.
FreshIds == {o \in Orders : /\ orders[o].status = "none"
                            /\ \A r \in Requests : reqs[r].order # o}

\* Request r is taken up as a request of this kind with these fields.
Begin(r, kind, request) ==
    /\ kind \in Workload
    /\ reqs[r].step = "idle"
    /\ reqs' = [reqs EXCEPT ![r] = [request EXCEPT !.kind = kind]]
    /\ UNCHANGED <<orders, cabinets>>

At(r, step) == reqs[r].step = step

Goto(r, step) == reqs' = [reqs EXCEPT ![r].step = step]

Respond(r) == reqs' = [reqs EXCEPT ![r] = Idle]

-----------------------------------------------------------------------------
(* POST /api/orders *)

CreateOrder(r, u) ==
    \E otp \in GenerateUniqueOTP, o \in FreshIds :
        Begin(r, "create", [Idle EXCEPT !.step = "findCabinet", !.user = u,
                                        !.order = o, !.drawn = otp])

\* Seeded fault: no check that a free cabinet was found.
FindCabinet_Unchecked(r) ==
    /\ At(r, "findCabinet")
    /\ \/ \E c \in Cabinets :
            /\ cabinets[c] = Null
            /\ reqs' = [reqs EXCEPT ![r].step = "reserve", ![r].cab = c]
       \/ (\A c \in Cabinets : cabinets[c] # Null) /\ Goto(r, "reserve")
    /\ UNCHANGED <<orders, cabinets>>

\* Seeded fault: the query leaves out userId: null.
FindCabinet_AnyUser(r) ==
    /\ At(r, "findCabinet")
    /\ \E c \in Cabinets :
          reqs' = [reqs EXCEPT ![r].step = "reserve", ![r].cab = c]
    /\ UNCHANGED <<orders, cabinets>>

\* Cabinet.findOne({deviceId, userId: null}): some free cabinet, or 400.
FindCabinet(r) ==
    /\ At(r, "findCabinet")
    /\ \/ \E c \in Cabinets :
            /\ cabinets[c] = Null
            /\ reqs' = [reqs EXCEPT ![r].step = "reserve", ![r].cab = c]
       \/ (\A c \in Cabinets : cabinets[c] # Null) /\ Respond(r)
    /\ UNCHANGED <<orders, cabinets>>

Reserve(r) ==
    /\ At(r, "reserve")
    /\ cabinets' = [cabinets EXCEPT ![reqs[r].cab] = reqs[r].user]
    /\ Goto(r, "insert")
    /\ UNCHANGED orders

InsertOrder(r) ==
    /\ At(r, "insert")
    /\ orders' = [orders EXCEPT ![reqs[r].order] =
                    [user |-> reqs[r].user, cab |-> reqs[r].cab,
                     status |-> "pending", code |-> reqs[r].drawn,
                     expired |-> FALSE]]
    /\ Respond(r)
    /\ UNCHANGED cabinets

-----------------------------------------------------------------------------
(* POST /api/locker/verify-delivery and /api/orders/delivery *)

\* Seeded fault: the query leaves out status and expiry.
VerifyDelivery_AnyStatus(r, code) ==
    \E o \in Orders :
        /\ orders[o].code = code
        /\ Begin(r, "deliver", [Idle EXCEPT !.step = "newCode", !.order = o,
                                            !.seen = code])

VerifyDelivery(r, code) ==
    \E o \in Orders :
        /\ orders[o].code = code
        /\ orders[o].status = "pending"
        /\ ~orders[o].expired
        /\ Begin(r, "deliver", [Idle EXCEPT !.step = "newCode", !.order = o,
                                            !.seen = code])

DrawPickupCode(r) ==
    /\ At(r, "newCode")
    /\ \E otp \in GenerateUniqueOTP :
          reqs' = [reqs EXCEPT ![r].step = "deliver", ![r].drawn = otp]
    /\ UNCHANGED <<orders, cabinets>>

SaveDelivery(r) ==
    LET o == reqs[r].order IN
    /\ At(r, "deliver")
    /\ orders' = [orders EXCEPT ![o] =
            [orders[o] EXCEPT
                !.status  = "delivered",
                !.code    = Dirty(orders[o].code, reqs[r].seen, reqs[r].drawn),
                !.expired = FALSE]]
    /\ Respond(r)
    /\ UNCHANGED cabinets

-----------------------------------------------------------------------------
(* POST /api/orders/pickup, /api/locker/verify-pickup, /api/orders/cancel  *)

\* The order document a closing request works on, as loaded.
Loaded(o) == [Idle EXCEPT !.step = "close", !.order = o, !.seen = orders[o].code]

\* Seeded fault: an order already completed is picked up again.
Pickup_Again(r, o) ==
    /\ orders[o].status \in {"delivered", "completed"}
    /\ Begin(r, "pickup_web", Loaded(o))

\* By the owner, by order id.
Pickup(r, o) ==
    orders[o].status = "delivered" /\ Begin(r, "pickup_web", Loaded(o))

\* At the keypad, by code; the expiry of a pickup code is not looked at.
VerifyPickup(r, code) ==
    \E o \in Orders : /\ orders[o].code = code
                      /\ orders[o].status = "delivered"
                      /\ Begin(r, "pickup_otp", Loaded(o))

\* Seeded fault: no check that the order is still pending.
CancelOrder_AnyTime(r, o) ==
    orders[o].status # "none" /\ Begin(r, "cancel", Loaded(o))

\* By the owner, while pending.
CancelOrder(r, o) ==
    orders[o].status = "pending" /\ Begin(r, "cancel", Loaded(o))

Final(r) == IF reqs[r].kind = "cancel" THEN "cancelled" ELSE "completed"

\* Seeded fault: otpCode is not reset.
CloseOrder_KeepCode(r) ==
    LET o == reqs[r].order IN
    /\ At(r, "close")
    /\ orders' = [orders EXCEPT ![o].status = Final(r)]
    /\ IF reqs[r].kind = "sync"
       THEN Respond(r)
       ELSE reqs' = [reqs EXCEPT ![r].step = "loadCabinet",
                                 ![r].cab = orders[o].cab]
    /\ UNCHANGED cabinets

\* Seeded fault: the handler answers without releasing the cabinet.
CloseOrder_KeepCabinet(r) ==
    LET o == reqs[r].order IN
    /\ At(r, "close")
    /\ orders' = [orders EXCEPT ![o] =
            [orders[o] EXCEPT !.status = Final(r),
                              !.code = Dirty(orders[o].code, reqs[r].seen, Null)]]
    /\ Respond(r)
    /\ UNCHANGED cabinets

\* order.save() with the final status and no code; then the cabinet is released,
\* except that /api/sync-from-esp has released it before.
CloseOrder(r) ==
    LET o == reqs[r].order IN
    /\ At(r, "close")
    /\ orders' = [orders EXCEPT ![o] =
            [orders[o] EXCEPT !.status = Final(r),
                              !.code = Dirty(orders[o].code, reqs[r].seen, Null)]]
    /\ IF reqs[r].kind = "sync"
       THEN Respond(r)
       ELSE reqs' = [reqs EXCEPT ![r].step = "loadCabinet",
                                 ![r].cab = orders[o].cab]
    /\ UNCHANGED cabinets

LoadCabinet(r) ==
    /\ At(r, "loadCabinet")
    /\ reqs' = [reqs EXCEPT ![r].step = "free",
                            ![r].holder = cabinets[reqs[r].cab]]
    /\ UNCHANGED <<orders, cabinets>>

\* cabinet.userId = null; cabinet.save()
FreeCabinet(r) ==
    /\ At(r, "free")
    /\ cabinets' = [cabinets EXCEPT
                      ![reqs[r].cab] = Dirty(@, reqs[r].holder, Null)]
    /\ IF reqs[r].kind = "sync" THEN Goto(r, "findOrder") ELSE Respond(r)
    /\ UNCHANGED orders

-----------------------------------------------------------------------------
(* POST /api/sync-from-esp: an offline pickup reported by the station      *)

SyncFromEsp(r, c) ==
    Begin(r, "sync", [Idle EXCEPT !.step = "free", !.cab = c,
                                  !.holder = cabinets[c]])

\* Order.findOne({cabinetId, status: 'delivered'}); none is fine too.
FindDelivered(r) ==
    LET found == {o \in Orders : orders[o].status = "delivered"
                                 /\ orders[o].cab = reqs[r].cab}
    IN /\ At(r, "findOrder")
       /\ \/ \E o \in found :
               reqs' = [reqs EXCEPT ![r].step = "close", ![r].order = o,
                                    ![r].seen = orders[o].code]
          \/ found = {} /\ Respond(r)
       /\ UNCHANGED <<orders, cabinets>>

-----------------------------------------------------------------------------
(* The environment of the handlers *)

\* A database call throws; the catch block answers 500 and undoes nothing.
DbFailure(r) ==
    /\ DbMayFail
    /\ ~At(r, "idle")
    /\ Respond(r)
    /\ UNCHANGED <<orders, cabinets>>

\* The ten minutes of a delivery code run out (only then is expiry looked at).
Expire(o) ==
    /\ orders[o].status = "pending"
    /\ ~orders[o].expired
    /\ orders' = [orders EXCEPT ![o].expired = TRUE]
    /\ UNCHANGED <<cabinets, reqs>>

Arrival(r) ==
    \/ \E u \in Users : CreateOrder(r, u)
    \/ \E code \in OTPs : VerifyDelivery(r, code) \/ VerifyPickup(r, code)
    \/ \E o \in Orders : Pickup(r, o) \/ CancelOrder(r, o)
    \/ \E c \in Cabinets : SyncFromEsp(r, c)

Handler(r) ==
    \/ FindCabinet(r) \/ Reserve(r) \/ InsertOrder(r)
    \/ DrawPickupCode(r) \/ SaveDelivery(r)
    \/ CloseOrder(r) \/ LoadCabinet(r) \/ FreeCabinet(r)
    \/ FindDelivered(r)

Next == \/ \E r \in Requests : Arrival(r) \/ Handler(r) \/ DbFailure(r)
        \/ \E o \in Orders : Expire(o)

\* Node's event loop resumes a handler once MongoDB has answered, and MongoDB
\* answers; nobody has to send a request.
Fairness == \A r \in Requests : WF_vars(Handler(r))

Spec == Init /\ [][Next]_vars

FairSpec == Spec /\ Fairness

-----------------------------------------------------------------------------
(* Correctness *)

\* Steps that work on an order, and steps that work on a cabinet.
OrderSteps == {"findCabinet", "reserve", "insert", "newCode", "deliver",
               "close", "loadCabinet"}

CabinetSteps == {"reserve", "insert", "loadCabinet", "free", "findOrder"}

\* A request about to use an order, a cabinet, a requester or a drawn code has it.
Supplied(q) ==
    /\ q.step \in OrderSteps => q.order \in Orders
    /\ q.step \in CabinetSteps => q.cab \in Cabinets
    /\ q.step \in {"findCabinet", "reserve", "insert"} => q.user \in Users
    /\ q.step \in {"findCabinet", "reserve", "insert", "deliver"} =>
          q.drawn \in OTPs
    /\ q.step \in {"newCode", "deliver", "close"} =>
          orders[q.order].status # "none"

\* Every document and request has its type, every stored order a cabinet, and no
\* handler of server/index.js goes on with a document it has not found.
TypeOK ==
    /\ orders \in [Orders -> OrderDocs]
    /\ cabinets \in [Cabinets -> Users \cup {Null}]
    /\ reqs \in [Requests -> ReqStates]
    /\ \A o \in Orders :
          orders[o].status # "none" => orders[o].cab \in Cabinets
    /\ \A r \in Requests : Supplied(reqs[r])

\* No two orders that wait for delivery or pickup share a code, so a code typed
\* at the keypad identifies one order. generateUniqueOTP (index.js:42) looks
\* before the order is stored, several awaits later.
OtpUnique ==
    \A o, p \in Orders :
        o # p /\ Active(o) /\ Active(p) => orders[o].code # orders[p].code

\* Exactly the orders that wait for delivery or pickup have a code: none of the
\* handlers leaves a closed order that a typed code would still find, or an
\* open one that no code finds.
ActiveHasCode == \A o \in Orders : Active(o) <=> orders[o].code # Null

Transitions == {<<"none", "pending">>, <<"pending", "delivered">>,
                <<"pending", "cancelled">>, <<"delivered", "completed">>}

\* An order goes pending, delivered, completed, or pending, cancelled, and
\* nothing leaves a final status (the status checks before each save).
Lifecycle ==
    [][\A o \in Orders :
         \/ orders'[o].status = orders[o].status
         \/ <<orders[o].status, orders'[o].status>> \in Transitions]_vars

\* "Chi co the huy don hang dang cho giao": only an order waiting for delivery
\* is cancelled (the message of /api/orders/cancel, index.js:550).
OnlyPendingCancelled ==
    [][\A o \in Orders :
         orders'[o].status = "cancelled" =>
            orders[o].status \in {"pending", "cancelled"}]_vars

\* The cabinet of an open order is reserved for that order's user: nobody else
\* is given the compartment a parcel is in or is coming to.
ReservedForOwner ==
    \A o \in Orders : Active(o) => cabinets[orders[o].cab] = orders[o].user

\* "null = trong" (database.js:31): a cabinet without user is empty, so no open
\* order has it.
NullMeansEmpty ==
    \A o \in Orders : Active(o) => cabinets[orders[o].cab] # Null

\* Request r has reserved cabinet c and will insert the order.
Booking(r, c) == At(r, "insert") /\ reqs[r].cab = c

\* Request r has closed an order of cabinet c and will set its userId to null.
Releasing(r, c) ==
    /\ reqs[r].cab = c
    /\ At(r, "loadCabinet") \/ (At(r, "free") /\ reqs[r].holder # Null)

\* A reserved cabinet has an open order, or a request in progress that will
\* create one or release the cabinet: overlapping requests never leave a
\* compartment taken with nobody to give it back.
NoLeakedReservation ==
    \A c \in Cabinets : cabinets[c] # Null =>
        \/ \E o \in Orders : Active(o) /\ orders[o].cab = c
        \/ \E r \in Requests : Booking(r, c) \/ Releasing(r, c)

\* What a compartment is used for, read off the orders: the abstract state.
BoxOf(c) ==
    LET open == {o \in Orders : Active(o) /\ orders[o].cab = c} IN
    IF open = {}
    THEN [state |-> "empty", user |-> Null]
    ELSE LET o == CHOOSE p \in open : TRUE
         IN [state |-> orders[o].status, user |-> orders[o].user]

Abstract == INSTANCE CabinetBooking WITH box <- [c \in Cabinets |-> BoxOf(c)]

\* Seen from its orders every compartment is booked, filled and emptied for one
\* user at a time, never booked while in use.
RefinesBooking == Abstract!Spec

\* Every request that is taken up is answered: no handler waits for another
\* and the loop that draws codes ends.
RequestsFinish == \A r \in Requests : ~At(r, "idle") ~> At(r, "idle")

\* A reserved compartment comes back into use: it ends up free or with an open
\* order, whatever requests overlapped.
ReservationSettles ==
    \A c \in Cabinets : cabinets[c] # Null ~>
        (cabinets[c] = Null \/ \E o \in Orders : Active(o) /\ orders[o].cab = c)
=============================================================================
