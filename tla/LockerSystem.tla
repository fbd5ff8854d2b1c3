---------------------------- MODULE LockerSystem ----------------------------
(***************************************************************************)
(* The backend (LockerServer) and one station (LockerFirmware), joined by  *)
(* the station's HTTP calls and the server's pushes, and what the doors    *)
(* are for: the parcels in the compartments.                               *)
(*                                                                         *)
(* The station calls one endpoint at a time and blocks until it has the    *)
(* answer or gives up; the handler runs to its end all the same.           *)
(***************************************************************************)
EXTENDS Naturals, Sequences, SequencesExt, FiniteSets

CONSTANTS
    Users, Cabinets, Orders, OTPs,      \* as in LockerServer
    WebSlots,           \* slots for requests of web users
    StationSlots,       \* and of the station; a shared slot serializes them
    Workload,           \* kinds of request in use
    NetMayFail,         \* whether WiFi, calls, station and server may fail
    MAX_SYNC_ENTRIES, MAX_LOG_QUEUE,    \* as in LockerFirmware
    MaxPushed,          \* bound on the pushes under way
    Null

VARIABLES
    orders, cabinets, reqs,                     \* the server
    wifi, wsBegun, wsConnected, currentState,   \* the station
    inputBuffer, syncData, logQueue, task, spent,
    registered,     \* espDevices has the station's live socket
    pushed,         \* pushes on their way to the station, in order
    call,           \* the station's HTTP call
    content,        \* the order whose parcel is in a compartment
    issued,         \* history: the pickup code and compartment of an order
    forgotten,      \* history: orders lost when the server restarted
    visit           \* history: what an open door has been opened for

serverVars  == <<orders, cabinets, reqs>>
stationVars == <<wifi, wsBegun, wsConnected, currentState, inputBuffer,
                 syncData, logQueue, task, spent>>
historyVars == <<content, issued, forgotten, visit>>
vars == <<serverVars, stationVars, registered, pushed, call, historyVars>>

Slots == WebSlots \cup StationSlots

Server == INSTANCE LockerServer WITH Requests <- Slots, DbMayFail <- FALSE

Station == INSTANCE LockerFirmware
    WITH Pins <- Cabinets, Codes <- OTPs, MaxAnswer <- Cardinality(Orders)

\* Its own constants, and those of its two parts.
ASSUME SystemAssumption ==
    /\ NetMayFail \in BOOLEAN
    /\ MaxPushed \in Nat
    /\ Workload \subseteq Server!Kinds
    /\ IsFiniteSet(Orders)
    /\ MAX_SYNC_ENTRIES \in Nat \ {0}
    /\ MAX_LOG_QUEUE \in Nat \ {0}
    /\ Null \notin Users \cup Cabinets \cup Orders \cup OTPs \cup Server!Kinds

\* The call the station waits in: not served yet, being served by the request
\* in slot, or answered.
Calls == [stage : {"none", "served", "answered"}, slot : Slots \cup {Null},
          ok : BOOLEAN, order : Orders \cup {Null}, pin : Cabinets \cup {Null},
          entries : Station!Answers]

NoCall == [stage |-> "none", slot |-> Null, ok |-> FALSE, order |-> Null,
           pin |-> Null, entries |-> <<>>]

NotIssued == [code |-> Null, cab |-> Null]

NoVisit == [purpose |-> "none", order |-> Null, code |-> Null]

Push == [event : {"open_cabinet", "sync_request"}, order : Orders \cup {Null}]

Init == /\ Server!Init
        /\ Station!Init
        /\ NetMayFail \/ wifi
        /\ registered = FALSE
        /\ pushed = <<>>
        /\ call = NoCall
        /\ content = [c \in Cabinets |-> Null]
        /\ issued = [o \in Orders |-> NotIssued]
        /\ forgotten = {}
        /\ visit = NoVisit

-----------------------------------------------------------------------------
(* Pushes *)

\* sendToESP32: emitted to the station's socket, or not sent; the handlers do
\* not look at its result.
SendToESP32(push) ==
    pushed' = IF registered /\ Len(pushed) < MaxPushed
              THEN Append(pushed, push) ELSE pushed

\* register_device reaches the server and is understood.
RegisterDevice ==
    /\ wsConnected /\ ~registered
    /\ registered' = TRUE
    /\ UNCHANGED <<serverVars, stationVars, pushed, call, historyVars>>

-----------------------------------------------------------------------------
(* The server at work *)

\* A web request arrives.  MongoDB never hands out the id of an order twice.
WebArrival ==
    /\ \E r \in WebSlots :
          \/ \E u \in Users : Server!CreateOrder(r, u)
                              /\ reqs'[r].order \notin forgotten
          \/ \E o \in Orders : Server!Pickup(r, o) \/ Server!CancelOrder(r, o)
    /\ UNCHANGED <<stationVars, registered, pushed, call, historyVars>>

\* The request in slot r has been answered; its order, if the answer is for the
\* station.
Answered(r) == reqs[r].step # "idle" /\ reqs'[r].step = "idle"

\* issued follows the deliveries.
RecordIssued ==
    issued' = [o \in Orders |->
                 IF orders'[o].status = "delivered"
                 THEN [code |-> orders'[o].code, cab |-> orders'[o].cab]
                 ELSE issued[o]]

\* Seeded fault: the answer says nothing but success.
CabinetPin_Missing(o) == Null

\* The pin in the answer about this order; its boxNumber says the same.
CabinetPin(o) == IF o = Null THEN Null ELSE orders[o].cab

\* Seeded fault: a handler ends without an answer.
ServerStep_NoAnswer(r) ==
    /\ Server!Handler(r)
    /\ RecordIssued
    /\ UNCHANGED <<stationVars, registered, pushed, call, content, forgotten, visit>>

\* A handler goes on.  As it ends it pushes to the station, and its answer goes
\* to the call that waits for it.
ServerStep(r) ==
    /\ Server!Handler(r)
    /\ call' = IF Answered(r) /\ call.stage = "served" /\ call.slot = r
               THEN [call EXCEPT !.stage = "answered", !.ok = TRUE,
                                 !.pin = CabinetPin(call.order)]
               ELSE call
    /\ IF Answered(r) /\ reqs[r].kind \in {"pickup_web", "deliver"}
       THEN SendToESP32([event |-> IF reqs[r].kind = "deliver"
                                   THEN "sync_request" ELSE "open_cabinet",
                         order |-> reqs[r].order])
       ELSE UNCHANGED pushed
    /\ RecordIssued
    /\ UNCHANGED <<stationVars, registered, content, forgotten, visit>>

Expire ==
    /\ \E o \in Orders : Server!Expire(o)
    /\ UNCHANGED <<stationVars, registered, pushed, call, historyVars>>

\* The station's call reaches the server, which takes it up ...
Serve(r) ==
    /\ call.stage = "none"
    /\ \/ Station!Waiting("verifyDelivery") /\ Server!VerifyDelivery(r, task.code)
       \/ Station!Waiting("verifyPickupOnline") /\ Server!VerifyPickup(r, task.code)
       \/ /\ Station!Waiting("syncLogsToServer")
          /\ Server!SyncFromEsp(r, logQueue[task.entry])
    /\ call' = [NoCall EXCEPT !.stage = "served", !.slot = r,
                              !.order = reqs'[r].order]
    /\ UNCHANGED <<stationVars, registered, pushed, historyVars>>

\* ... or refuses at once, no order having the code.
Refuse ==
    /\ call.stage = "none"
    /\ \/ /\ Station!Waiting("verifyDelivery")
          /\ \A o \in Orders : ~ /\ orders[o].code = task.code
                                 /\ orders[o].status = "pending"
                                 /\ ~orders[o].expired
       \/ /\ Station!Waiting("verifyPickupOnline")
          /\ \A o \in Orders : ~ /\ orders[o].code = task.code
                                 /\ orders[o].status = "delivered"
    /\ call' = [NoCall EXCEPT !.stage = "answered"]
    /\ UNCHANGED <<serverVars, stationVars, registered, pushed, historyVars>>

\* Seeded fault: the query leaves out the status.
SyncData_AnyStatus ==
    LET listed == {o \in Orders : orders[o].code # Null}
        entry(o) == [cabinetPin |-> orders[o].cab, otpCode |-> orders[o].code]
    IN
    /\ call.stage = "none"
    /\ Station!Waiting("syncDataFromServer")
    /\ \E entries \in Station!Answers :
          /\ Len(entries) = Cardinality(listed)
          /\ ToSet(entries) = {entry(o) : o \in listed}
          /\ call' = [NoCall EXCEPT !.stage = "answered", !.ok = TRUE,
                                    !.entries = entries]
    /\ UNCHANGED <<serverVars, stationVars, registered, pushed, historyVars>>

\* GET /api/sync-data: pin and code of the delivered orders, in some order.  (No
\* input matches the entry of an order without code, so it is left out.)
SyncData ==
    LET delivered == {o \in Orders : orders[o].status = "delivered"
                                     /\ orders[o].code # Null}
        entry(o)  == [cabinetPin |-> orders[o].cab, otpCode |-> orders[o].code]
    IN
    /\ call.stage = "none"
    /\ Station!Waiting("syncDataFromServer")
    /\ \E entries \in Station!Answers :
          /\ Len(entries) = Cardinality(delivered)
          /\ ToSet(entries) = {entry(o) : o \in delivered}
          /\ call' = [NoCall EXCEPT !.stage = "answered", !.ok = TRUE,
                                    !.entries = entries]
    /\ UNCHANGED <<serverVars, stationVars, registered, pushed, historyVars>>

-----------------------------------------------------------------------------
(* The station at work *)

\* Somebody at the keypad; a code accepted offline opens the door for a pickup.
Key == /\ Station!Key
       /\ visit' = IF task'.wait = "door"
                   THEN [NoVisit EXCEPT !.purpose = "pickup", !.code = inputBuffer]
                   ELSE visit
       /\ UNCHANGED <<serverVars, registered, pushed, call, content, issued, forgotten>>

\* The answer arrives.
Receive ==
    /\ call.stage = "answered"
    /\ \/ ~call.ok /\ Station!VerifyFailed /\ UNCHANGED visit
       \/ /\ call.ok
          /\ Station!DeliveryVerified(call.pin)
          /\ visit' = [NoVisit EXCEPT !.purpose = "deliver", !.order = call.order]
       \/ /\ call.ok
          /\ Station!PickupVerified(call.pin)
          /\ visit' = [NoVisit EXCEPT !.purpose = "pickup", !.code = task.code]
       \/ Station!SyncDataReceived(call.entries) /\ UNCHANGED visit
       \/ Station!LogPosted /\ UNCHANGED visit
    /\ call' = NoCall
    /\ UNCHANGED <<serverVars, registered, pushed, content, issued, forgotten>>

\* No connection, or the answer does not come in time: the station gives up.
GiveUp ==
    /\ NetMayFail
    /\ Station!VerifyFailed \/ Station!SyncDataFailed \/ Station!LogPosted
    /\ call' = NoCall
    /\ UNCHANGED <<serverVars, registered, pushed, historyVars>>

\* The courier has put the parcel in, the customer has taken what was there.
DoorCloses ==
    /\ Station!BoxClosed
    /\ content' = [content EXCEPT ![task.pin] =
                     IF visit.purpose = "deliver" THEN visit.order ELSE Null]
    /\ visit' = NoVisit
    /\ UNCHANGED <<serverVars, registered, pushed, call, issued, forgotten>>

WsConnects ==
    /\ Station!WsConnect
    /\ UNCHANGED <<serverVars, registered, pushed, call, historyVars>>

ReceivePush ==
    /\ pushed # <<>>
    /\ pushed' = Tail(pushed)
    /\ LET push == Head(pushed) IN
       \/ /\ push.event = "open_cabinet"
          /\ Station!OpenCabinet(orders[push.order].cab)
          /\ visit' = [NoVisit EXCEPT !.purpose = "push", !.order = push.order]
       \/ push.event = "sync_request" /\ Station!SyncRequest /\ UNCHANGED visit
    /\ UNCHANGED <<serverVars, registered, call, content, issued, forgotten>>

WsDisconnects ==
    /\ NetMayFail
    /\ Station!WsDisconnect
    /\ registered' = FALSE
    /\ pushed' = <<>>
    /\ UNCHANGED <<serverVars, call, historyVars>>

WifiChange ==
    /\ NetMayFail
    /\ Station!WifiChange
    /\ UNCHANGED <<serverVars, registered, pushed, call, historyVars>>

\* A power cut; a door that was open is shut by setup(), before or after the
\* parcel has changed hands.
PowerCut ==
    /\ NetMayFail
    /\ Station!Restart
    /\ registered' = FALSE
    /\ pushed' = <<>>
    /\ call' = NoCall
    /\ \/ UNCHANGED content
       \/ /\ Station!Waiting("door")
          /\ content' = [content EXCEPT ![task.pin] =
                           IF visit.purpose = "deliver" THEN visit.order ELSE Null]
    /\ visit' = NoVisit
    /\ UNCHANGED <<serverVars, issued, forgotten>>

\* The server restarts on an empty in-memory database; the handlers under way end
\* with their connections.  The station keeps its cache, its queue and its doors,
\* and loop() will find the socket closed.
ServerRestart ==
    /\ NetMayFail
    /\ orders' = [o \in Orders |-> Server!NoOrder]
    /\ cabinets' = [c \in Cabinets |-> Null]
    /\ reqs' = [r \in Slots |-> Server!Idle]
    /\ forgotten' = {o \in Orders : o \in forgotten \/ orders[o].status # "none"}
    /\ wsConnected' = FALSE
    /\ registered' = FALSE
    /\ pushed' = <<>>
    /\ call' = IF call.stage = "served" THEN [NoCall EXCEPT !.stage = "answered"]
                                        ELSE call
    /\ UNCHANGED <<wifi, wsBegun, currentState, inputBuffer, syncData, logQueue,
                   task, spent, content, issued, visit>>

Served == Refuse \/ SyncData \/ \E r \in StationSlots : Serve(r)

Next == \/ WebArrival \/ Expire \/ Served \/ \E r \in Slots : ServerStep(r)
        \/ RegisterDevice \/ WsConnects \/ ReceivePush
        \/ Key \/ Receive \/ DoorCloses
        \/ GiveUp \/ WsDisconnects \/ WifiChange \/ PowerCut
        \/ ServerRestart

Spec == Init /\ [][Next]_vars

\* Handlers are resumed (LockerServer), calls and pushes arrive while the network
\* lasts, doors take their time and no more; nobody has to come to the keypad, and
\* the server need not understand a station's registration.
Fairness == /\ \A r \in Slots : WF_vars(ServerStep(r))
            /\ WF_vars(Served)
            /\ WF_vars(Receive)
            /\ WF_vars(DoorCloses)
            /\ WF_vars(WsConnects)
            /\ WF_vars(ReceivePush)

FairSpec == Spec /\ Fairness

-----------------------------------------------------------------------------
(* Correctness *)

\* Types of what joins server and station; a served call has a request of the
\* server behind it.
TypeOK ==
    /\ registered \in BOOLEAN
    /\ pushed \in SeqOf(Push, MaxPushed)
    /\ call \in Calls
    /\ content \in [Cabinets -> Orders \cup {Null}]
    /\ issued \in [Orders -> [code : OTPs \cup {Null}, cab : Cabinets \cup {Null}]]
    /\ forgotten \subseteq Orders
    /\ call.stage = "served" => reqs[call.slot].step # "idle"
    /\ Station!Waiting("door") => visit # NoVisit

\* Whenever the sketch serves keys, a key can have an effect: STATE_BOX_OPENING,
\* in which loop() ignores the whole keypad, is never left behind.  The sketch
\* alone does not ensure this: a success answer without a pin or box number
\* (.ino:219, 304) opens no box and keeps the state.  It takes the server to put
\* the pin into every such answer, and every lost or failed call to reset it.
KeypadAlive ==
    Station!Waiting("nothing") => currentState # "STATE_BOX_OPENING"

\* A door opened with a pickup code shows an empty compartment or the parcel that
\* this code was given for.
OwnParcelOnly ==
    Station!Waiting("door") /\ visit.purpose = "pickup" /\ content[task.pin] # Null =>
        issued[content[task.pin]].code = visit.code

\* A door opened for a courier shows an empty compartment.
EmptyForCourier ==
    Station!Waiting("door") /\ visit.purpose = "deliver" =>
        content[task.pin] = Null

\* A code typed for a pickup opens the compartment of an order that has been
\* given this code and no other, whatever has been lost or delayed between the
\* server and the cache of the station, and whichever of the two has restarted.
CodeFitsDoor ==
    Station!Waiting("door") /\ visit.purpose = "pickup" =>
        \E o \in Orders : issued[o] = [code |-> visit.code, cab |-> task.pin]

\* No parcel is left in the station for an order that has been cancelled.
NoParcelOfCancelled ==
    \A o \in Orders : orders[o].status = "cancelled" =>
        \A c \in Cabinets : content[c] # o

\* The parcel of a delivered order gets into its compartment, whatever the server
\* and the station do in between (the door opens after the order is saved).
DeliveredIsPutIn ==
    \A o \in Orders :
        orders[o].status = "delivered" ~>
            \E c \in Cabinets : orders[o].cab = c /\ content[c] = o

\* "Da mo tu thanh cong" (index.js:431, and 534 for the keypad): a completed
\* order's compartment has been opened for its parcel to be taken out.
CompletedIsTakenOut ==
    \A o \in Orders :
        orders[o].status = "completed" ~> \A c \in Cabinets : content[c] # o
=============================================================================
