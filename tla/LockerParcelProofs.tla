------------------------- MODULE LockerParcelProofs -------------------------
(***************************************************************************)
(* Theorems about the parcels behind the doors of LockerSystem: that none  *)
(* of a cancelled order stays in a compartment, and that an opened door    *)
(* shows a customer the customer's own parcel and a courier none.          *)
(***************************************************************************)
EXTENDS LockerSystemProofs

-----------------------------------------------------------------------------
(* What a step does to doors, calls and parcels *)

\* The server and the history of its codes are left alone.
ServerRests == UNCHANGED <<orders, cabinets, reqs, issued, forgotten>>

\* Keys, pushes and failures open no door to a courier.
LEMMA StationDoors ==
    ASSUME LinkInv, Key \/ GiveUp \/ WsConnects \/ ReceivePush
    PROVE  /\ ServerRests /\ content' = content /\ task.wait # "door"
           /\ task'.wait = "door" => visit'.purpose \in {"pickup", "push"}
           /\ call' = NoCall \/ (call' = call /\ call.stage = "none")
<1>1. CASE Key
  <2>1. task.wait = "nothing"
    BY <1>1, SameKey, StationAssumed, FP!KeyDoes DEF LinkInv, Key, FP!Waiting
  <2>2. call.stage = "none"
    BY <2>1 DEF LinkInv, CallHeld, Calls, HttpWaits, VerifyWaits
  <2>3. task'.wait = "door" => visit'.purpose = "pickup"
    BY <1>1 DEF Key, NoVisit
  <2>4. QED
    BY <1>1, <2>1, <2>2, <2>3 DEF Key, ServerRests, serverVars
<1>2. CASE GiveUp
  <2>1. FP!VerifyFailed \/ FP!SyncDataFailed \/ FP!LogPosted
    BY <1>2, SameStep DEF GiveUp
  <2>2. task'.wait # "door"
    BY <2>1, StationAssumed, FP!StepResumes, ResumedNoDoor DEF LinkInv
  <2>3. task.wait # "door"
    BY <2>1 DEF FP!VerifyFailed, FP!SyncDataFailed, FP!LogPosted, FP!Waiting
  <2>4. QED
    BY <1>2, <2>2, <2>3 DEF GiveUp, ServerRests, serverVars, historyVars
<1>3. CASE WsConnects
  <2>1. FP!WsConnect
    BY <1>3, SameStep DEF WsConnects
  <2>2. task'.wait # "door" /\ task.wait = "nothing"
    BY <2>1, StationAssumed, FP!StepResumes, ResumedNoDoor
       DEF LinkInv, FP!WsConnect, FP!Waiting
  <2>3. call.stage = "none"
    BY <2>2 DEF LinkInv, CallHeld, Calls, HttpWaits, VerifyWaits
  <2>4. QED
    BY <1>3, <2>2, <2>3 DEF WsConnects, ServerRests, serverVars, historyVars
<1>4. CASE ReceivePush
  <2>1. task.wait = "nothing"
    BY <1>4 DEF ReceivePush, Station!OpenCabinet, Station!SyncRequest,
                Station!Waiting
  <2>2. call.stage = "none"
    BY <2>1 DEF LinkInv, CallHeld, Calls, HttpWaits, VerifyWaits
  <2>3. task'.wait # "door" \/ visit'.purpose = "push"
    <3>1. CASE Station!SyncRequest
      BY <3>1, SameStep, StationAssumed, FP!StepResumes, ResumedNoDoor
         DEF LinkInv
    <3>2. CASE ~Station!SyncRequest
      BY <1>4, <3>2 DEF ReceivePush, NoVisit
    <3>3. QED
      BY <3>1, <3>2
  <2>4. QED
    BY <1>4, <2>1, <2>2, <2>3 DEF ReceivePush, ServerRests, serverVars
<1> QED
  BY <1>1, <1>2, <1>3, <1>4

\* A door opened by an answer.
OpenedBy(wait, purpose) ==
    /\ call.ok /\ task.wait = wait
    /\ task'.wait = "door" /\ task'.pin = call.pin
    /\ visit'.purpose = purpose

LEMMA ReceiveDoors ==
    ASSUME LinkInv, Receive
    PROVE  /\ ServerRests /\ content' = content
           /\ call.stage = "answered" /\ task.wait # "door" /\ call' = NoCall
           /\ \/ /\ task'.wait # "door"
                 /\ ~call.ok \/ task.wait \notin VerifyWaits
              \/ /\ OpenedBy("verifyDelivery", "deliver")
                 /\ visit'.order = call.order
              \/ /\ OpenedBy("verifyPickupOnline", "pickup")
                 /\ visit'.code = task.code
<1>1. /\ ServerRests /\ content' = content
      /\ call.stage = "answered" /\ call' = NoCall
  BY DEF Receive, ServerRests, serverVars
<1>2. task.wait # "door"
  BY <1>1 DEF LinkInv, CallHeld, HttpWaits, VerifyWaits
<1>3. CASE (~call.ok /\ FP!VerifyFailed) \/ FP!LogPosted
  <2>1. task'.wait # "door"
    BY <1>3, StationAssumed, FP!StepResumes, ResumedNoDoor DEF LinkInv
  <2>2. ~call.ok \/ task.wait \notin VerifyWaits
    BY <1>3 DEF FP!LogPosted, FP!Waiting, VerifyWaits
  <2>3. QED
    BY <1>1, <1>2, <2>1, <2>2
<1>4. CASE FP!SyncDataReceived(call.entries)
  <2>1. call.entries \in FP!Answers
    BY SameAnswers DEF LinkInv, CallHeld, Calls
  <2>2. task'.wait # "door"
    BY <1>4, <2>1, StationAssumed, FP!StepResumes, ResumedNoDoor DEF LinkInv
  <2>3. task.wait \notin VerifyWaits
    BY <1>4 DEF FP!SyncDataReceived, FP!Waiting, VerifyWaits
  <2>4. QED
    BY <1>1, <1>2, <2>2, <2>3
<1>5. CASE /\ call.ok /\ FP!DeliveryVerified(call.pin)
           /\ visit' = [NoVisit EXCEPT !.purpose = "deliver",
                                       !.order = call.order]
  <2>1. visit'.purpose = "deliver" /\ visit'.order = call.order
    BY <1>5 DEF NoVisit
  <2>2. /\ task.wait = "verifyDelivery"
        /\ task'.wait = "door" /\ task'.pin = call.pin
    BY <1>5, AnswerOpens DEF Receive, FP!DeliveryVerified, FP!Waiting
  <2>3. QED
    BY <1>1, <1>2, <1>5, <2>1, <2>2 DEF OpenedBy
<1>6. CASE /\ call.ok /\ FP!PickupVerified(call.pin)
           /\ visit' = [NoVisit EXCEPT !.purpose = "pickup", !.code = task.code]
  <2>1. visit'.purpose = "pickup" /\ visit'.code = task.code
    BY <1>6 DEF NoVisit
  <2>2. /\ task.wait = "verifyPickupOnline"
        /\ task'.wait = "door" /\ task'.pin = call.pin
    BY <1>6, AnswerOpens DEF Receive, FP!PickupVerified, FP!Waiting
  <2>3. QED
    BY <1>1, <1>2, <1>6, <2>1, <2>2 DEF OpenedBy
<1>7. QED
  BY <1>3, <1>4, <1>5, <1>6, SameStep, SameOpening, SameSyncData DEF Receive

\* What the closing of a door leaves behind it.
Exchanged ==
    content' = [content EXCEPT ![task.pin] =
                  IF visit.purpose = "deliver" THEN visit.order ELSE Null]

LEMMA ClosingDoors ==
    ASSUME LinkInv
    PROVE  /\ DoorCloses => /\ ServerRests /\ Exchanged /\ task.wait = "door"
                            /\ task'.wait # "door"
                            /\ call' = call /\ call.stage = "none"
           /\ PowerCut => /\ ServerRests /\ task'.wait # "door" /\ call' = NoCall
                          /\ \/ content' = content
                             \/ task.wait = "door" /\ Exchanged
<1>1. ASSUME DoorCloses
      PROVE  /\ ServerRests /\ Exchanged /\ task.wait = "door"
             /\ task'.wait # "door" /\ call' = call /\ call.stage = "none"
  <2>1. FP!BoxClosed
    BY <1>1, SameStep DEF DoorCloses
  <2>2. task'.wait # "door" /\ task.wait = "door"
    BY <2>1, StationAssumed, FP!StepResumes, ResumedNoDoor
       DEF LinkInv, FP!BoxClosed, FP!Waiting
  <2>3. call.stage = "none"
    BY <2>2 DEF LinkInv, CallHeld, Calls, HttpWaits, VerifyWaits
  <2>4. QED
    BY <1>1, <2>2, <2>3 DEF DoorCloses, ServerRests, serverVars, Exchanged
<1>2. ASSUME PowerCut
      PROVE  /\ ServerRests /\ task'.wait # "door" /\ call' = NoCall
             /\ content' = content \/ (task.wait = "door" /\ Exchanged)
  <2>1. task'.wait # "door"
    BY <1>2, SameStep DEF PowerCut, FP!Restart, FP!Loop
  <2>2. QED
    BY <1>2, <2>1 DEF PowerCut, ServerRests, serverVars, Exchanged, Station!Waiting
<1> QED
  BY <1>1, <1>2

\* Steps that touch neither doors nor calls nor parcels.
LEMMA RestingDoors ==
    ASSUME RegisterDevice \/ WsDisconnects \/ WifiChange \/ UNCHANGED vars
    PROVE  ServerRests /\ UNCHANGED <<content, call, task, visit>>
  BY SameStep
     DEF RegisterDevice, WsDisconnects, WifiChange, vars, serverVars, stationVars,
         historyVars, FP!WsDisconnect, FP!WifiChange, ServerRests

\* The server at work leaves the doors alone, and answers a call or not.
LEMMA ServerDoors ==
    ASSUME LinkInv, NEW r \in Slots, ServerStep(r)
    PROVE  /\ SP!HandlerStep(r)
           /\ UNCHANGED <<content, task, visit, forgotten>>
           /\ \/ /\ call' = call
                 /\ reqs'[r].step = "idle" =>
                       ~(call.stage = "served" /\ call.slot = r)
              \/ /\ reqs'[r].step = "idle"
                 /\ call.stage = "served" /\ call.slot = r
                 /\ call'.stage = "answered" /\ call'.ok
                 /\ call'.order = call.order
                 /\ call'.pin = IF call.order = Null THEN Null
                                ELSE orders[call.order].cab
<1>1. SP!Handler(r)
  BY SameHandler DEF ServerStep
<1>2. SP!HandlerStep(r)
  BY <1>1, ServerAssumed, SP!HandlerSteps DEF LinkInv, ServerOK
<1>3. UNCHANGED <<content, task, visit, forgotten>>
  BY DEF ServerStep, stationVars
<1>4. reqs[r].step # "idle"
  BY <1>2 DEF SP!HandlerStep, SP!Finds, SP!Reserves, SP!Inserts, SP!Draws,
              SP!Delivers, SP!Closes, SP!Loads, SP!Frees, SP!Searches, SP!StepsTo,
              SP!EndsAt
<1>5. call \in Calls
  BY DEF LinkInv, CallHeld
<1>6. CASE Answered(r) /\ call.stage = "served" /\ call.slot = r
  <2>1. call' = [call EXCEPT !.stage = "answered", !.ok = TRUE,
                   !.pin = IF call.order = Null THEN Null
                           ELSE orders[call.order].cab]
    BY <1>6 DEF ServerStep, CabinetPin
  <2>2. /\ call'.stage = "answered" /\ call'.ok /\ call'.order = call.order
        /\ call'.pin = IF call.order = Null THEN Null ELSE orders[call.order].cab
    BY <1>5, <2>1 DEF Calls
  <2>3. QED
    BY <1>2, <1>3, <1>6, <2>2 DEF Answered
<1>7. CASE ~(Answered(r) /\ call.stage = "served" /\ call.slot = r)
  BY <1>2, <1>3, <1>4, <1>7 DEF ServerStep, Answered
<1> QED
  BY <1>6, <1>7

\* Requests that arrive.
LEMMA ArrivingDoors ==
    ASSUME LinkInv
    PROVE  /\ WebArrival =>
                /\ UNCHANGED <<orders, cabinets, issued, forgotten>>
                /\ UNCHANGED <<content, call, task, visit>>
                /\ \E r \in WebSlots : \E q : Taken(r, q) /\ WebTaken(q)
           /\ \A r \in StationSlots : Serve(r) =>
                /\ UNCHANGED <<orders, cabinets, issued, forgotten>>
                /\ UNCHANGED <<content, task, visit>>
                /\ call.stage = "none"
                /\ \E q : /\ Taken(r, q) /\ ServeTaken(q)
                          /\ call' = [NoCall EXCEPT !.stage = "served",
                                        !.slot = r, !.order = q.order]
<1>1. ASSUME WebArrival
      PROVE  /\ UNCHANGED <<orders, cabinets, issued, forgotten>>
             /\ UNCHANGED <<content, call, task, visit>>
             /\ \E r \in WebSlots : \E q : Taken(r, q) /\ WebTaken(q)
  <2>1. PICK r \in WebSlots : \E q : Taken(r, q) /\ WebTaken(q)
    BY <1>1, WebTakes DEF LinkInv
  <2>2. UNCHANGED <<orders, cabinets>>
    BY <2>1 DEF Taken, SP!Arrived
  <2>3. QED
    BY <1>1, <2>1, <2>2 DEF WebArrival, stationVars, historyVars
<1>2. ASSUME NEW r \in StationSlots, Serve(r)
      PROVE  /\ UNCHANGED <<orders, cabinets, issued, forgotten>>
             /\ UNCHANGED <<content, task, visit>>
             /\ call.stage = "none"
             /\ \E q : /\ Taken(r, q) /\ ServeTaken(q)
                       /\ call' = [NoCall EXCEPT !.stage = "served",
                                     !.slot = r, !.order = q.order]
  <2>0. r \in Slots
    BY DEF Slots
  <2>1. PICK q : SP!TypeOK' /\ Taken(r, q) /\ ServeTaken(q)
    BY <1>2, <2>0, ServeTakes DEF LinkInv
  <2>2. reqs'[r] = q
    BY <2>0, <2>1, TakenKeeps DEF LinkInv
  <2>3. UNCHANGED <<orders, cabinets>>
    BY <2>1 DEF Taken, SP!Arrived
  <2>4. QED
    BY <1>2, <2>1, <2>2, <2>3 DEF Serve, stationVars, historyVars
<1> QED
  BY <1>1, <1>2

\* Calls answered without a handler.
LEMMA AnsweringDoors ==
    ASSUME Refuse \/ SyncData
    PROVE  /\ ServerRests /\ UNCHANGED <<content, task, visit>>
           /\ call.stage = "none" /\ call'.stage = "answered"
           /\ ~call'.ok \/ task.wait = "syncDataFromServer"
  BY DEF Refuse, SyncData, ServerRests, serverVars, stationVars, historyVars,
         NoCall, Station!Waiting

-----------------------------------------------------------------------------
(* No parcel of a cancelled order *)

\* The server has one request in hand at a time.  Otherwise an order whose
\* cancellation has loaded it can be delivered before it is saved.
OneSlot == \A r, s \in Slots : r = s

\* The parcel of this order has left the courier's hands, as far as the server
\* knows or knew before it restarted.
Past(o) == \/ orders[o].status \in {"delivered", "completed"}
           \/ orders[o].status = "none" /\ o \in forgotten

\* The order a request works on still has the status it was found with.
StatusKnown ==
    \A r \in Slots :
        /\ reqs[r].kind = "deliver" => reqs[r].step \in SP!DeliverSteps
        /\ reqs[r].step \in SP!DeliverSteps =>
              orders[reqs[r].order].status = "pending"
        /\ reqs[r].step = "findOrder" => reqs[r].kind = "sync"
        /\ reqs[r].step = "close" =>
              orders[reqs[r].order].status =
                 IF reqs[r].kind = "cancel" THEN "pending" ELSE "delivered"

\* A delivery is answered once its order is saved ...
CallPast ==
    /\ call.stage = "served" /\ task.wait = "verifyDelivery" =>
          reqs[call.slot].kind = "deliver" /\ reqs[call.slot].order = call.order
    /\ call.stage = "answered" /\ call.ok /\ task.wait = "verifyDelivery" =>
          call.order \in Orders /\ Past(call.order)

\* ... and only then does the door open for the parcel.
VisitPast ==
    task.wait = "door" /\ visit.purpose = "deliver" =>
        visit.order \in Orders /\ Past(visit.order)

ContentPast == \A c \in Cabinets : content[c] # Null => Past(content[c])

DoorsPast == CallPast /\ VisitPast /\ ContentPast

CancelInv == CodeInv /\ StatusKnown /\ DoorsPast

PastStays == \A o \in Orders : Past(o) => Past(o)'

LEMMA SamePast ==
    ASSUME StatusKnown, ServerRests
    PROVE  StatusKnown' /\ PastStays
  BY DEF StatusKnown, ServerRests, PastStays, Past

\* Doors that stay as they are, and calls that are not answered.
LEMMA SameDoorsPast ==
    ASSUME LinkInv, DoorsPast, PastStays, UNCHANGED <<content, task, visit>>
    PROVE  /\ ContentPast' /\ VisitPast'
           /\ /\ call' = call
              /\ call.stage = "served" => reqs'[call.slot] = reqs[call.slot]
              => CallPast'
<1>1. content \in [Cabinets -> Orders \cup {Null}]
  BY DEF LinkInv, HistoryOK
<1>2. ContentPast'
  <2>1. ASSUME NEW c \in Cabinets, content[c] # Null
        PROVE  Past(content[c])'
    <3>1. PICK o \in Orders : o = content[c]
      BY <1>1, <2>1
    <3>2. Past(o)'
      BY <2>1, <3>1 DEF DoorsPast, ContentPast, PastStays
    <3>3. QED
      BY <3>1, <3>2 DEF Past
  <2>2. QED
    BY <2>1 DEF ContentPast
<1>3. VisitPast'
  BY DEF DoorsPast, VisitPast, PastStays, Past
<1>4. ASSUME call' = call,
             call.stage = "served" => reqs'[call.slot] = reqs[call.slot]
      PROVE  CallPast'
  BY <1>4 DEF DoorsPast, CallPast, PastStays, Past
<1> QED
  BY <1>2, <1>3, <1>4

\* The station's steps.
LEMMA StationPast ==
    ASSUME CancelInv,
           \/ Key \/ GiveUp \/ WsConnects \/ ReceivePush \/ Receive \/ DoorCloses
           \/ PowerCut \/ Refuse \/ SyncData \/ RegisterDevice \/ WsDisconnects
           \/ WifiChange \/ UNCHANGED vars
    PROVE  StatusKnown' /\ DoorsPast'
<1>0. LinkInv /\ NoCall.stage = "none"
  BY DEF CancelInv, CodeInv, NoCall
<1>1. CASE Key \/ GiveUp \/ WsConnects \/ ReceivePush
  <2>1. /\ ServerRests /\ content' = content /\ call'.stage = "none"
        /\ task'.wait = "door" => visit'.purpose # "deliver"
    BY <1>0, <1>1, StationDoors
  <2>2. StatusKnown' /\ PastStays
    BY <2>1, SamePast DEF CancelInv
  <2>3. ContentPast'
    BY <2>1 DEF CancelInv, DoorsPast, ContentPast, Past, ServerRests
  <2>4. QED
    BY <2>1, <2>2, <2>3 DEF DoorsPast, CallPast, VisitPast
<1>2. CASE Receive
  <2>1. /\ ServerRests /\ content' = content
        /\ call.stage = "answered" /\ call'.stage = "none"
        /\ \/ task'.wait # "door"
           \/ /\ OpenedBy("verifyDelivery", "deliver")
              /\ visit'.order = call.order
           \/ OpenedBy("verifyPickupOnline", "pickup")
    BY <1>0, <1>2, ReceiveDoors
  <2>2. StatusKnown' /\ PastStays
    BY <2>1, SamePast DEF CancelInv
  <2>3. ContentPast'
    BY <2>1 DEF CancelInv, DoorsPast, ContentPast, Past, ServerRests
  <2>4. VisitPast'
    BY <2>1 DEF CancelInv, DoorsPast, CallPast, VisitPast, Past, ServerRests,
                OpenedBy
  <2>5. QED
    BY <2>1, <2>2, <2>3, <2>4 DEF DoorsPast, CallPast
<1>3. CASE DoorCloses \/ PowerCut
  <2>1. /\ ServerRests /\ task'.wait # "door" /\ call'.stage = "none"
        /\ content' = content \/ (task.wait = "door" /\ Exchanged)
    BY <1>0, <1>3, ClosingDoors
  <2>2. StatusKnown' /\ PastStays
    BY <2>1, SamePast DEF CancelInv
  <2>3. content \in [Cabinets -> Orders \cup {Null}]
    BY <1>0 DEF LinkInv, HistoryOK
  <2>4. ContentPast'
    <3>1. CASE content' = content
      BY <2>1, <3>1 DEF CancelInv, DoorsPast, ContentPast, Past, ServerRests
    <3>2. CASE task.wait = "door" /\ Exchanged
      <4>1. \A c \in Cabinets :
               \/ content'[c] = content[c]
               \/ content'[c] = Null
               \/ visit.purpose = "deliver" /\ content'[c] = visit.order
        BY <2>3, <3>2 DEF Exchanged
      <4>2. QED
        BY <2>1, <3>2, <4>1 DEF CancelInv, DoorsPast, ContentPast, VisitPast,
                                Past, ServerRests
    <3>3. QED
      BY <2>1, <3>1, <3>2
  <2>5. QED
    BY <2>1, <2>2, <2>4 DEF DoorsPast, CallPast, VisitPast
<1>4. CASE Refuse \/ SyncData
  <2>1. /\ ServerRests /\ UNCHANGED <<content, task, visit>>
        /\ call'.stage = "answered"
        /\ ~call'.ok \/ task.wait = "syncDataFromServer"
    BY <1>4, AnsweringDoors
  <2>2. StatusKnown' /\ PastStays
    BY <2>1, SamePast DEF CancelInv
  <2>3. ContentPast' /\ VisitPast'
    BY <1>0, <2>1, <2>2, SameDoorsPast DEF CancelInv
  <2>4. CallPast'
    BY <2>1 DEF CallPast
  <2>5. QED
    BY <2>2, <2>3, <2>4 DEF DoorsPast
<1>5. CASE RegisterDevice \/ WsDisconnects \/ WifiChange \/ UNCHANGED vars
  <2>1. ServerRests /\ UNCHANGED <<content, call, task, visit>>
    BY <1>5, RestingDoors
  <2>2. StatusKnown' /\ PastStays
    BY <2>1, SamePast DEF CancelInv
  <2>3. QED
    BY <1>0, <2>1, <2>2, SameDoorsPast DEF CancelInv, DoorsPast, ServerRests
<1> QED
  BY <1>1, <1>2, <1>3, <1>4, <1>5

\* Requests that arrive leave the orders alone.
LEMMA ArrivingPast ==
    ASSUME CancelInv, WebArrival \/ \E r \in StationSlots : Serve(r)
    PROVE  StatusKnown' /\ DoorsPast'
<1>0. LinkInv
  BY DEF CancelInv, CodeInv
<1>1. PICK r \in Slots : \E q :
        /\ Taken(r, q) /\ (WebTaken(q) \/ ServeTaken(q))
        /\ UNCHANGED <<orders, forgotten>> /\ UNCHANGED <<content, task, visit>>
        /\ \/ call' = call
           \/ /\ ServeTaken(q)
              /\ call' = [NoCall EXCEPT !.stage = "served", !.slot = r,
                                        !.order = q.order]
  BY <1>0, ArrivingDoors DEF Slots
<1>2. PICK q :
        /\ Taken(r, q) /\ (WebTaken(q) \/ ServeTaken(q))
        /\ UNCHANGED <<orders, forgotten>> /\ UNCHANGED <<content, task, visit>>
        /\ \/ call' = call
           \/ /\ ServeTaken(q)
              /\ call' = [NoCall EXCEPT !.stage = "served", !.slot = r,
                                        !.order = q.order]
  BY <1>1
<1>3. /\ reqs'[r] = q /\ reqs[r].step = "idle"
      /\ \A s \in Slots \ {r} : reqs'[s] = reqs[s]
  BY <1>0, <1>2 DEF LinkInv, ServerOK, SP!TypeOK, Taken, SP!Arrived
<1>4. PastStays
  BY <1>2 DEF PastStays, Past
<1>5. StatusKnown'
  <2>1. /\ q.kind = "deliver" => q.step \in SP!DeliverSteps
        /\ q.step \in SP!DeliverSteps => orders[q.order].status = "pending"
        /\ q.step # "findOrder"
        /\ q.step = "close" =>
              orders[q.order].status = IF q.kind = "cancel" THEN "pending"
                                                           ELSE "delivered"
    BY <1>2 DEF WebTaken, ServeTaken, SP!DeliverSteps
  <2>2. QED
    BY <1>2, <1>3, <2>1 DEF CancelInv, StatusKnown
<1>6. CASE call' = call
  <2>1. call.stage = "served" => reqs'[call.slot] = reqs[call.slot]
    BY <1>0, <1>3 DEF LinkInv, CallHeld
  <2>2. QED
    BY <1>0, <1>2, <1>4, <1>5, <1>6, <2>1, SameDoorsPast DEF CancelInv, DoorsPast
<1>7. CASE /\ ServeTaken(q)
           /\ call' = [NoCall EXCEPT !.stage = "served", !.slot = r,
                                     !.order = q.order]
  <2>1. call'.stage = "served" /\ call'.slot = r /\ call'.order = q.order
    BY <1>7 DEF NoCall
  <2>2. CallPast'
    BY <1>2, <1>3, <1>7, <2>1 DEF CallPast, ServeTaken
  <2>3. ContentPast' /\ VisitPast'
    BY <1>0, <1>2, <1>4, SameDoorsPast DEF CancelInv
  <2>4. QED
    BY <1>5, <2>2, <2>3 DEF DoorsPast
<1> QED
  BY <1>2, <1>6, <1>7

\* The server at work.
LEMMA HandlerOrdersPast ==
    ASSUME OneSlot, CancelInv, NEW r \in Slots, SP!HandlerStep(r),
           forgotten' = forgotten
    PROVE  PastStays
<1>1. CASE UNCHANGED orders
  BY <1>1 DEF PastStays, Past
<1>2. CASE SP!Inserts(r)
  <2>1. /\ orders[reqs[r].order].status = "none"
        /\ reqs[r].order \notin forgotten
    BY <1>2 DEF CancelInv, CodeInv, ServerCodes, CreationsNew, SP!Inserts,
                SP!EndsAt, SP!CreateSteps
  <2>2. QED
    BY <1>2, <2>1 DEF PastStays, Past, SP!Inserts, SP!SameButOrder
<1>3. CASE SP!Delivers(r)
  BY <1>3 DEF PastStays, Past, SP!Delivers, SP!SameButOrder
<1>4. CASE SP!Closes(r)
  <2>1. orders[reqs[r].order].status =
           IF reqs[r].kind = "cancel" THEN "pending" ELSE "delivered"
    BY <1>4 DEF CancelInv, StatusKnown, SP!Closes, SP!EndsAt, SP!StepsTo
  <2>2. QED
    BY <1>4, <2>1 DEF PastStays, Past, SP!Closes, SP!SameButOrder, SP!Final
<1> QED
  BY <1>1, <1>2, <1>3, <1>4
     DEF SP!HandlerStep, SP!Finds, SP!Reserves, SP!Draws, SP!Loads, SP!Frees,
         SP!Searches, SP!SameButCabinet

LEMMA HandlerStatusKnown ==
    ASSUME OneSlot, CancelInv, NEW r \in Slots, SP!HandlerStep(r)
    PROVE  StatusKnown'
<1> SUFFICES
      /\ reqs'[r].kind = "deliver" => reqs'[r].step \in SP!DeliverSteps
      /\ reqs'[r].step \in SP!DeliverSteps =>
            orders'[reqs'[r].order].status = "pending"
      /\ reqs'[r].step = "findOrder" => reqs'[r].kind = "sync"
      /\ reqs'[r].step = "close" =>
            orders'[reqs'[r].order].status =
               IF reqs'[r].kind = "cancel" THEN "pending" ELSE "delivered"
  BY DEF OneSlot, StatusKnown
<1>1. SP!Idle.step = "idle" /\ SP!Idle.kind # "deliver"
  BY SystemAssumption DEF SP!Idle, Server!Kinds
<1>2. CASE reqs'[r] = SP!Idle
  BY <1>1, <1>2 DEF SP!DeliverSteps
<1>3. CASE SP!Searches(r)
  BY <1>2, <1>3 DEF SP!Searches, SP!EndsAt, CancelInv, StatusKnown, SP!DeliverSteps
<1>4. CASE SP!Draws(r)
  BY <1>4 DEF SP!Draws, SP!StepsTo, CancelInv, StatusKnown, SP!DeliverSteps
<1>5. CASE SP!Frees(r) \/ SP!Loads(r) \/ SP!Closes(r) \/ SP!Finds(r)
           \/ SP!Reserves(r)
  BY <1>2, <1>5 DEF SP!Frees, SP!Loads, SP!Closes, SP!Finds, SP!Reserves, SP!EndsAt,
                    SP!StepsTo, CancelInv, StatusKnown, SP!DeliverSteps
<1> QED
  BY <1>2, <1>3, <1>4, <1>5 DEF SP!HandlerStep, SP!Inserts, SP!Delivers, SP!EndsAt

LEMMA HandlerPast ==
    ASSUME OneSlot, CancelInv, NEW r \in Slots, ServerStep(r)
    PROVE  StatusKnown' /\ DoorsPast'
<1>0. LinkInv
  BY DEF CancelInv, CodeInv
<1>1. /\ SP!HandlerStep(r)
      /\ UNCHANGED <<content, task, visit>> /\ forgotten' = forgotten
  BY <1>0, ServerDoors
<1>2. StatusKnown' /\ PastStays
  BY <1>1, HandlerOrdersPast, HandlerStatusKnown
<1>3. ContentPast' /\ VisitPast'
  BY <1>0, <1>1, <1>2, SameDoorsPast DEF CancelInv
\* While the station waits for a delivery, the request is this delivery.
<1>4. ASSUME call.stage = "served", task.wait = "verifyDelivery"
      PROVE  /\ call.slot = r /\ call.order \in Orders
             /\ call.order = reqs[r].order
             /\ SP!Draws(r) \/ SP!Delivers(r)
  <2>1. call.slot = r
    BY <1>0, <1>4 DEF OneSlot, LinkInv, CallHeld
  <2>2. reqs[r].kind = "deliver" /\ reqs[r].order = call.order
    BY <1>4, <2>1 DEF CancelInv, DoorsPast, CallPast
  <2>3. reqs[r].step \in SP!DeliverSteps /\ call.order \in Orders
    BY <1>0, <2>2 DEF CancelInv, StatusKnown, LinkInv, ServerOK, RequestsHeld,
                      Stored
  <2>4. QED
    BY <1>1, <2>1, <2>2, <2>3
       DEF SP!HandlerStep, SP!Finds, SP!Reserves, SP!Inserts, SP!Closes, SP!Loads,
           SP!Frees, SP!Searches, SP!EndsAt, SP!StepsTo, SP!DeliverSteps
<1>5. CASE /\ call' = call
           /\ reqs'[r].step = "idle" =>
                 ~(call.stage = "served" /\ call.slot = r)
  <2>1. ASSUME call.stage = "served", task.wait = "verifyDelivery"
        PROVE  /\ reqs'[call.slot].kind = "deliver"
               /\ reqs'[call.slot].order = call.order
    <3>1. reqs'[r].step # "idle"
      BY <1>4, <1>5, <2>1
    <3>2. SP!Draws(r)
      BY <1>4, <2>1, <3>1 DEF SP!Delivers, SP!EndsAt, SP!Idle
    <3>3. QED
      BY <1>4, <2>1, <3>2
         DEF CancelInv, DoorsPast, CallPast, SP!Draws, SP!StepsTo
  <2>2. ASSUME call.stage = "answered", call.ok, task.wait = "verifyDelivery"
        PROVE  call.order \in Orders /\ Past(call.order)'
    <3>1. PICK o \in Orders : o = call.order /\ Past(o)
      BY <2>2 DEF CancelInv, DoorsPast, CallPast
    <3>2. QED
      BY <1>2, <1>5, <3>1 DEF PastStays, Past
  <2>3. CallPast'
    BY <1>1, <1>5, <2>1, <2>2 DEF CallPast, Past
  <2>4. QED
    BY <1>2, <1>3, <2>3 DEF DoorsPast
<1>6. CASE /\ reqs'[r].step = "idle" /\ call.stage = "served"
           /\ call'.stage = "answered" /\ call'.order = call.order
  <2>1. ASSUME task.wait = "verifyDelivery"
        PROVE  call'.order \in Orders /\ Past(call.order)'
    <3>1. SP!Delivers(r)
      BY <1>4, <1>6, <2>1 DEF SP!Draws, SP!StepsTo
    <3>2. QED
      BY <1>4, <1>6, <2>1, <3>1 DEF SP!Delivers, Past
  <2>2. CallPast'
    BY <1>1, <1>6, <2>1 DEF CallPast, Past
  <2>3. QED
    BY <1>2, <1>3, <2>2 DEF DoorsPast
<1> QED
  BY <1>0, <1>5, <1>6, ServerDoors

LEMMA ExpirePast ==
    ASSUME CancelInv, Expire
    PROVE  StatusKnown' /\ DoorsPast'
<1>1. PICK e \in Orders : SP!Expire(e)
  BY SameExpire DEF Expire
<1>2. orders \in [Orders -> SP!OrderDocs] /\ LinkInv
  BY DEF CancelInv, CodeInv, LinkInv, ServerOK, SP!TypeOK
<1>3. /\ orders' = [orders EXCEPT ![e].expired = TRUE] /\ reqs' = reqs
      /\ forgotten' = forgotten /\ UNCHANGED <<content, call, task, visit>>
  BY <1>1 DEF SP!Expire, Expire, stationVars, historyVars
<1>4. \A o \in Orders : orders'[o].status = orders[o].status
  BY <1>2, <1>3 DEF SP!OrderDocs
<1>5. PastStays
  BY <1>3, <1>4 DEF PastStays, Past
<1>6. StatusKnown'
  <2>1. \A r \in Slots :
           reqs[r].step \in {"newCode", "deliver", "close"} =>
              reqs[r].order \in Orders
    BY <1>2 DEF LinkInv, ServerOK, SP!TypeOK, SP!Supplied, SP!OrderSteps
  <2>2. QED
    BY <1>3, <1>4, <2>1 DEF CancelInv, StatusKnown, SP!DeliverSteps
<1> QED
  BY <1>2, <1>3, <1>5, <1>6, SameDoorsPast DEF CancelInv, DoorsPast

\* A restart forgets the orders, and the history remembers it.
LEMMA RestartPast ==
    ASSUME CancelInv, ServerRestart
    PROVE  StatusKnown' /\ DoorsPast'
<1>0. LinkInv
  BY DEF CancelInv, CodeInv
<1>1. /\ \A o \in Orders : orders'[o].status = "none"
      /\ \A r \in Slots : reqs'[r] = SP!Idle
      /\ forgotten' = {o \in Orders : o \in forgotten \/ orders[o].status # "none"}
      /\ UNCHANGED <<content, task, visit>>
  BY DEF ServerRestart, Server!NoOrder, Server!Idle, SP!Idle
<1>2. StatusKnown'
  BY <1>1, SystemAssumption
     DEF StatusKnown, SP!Idle, SP!DeliverSteps, Server!Kinds
<1>3. PastStays
  BY <1>1 DEF PastStays, Past
<1>4. ContentPast' /\ VisitPast'
  BY <1>0, <1>1, <1>3, SameDoorsPast DEF CancelInv
<1>5. CASE call.stage = "served"
  <2>1. call'.stage = "answered" /\ ~call'.ok
    BY <1>5 DEF ServerRestart, NoCall
  <2>2. QED
    BY <1>2, <1>4, <2>1 DEF DoorsPast, CallPast
<1>6. CASE call.stage # "served"
  BY <1>0, <1>1, <1>2, <1>3, <1>6, SameDoorsPast
     DEF CancelInv, DoorsPast, ServerRestart
<1> QED
  BY <1>5, <1>6

LEMMA CancelInit == Init => CancelInv
<1> SUFFICES ASSUME Init PROVE CancelInv
  OBVIOUS
<1>1. CodeInv
  BY CodeInit
<1>2. \A r \in Slots : reqs[r] = SP!Idle
  BY SameServerInit DEF Init, SP!Init
<1>3. StatusKnown
  BY <1>2, SystemAssumption
     DEF StatusKnown, SP!Idle, SP!DeliverSteps, Server!Kinds
<1>4. task.wait # "door" /\ call.stage = "none"
  BY SameStationInit DEF Init, FP!Init, FP!Loop, NoCall
<1>5. DoorsPast
  BY <1>4 DEF Init, DoorsPast, CallPast, VisitPast, ContentPast
<1> QED
  BY <1>1, <1>3, <1>5 DEF CancelInv

LEMMA CancelStep ==
    ASSUME OneSlot, CancelInv, [Next]_vars
    PROVE  CancelInv'
<1>1. CodeInv'
  BY CodeStep DEF OneSlot, OneDelivery, CancelInv
<1>2. StatusKnown' /\ DoorsPast'
  <2>1. CASE WebArrival \/ \E r \in StationSlots : Serve(r)
    BY <2>1, ArrivingPast
  <2>2. CASE Expire \/ ServerRestart
    BY <2>2, ExpirePast, RestartPast
  <2>3. CASE \E r \in Slots : ServerStep(r)
    BY <2>3, HandlerPast
  <2>4. CASE \/ Key \/ GiveUp \/ WsConnects \/ ReceivePush \/ Receive
             \/ DoorCloses \/ PowerCut \/ Refuse \/ SyncData \/ RegisterDevice
             \/ WsDisconnects \/ WifiChange \/ UNCHANGED vars
    BY <2>4, StationPast
  <2>5. QED
    BY <2>1, <2>2, <2>3, <2>4 DEF Next, Served
<1> QED
  BY <1>1, <1>2 DEF CancelInv

\* When the server serves one request at a time, no parcel is left in the station
\* for an order that has been cancelled: whatever the network loses or delays,
\* and whichever of server and station restarts with the door open.
THEOREM CancelledLeavesNoParcel ==
    ASSUME OneSlot
    PROVE  Spec => []NoParcelOfCancelled
<1>1. CancelInv => NoParcelOfCancelled
  <2> SUFFICES ASSUME CancelInv, NEW o \in Orders,
                      orders[o].status = "cancelled", NEW c \in Cabinets,
                      content[c] = o
               PROVE  FALSE
    BY DEF NoParcelOfCancelled
  <2>1. o # Null
    BY SystemAssumption
  <2>2. Past(o)
    BY <2>1 DEF CancelInv, DoorsPast, ContentPast
  <2>3. QED
    BY <2>2 DEF Past
<1>2. CancelInv /\ [Next]_vars => CancelInv'
  BY CancelStep
<1>3. QED
  BY <1>1, <1>2, CancelInit, PTL DEF Spec

-----------------------------------------------------------------------------
(* Own parcels only *)

\* The station and the network never fail, orders are created one after the
\* other and all else happens at the keypad.  Overlapping creations could take
\* the same compartment; an answer that is lost leaves the parcel of a completed
\* order behind; and a pickup on the web completes an order whose parcel is
\* still in the compartment, for a push that may be dropped.
Orderly == /\ NetMayFail = FALSE
           /\ Workload \subseteq {"create", "deliver", "pickup_otp"}
           /\ \A r, s \in WebSlots : r = s

PickupSteps == {"close", "loadCabinet", "free"}

CallSteps == SP!DeliverSteps \cup PickupSteps

\* What the requests are.
KindsOK ==
    \A r \in Slots :
        \/ reqs[r].step = "idle"
        \/ /\ reqs[r].kind = "create" /\ reqs[r].step \in SP!CreateSteps
           /\ r \in WebSlots
        \/ reqs[r].kind = "deliver" /\ reqs[r].step \in SP!DeliverSteps
        \/ reqs[r].kind = "pickup_otp" /\ reqs[r].step \in PickupSteps

\* A delivery or pickup is the one the station waits for ...
CallOwns ==
    \A r \in Slots : reqs[r].step \in CallSteps =>
        /\ call.stage = "served" /\ call.slot = r /\ call.order = reqs[r].order
        /\ task.wait = IF reqs[r].kind = "deliver" THEN "verifyDelivery"
                                                   ELSE "verifyPickupOnline"

\* ... and the other way round.
ServedOwns == call.stage = "served" => reqs[call.slot].step \in CallSteps

\* No open order has this compartment.
FreeOf(c) == \A o \in Orders : SP!Active(o) => orders[o].cab # c

\* Every open order has a compartment of its own, and so have the creations and
\* releases in progress.
Claims ==
    /\ \A o \in Orders : SP!Active(o) => cabinets[orders[o].cab] # Null
    /\ \A o, p \in Orders :
          SP!Active(o) /\ SP!Active(p) /\ orders[o].cab = orders[p].cab => o = p
    /\ \A r \in Slots :
          reqs[r].step = "reserve" => cabinets[reqs[r].cab] = Null
    /\ \A r \in Slots : reqs[r].step \in {"insert", "loadCabinet", "free"} =>
          cabinets[reqs[r].cab] # Null /\ FreeOf(reqs[r].cab)
    /\ \A r, s \in Slots :
          reqs[r].step = "insert" /\ reqs[s].step \in {"loadCabinet", "free"}
          => reqs[r].cab # reqs[s].cab

\* The order of a request has the status it was found with or was given.
OrdersHeld ==
    \A r \in Slots :
        /\ reqs[r].step \in SP!DeliverSteps =>
              orders[reqs[r].order].status = "pending"
        /\ reqs[r].step = "close" => orders[reqs[r].order].status = "delivered"
        /\ reqs[r].step \in {"loadCabinet", "free"} =>
              /\ orders[reqs[r].order].status = "completed"
              /\ reqs[r].cab = orders[reqs[r].order].cab

PickupServed == call.stage = "served" /\ task.wait = "verifyPickupOnline"

PickupAnswered ==
    call.stage = "answered" /\ call.ok /\ task.wait = "verifyPickupOnline"

PickupDoor == task.wait = "door" /\ visit.purpose = "pickup"

DeliveryAnswered ==
    call.stage = "answered" /\ call.ok /\ task.wait = "verifyDelivery"

DeliveryDoor == task.wait = "door" /\ visit.purpose = "deliver"

\* The parcel of order o is about to be taken out of compartment c.
TakenOut(o, c) ==
    \/ (PickupServed \/ PickupAnswered) /\ call.order = o
    \/ PickupDoor /\ task.pin = c /\ issued[o].code = visit.code

\* A parcel is in its order's compartment, until the pickup that completes the
\* order has opened the door.
Parcels ==
    \A c \in Cabinets : \A o \in Orders : content[c] = o =>
        /\ orders[o].cab = c
        /\ \/ orders[o].status = "delivered"
           \/ orders[o].status = "completed" /\ TakenOut(o, c)

NoneDelivered(c) ==
    \A o \in Orders : orders[o].status = "delivered" => orders[o].cab # c

Pickups ==
    /\ PickupAnswered =>
          /\ call.order \in Orders /\ orders[call.order].status = "completed"
          /\ orders[call.order].cab = call.pin
          /\ issued[call.order].code = task.code
          /\ NoneDelivered(call.pin)
    /\ PickupDoor => NoneDelivered(task.pin)

\* Order o is delivered and its parcel not in yet.
PutIn(o, c) ==
    /\ o \in Orders /\ orders[o].status = "delivered" /\ orders[o].cab = c
    /\ content[c] = Null

Deliveries ==
    /\ DeliveryAnswered => PutIn(call.order, call.pin)
    /\ DeliveryDoor => PutIn(visit.order, task.pin)

\* The network holds, and no push opens a door.
Quiet ==
    /\ wifi = TRUE
    /\ \A i \in DOMAIN pushed : pushed[i].event = "sync_request"
    /\ task.wait = "door" => visit.purpose \in {"deliver", "pickup"}

RequestsOrderly == KindsOK /\ Claims /\ OrdersHeld

CallOrderly == CallOwns /\ ServedOwns

DoorsOrderly == Parcels /\ Pickups /\ Deliveries

ParcelInv == CodeInv /\ RequestsOrderly /\ CallOrderly /\ DoorsOrderly /\ Quiet

\* The station has one call, so deliveries and pickups do not overlap; and while
\* none is served, none is under way.
LEMMA OneCall ==
    ASSUME CallOwns
    PROVE  /\ OneDelivery
           /\ \A r, s \in Slots :
                 reqs[r].step \in CallSteps /\ reqs[s].step \in CallSteps => r = s
           /\ call.stage # "served" =>
                 \A r \in Slots : reqs[r].step \notin CallSteps
  BY DEF CallOwns, CallSteps, OneDelivery

LEMMA OneCreation ==
    ASSUME Orderly, KindsOK
    PROVE  \A r, s \in Slots :
              reqs[r].step \in SP!CreateSteps /\ reqs[s].step \in SP!CreateSteps
              => r = s
  BY DEF Orderly, KindsOK, SP!CreateSteps, SP!DeliverSteps, PickupSteps

\* What a request works on exists.
LEMMA InHand ==
    ASSUME LinkInv, KindsOK
    PROVE  /\ \A r \in Slots :
                 reqs[r].step \in {"reserve", "insert", "loadCabinet", "free"} =>
                    reqs[r].cab \in Cabinets
           /\ \A r \in Slots :
                 reqs[r].step = "insert" \/ reqs[r].step \in CallSteps =>
                    reqs[r].order \in Orders
           /\ \A o \in Orders : SP!Active(o) => orders[o].cab \in Cabinets
<1>1. \A r \in Slots : reqs[r].step \in PickupSteps =>
                          reqs[r].order \in Orders
  BY DEF KindsOK, SP!CreateSteps, SP!DeliverSteps, PickupSteps, LinkInv, ServerOK,
         RequestsHeld, Stored
<1>2. SP!TypeOK
  BY DEF LinkInv, ServerOK
<1> QED
  BY <1>1, <1>2 DEF SP!TypeOK, SP!Supplied, SP!OrderSteps,
     SP!CabinetSteps, SP!Active, CallSteps, SP!DeliverSteps

\* A request keeps its kind while it goes on; only a pickup closes an order, and
\* its handler ends with the release of the compartment.
LEMMA StepKinds ==
    ASSUME KindsOK, NEW r \in Slots, SP!HandlerStep(r)
    PROVE  /\ KindsOK'
           /\ ~SP!Searches(r)
           /\ SP!Closes(r) => /\ SP!StepsTo(r, "close", "loadCabinet")
                              /\ reqs'[r].cab = orders[reqs[r].order].cab
                              /\ SP!Final(r) = "completed"
           /\ SP!Frees(r) => SP!EndsAt(r, "free")
<1>1. SP!Idle.step = "idle"
  BY DEF SP!Idle
<1>2. ~SP!Searches(r)
  BY DEF KindsOK, SP!Searches, SP!EndsAt, SP!CreateSteps, SP!DeliverSteps,
         PickupSteps
<1>3. SP!Closes(r) => /\ SP!StepsTo(r, "close", "loadCabinet")
                      /\ reqs'[r].cab = orders[reqs[r].order].cab
                      /\ SP!Final(r) = "completed"
  BY DEF KindsOK, SP!Closes, SP!EndsAt, SP!StepsTo, SP!CreateSteps,
         SP!DeliverSteps, PickupSteps, SP!Final
<1>4. SP!Frees(r) => SP!EndsAt(r, "free")
  BY DEF KindsOK, SP!Frees, SP!EndsAt, SP!StepsTo, SP!CreateSteps,
         SP!DeliverSteps, PickupSteps
<1>5. \/ reqs'[r].step = "idle"
      \/ /\ reqs'[r].kind = "create" /\ reqs'[r].step \in SP!CreateSteps
         /\ r \in WebSlots
      \/ reqs'[r].kind = "deliver" /\ reqs'[r].step \in SP!DeliverSteps
      \/ reqs'[r].kind = "pickup_otp" /\ reqs'[r].step \in PickupSteps
  <2>1. CASE SP!Finds(r) \/ SP!Reserves(r) \/ SP!Inserts(r)
    BY <1>1, <2>1 DEF KindsOK, SP!Finds, SP!Reserves, SP!Inserts, SP!EndsAt,
       SP!StepsTo, SP!CreateSteps, SP!DeliverSteps, PickupSteps
  <2>2. CASE SP!Draws(r) \/ SP!Delivers(r)
    BY <1>1, <2>2 DEF KindsOK, SP!Draws, SP!Delivers, SP!EndsAt, SP!StepsTo,
       SP!CreateSteps, SP!DeliverSteps, PickupSteps
  <2>3. CASE SP!Closes(r) \/ SP!Loads(r) \/ SP!Frees(r)
    BY <1>1, <1>3, <1>4, <2>3 DEF KindsOK, SP!Loads, SP!EndsAt, SP!StepsTo,
       SP!CreateSteps, SP!DeliverSteps, PickupSteps
  <2>4. QED
    BY <1>2, <2>1, <2>2, <2>3 DEF SP!HandlerStep
<1>6. KindsOK'
  BY <1>5 DEF KindsOK, SP!HandlerStep
<1> QED
  BY <1>2, <1>3, <1>4, <1>6

\* A creation reserves a compartment that is free and inserts its order there.
LEMMA CreationClaims ==
    ASSUME Orderly, ParcelInv, NEW r \in Slots, SP!HandlerStep(r),
           SP!Finds(r) \/ SP!Reserves(r) \/ SP!Inserts(r)
    PROVE  Claims' /\ OrdersHeld'
<1>0. SP!Idle.step = "idle" /\ LinkInv /\ KindsOK
  BY DEF SP!Idle, ParcelInv, CodeInv, RequestsOrderly
<1>1. /\ \A s \in Slots \ {r} : reqs'[s] = reqs[s]
      /\ \A s \in Slots \ {r} : reqs[s].step \notin SP!CreateSteps
      /\ Claims /\ OrdersHeld
  <2>1. reqs[r].step \in SP!CreateSteps
    BY DEF SP!Finds, SP!Reserves, SP!Inserts, SP!EndsAt, SP!StepsTo, SP!CreateSteps
  <2>2. QED
    BY <2>1, OneCreation DEF ParcelInv, RequestsOrderly, SP!HandlerStep
<1>2. CASE SP!Finds(r)
  <2>1. Claims'
    BY <1>0, <1>1, <1>2, InHand
       DEF Claims, SP!Finds, SP!EndsAt, SP!StepsTo, FreeOf, SP!Active
  <2>2. OrdersHeld'
    BY <1>0, <1>1, <1>2
       DEF OrdersHeld, SP!Finds, SP!EndsAt, SP!StepsTo, SP!DeliverSteps
  <2>3. QED
    BY <2>1, <2>2
<1>3. CASE SP!Reserves(r)
  <2>1. /\ reqs[r].step = "reserve" /\ reqs'[r].step = "insert"
        /\ reqs'[r].cab = reqs[r].cab /\ orders' = orders
        /\ cabinets'[reqs[r].cab] # Null /\ cabinets[reqs[r].cab] = Null
        /\ \A c \in Cabinets : cabinets[c] # Null => cabinets'[c] # Null
        /\ \A c \in Cabinets : c # reqs[r].cab => cabinets'[c] = cabinets[c]
    BY <1>1, <1>3, SystemAssumption
       DEF SP!Reserves, SP!StepsTo, SP!SameButCabinet, Claims
  <2>2. FreeOf(reqs[r].cab)
    BY <1>1, <2>1 DEF FreeOf, Claims
  <2>3. \A o \in Orders : SP!Active(o)' <=> SP!Active(o)
    BY <2>1 DEF SP!Active
  <2>4. \A c : FreeOf(c) => FreeOf(c)'
    BY <2>1, <2>3 DEF FreeOf
  <2>5. \A o \in Orders : SP!Active(o)' => cabinets'[orders'[o].cab] # Null
    BY <1>0, <1>1, <2>1, <2>3, InHand DEF Claims
  <2>6. \A s \in Slots : reqs'[s].step # "reserve"
    BY <1>1, <2>1 DEF SP!CreateSteps
  <2>7. \A s \in Slots : reqs'[s].step \in {"insert", "loadCabinet", "free"} =>
           /\ cabinets'[reqs'[s].cab] # Null
           /\ \A o \in Orders : SP!Active(o)' => orders'[o].cab # reqs'[s].cab
    BY <1>0, <1>1, <2>1, <2>2, <2>4, InHand DEF Claims, FreeOf
  <2>8. \A s, t \in Slots :
           reqs'[s].step = "insert" /\ reqs'[t].step \in {"loadCabinet", "free"}
           => reqs'[s].cab # reqs'[t].cab
    BY <1>1, <2>1 DEF Claims, SP!CreateSteps
  <2>9. Claims'
    BY <1>1, <2>1, <2>3, <2>5, <2>6, <2>7, <2>8 DEF Claims, FreeOf
  <2>10. OrdersHeld'
    BY <1>1, <2>1 DEF OrdersHeld, SP!DeliverSteps
  <2>11. QED
    BY <2>9, <2>10
<1>4. CASE SP!Inserts(r)
  <2>1. PICK n \in Orders : n = reqs[r].order
    BY <1>0, <1>4, InHand DEF SP!Inserts, SP!EndsAt
  <2>2. /\ reqs[r].step = "insert" /\ reqs'[r].step = "idle"
        /\ cabinets' = cabinets /\ orders[n].status = "none"
        /\ orders'[n].status = "pending" /\ orders'[n].cab = reqs[r].cab
        /\ \A o \in Orders : o # n => orders'[o] = orders[o]
        /\ \A s \in Slots \ {r} : reqs[s].order # n
    BY <1>0, <1>4, <2>1
       DEF SP!Inserts, SP!EndsAt, SP!SameButOrder, ParcelInv, CodeInv,
           ServerCodes, CreationsNew, SP!CreateSteps
  <2>3. /\ cabinets[reqs[r].cab] # Null /\ FreeOf(reqs[r].cab)
        /\ reqs[r].cab \in Cabinets
    BY <1>0, <1>1, <2>2, InHand DEF Claims
  <2>4. \A o \in Orders : o # n => (SP!Active(o)' <=> SP!Active(o))
    BY <2>2 DEF SP!Active
  <2>5. \A o \in Orders : SP!Active(o)' => cabinets'[orders'[o].cab] # Null
    BY <1>1, <2>2, <2>3, <2>4 DEF Claims
  <2>6. \A o, p \in Orders :
           SP!Active(o)' /\ SP!Active(p)' /\ orders'[o].cab = orders'[p].cab
           => o = p
    BY <1>1, <2>2, <2>3, <2>4 DEF Claims, FreeOf
  <2>7. \A s \in Slots : reqs'[s].step \in {"insert", "loadCabinet", "free"} =>
           /\ s # r /\ reqs'[s] = reqs[s] /\ reqs[s].step \in {"loadCabinet", "free"}
           /\ reqs[s].cab # reqs[r].cab
    BY <1>1, <2>2 DEF Claims, SP!CreateSteps
  <2>8. \A s \in Slots : reqs'[s].step \in {"insert", "loadCabinet", "free"} =>
           /\ cabinets'[reqs'[s].cab] # Null
           /\ \A o \in Orders : SP!Active(o)' => orders'[o].cab # reqs'[s].cab
    BY <1>1, <2>2, <2>4, <2>7 DEF Claims, FreeOf
  <2>9. Claims'
    BY <1>1, <2>2, <2>5, <2>6, <2>7, <2>8 DEF Claims, FreeOf, SP!CreateSteps
  <2>10. OrdersHeld'
    <3>1. ASSUME NEW s \in Slots \ {r}, reqs[s].step \in CallSteps
          PROVE  orders'[reqs[s].order] = orders[reqs[s].order]
      BY <1>0, <2>2, <3>1, InHand
    <3>2. QED
      BY <1>1, <2>2, <3>1
         DEF OrdersHeld, SP!DeliverSteps, CallSteps, PickupSteps
  <2>11. QED
    BY <2>9, <2>10
<1> QED
  BY <1>2, <1>3, <1>4

\* A delivery keeps its order open.
LEMMA DeliveryClaims ==
    ASSUME ParcelInv, NEW r \in Slots, SP!HandlerStep(r),
           SP!Draws(r) \/ SP!Delivers(r)
    PROVE  Claims' /\ OrdersHeld'
<1>0. SP!Idle.step = "idle" /\ LinkInv /\ KindsOK
  BY DEF SP!Idle, ParcelInv, CodeInv, RequestsOrderly
<1>1. /\ \A s \in Slots \ {r} : reqs'[s] = reqs[s]
      /\ \A s \in Slots \ {r} : reqs[s].step \notin CallSteps
      /\ reqs[r].step \in SP!DeliverSteps /\ Claims /\ OrdersHeld
  <2>1. reqs[r].step \in SP!DeliverSteps
    BY DEF SP!Draws, SP!Delivers, SP!EndsAt, SP!StepsTo, SP!DeliverSteps
  <2>2. QED
    BY <2>1, OneCall
       DEF ParcelInv, RequestsOrderly, CallOrderly, SP!HandlerStep, CallSteps
<1>2. CASE SP!Draws(r)
  <2>1. /\ orders' = orders /\ cabinets' = cabinets
        /\ reqs'[r].step = "deliver" /\ reqs'[r].order = reqs[r].order
    BY <1>2 DEF SP!Draws, SP!StepsTo
  <2>2. Claims'
    BY <1>1, <2>1 DEF Claims, FreeOf, SP!Active
  <2>3. OrdersHeld'
    BY <1>1, <2>1 DEF OrdersHeld, SP!DeliverSteps
  <2>4. QED
    BY <2>2, <2>3
<1>3. CASE SP!Delivers(r)
  <2>1. PICK d \in Orders : d = reqs[r].order
    BY <1>0, <1>1, InHand DEF CallSteps
  <2>2. /\ cabinets' = cabinets /\ reqs'[r].step = "idle"
        /\ orders[d].status = "pending"
        /\ orders'[d].status = "delivered" /\ orders'[d].cab = orders[d].cab
        /\ \A o \in Orders : o # d => orders'[o] = orders[o]
    BY <1>0, <1>1, <1>3, <2>1
       DEF SP!Delivers, SP!EndsAt, SP!SameButOrder, OrdersHeld
  <2>3. \A o \in Orders : /\ SP!Active(o)' <=> SP!Active(o)
                          /\ orders'[o].cab = orders[o].cab
    BY <2>2 DEF SP!Active
  <2>4. Claims'
    BY <1>1, <2>2, <2>3 DEF Claims, FreeOf
  <2>5. OrdersHeld'
    BY <1>1, <2>2
       DEF OrdersHeld, SP!DeliverSteps, CallSteps, PickupSteps
  <2>6. QED
    BY <2>4, <2>5
<1> QED
  BY <1>2, <1>3

\* A pickup closes its order first and frees the compartment afterwards.
LEMMA PickupClaims ==
    ASSUME ParcelInv, NEW r \in Slots, SP!HandlerStep(r),
           SP!Closes(r) \/ SP!Loads(r) \/ SP!Frees(r)
    PROVE  Claims' /\ OrdersHeld'
<1>0. SP!Idle.step = "idle" /\ LinkInv /\ KindsOK
  BY DEF SP!Idle, ParcelInv, CodeInv, RequestsOrderly
<1>1. /\ \A s \in Slots \ {r} : reqs'[s] = reqs[s]
      /\ \A s \in Slots \ {r} : reqs[s].step \notin CallSteps
      /\ reqs[r].step \in PickupSteps /\ Claims /\ OrdersHeld
  <2>1. reqs[r].step \in PickupSteps
    BY DEF SP!Closes, SP!Loads, SP!Frees, SP!EndsAt, SP!StepsTo, PickupSteps
  <2>2. QED
    BY <2>1, OneCall
       DEF ParcelInv, RequestsOrderly, CallOrderly, SP!HandlerStep, CallSteps
<1>2. CASE SP!Closes(r)
  <2>1. PICK d \in Orders : d = reqs[r].order
    BY <1>0, <1>1, InHand DEF CallSteps
  <2>2. /\ cabinets' = cabinets /\ reqs'[r].step = "loadCabinet"
        /\ reqs'[r].order = d /\ reqs'[r].cab = orders[d].cab
        /\ orders[d].status = "delivered"
        /\ orders'[d].status = "completed" /\ orders'[d].cab = orders[d].cab
        /\ \A o \in Orders : o # d => orders'[o] = orders[o]
    BY <1>0, <1>1, <1>2, <2>1, StepKinds
       DEF SP!Closes, SP!StepsTo, SP!SameButOrder, OrdersHeld
  <2>3. \A o \in Orders : /\ SP!Active(o)' <=> SP!Active(o) /\ o # d
                          /\ orders'[o].cab = orders[o].cab
    BY <2>2 DEF SP!Active
  <2>4. cabinets[orders[d].cab] # Null /\ SP!Active(d)
    BY <1>1, <2>2 DEF Claims, SP!Active
  <2>5. \A o \in Orders : SP!Active(o)' => orders'[o].cab # orders[d].cab
    BY <1>1, <2>3, <2>4 DEF Claims
  <2>6. \A s \in Slots \ {r} : reqs'[s].step \in {"insert", "loadCabinet", "free"} =>
           /\ reqs[s].step = "insert" /\ cabinets[reqs[s].cab] # Null
           /\ FreeOf(reqs[s].cab)
    BY <1>1 DEF Claims, CallSteps, PickupSteps
  <2>7. \A s \in Slots \ {r} : reqs[s].step = "insert" =>
           reqs[s].cab # orders[d].cab
    BY <1>1, <2>4 DEF Claims, FreeOf
  <2>8. Claims'
    <3>1. \A s \in Slots : reqs'[s].step \in {"insert", "loadCabinet", "free"} =>
             /\ cabinets'[reqs'[s].cab] # Null
             /\ \A o \in Orders : SP!Active(o)' => orders'[o].cab # reqs'[s].cab
      BY <1>1, <2>2, <2>3, <2>4, <2>5, <2>6 DEF FreeOf
    <3>2. \A s, t \in Slots :
             reqs'[s].step = "insert" /\ reqs'[t].step \in {"loadCabinet", "free"}
             => reqs'[s].cab # reqs'[t].cab
      BY <1>1, <2>2, <2>7 DEF CallSteps, PickupSteps
    <3>3. \A s \in Slots :
             reqs'[s].step = "reserve" => cabinets'[reqs'[s].cab] = Null
      BY <1>1, <2>2 DEF Claims
    <3>4. \A o \in Orders : SP!Active(o)' => cabinets'[orders'[o].cab] # Null
      BY <1>1, <2>2, <2>3 DEF Claims
    <3>5. \A o, p \in Orders :
             SP!Active(o)' /\ SP!Active(p)' /\ orders'[o].cab = orders'[p].cab
             => o = p
      BY <1>1, <2>3 DEF Claims
    <3>6. QED
      BY <3>1, <3>2, <3>3, <3>4, <3>5 DEF Claims, FreeOf
  <2>9. OrdersHeld'
    BY <1>1, <2>2 DEF OrdersHeld, SP!DeliverSteps, CallSteps, PickupSteps
  <2>10. QED
    BY <2>8, <2>9
<1>3. CASE SP!Loads(r)
  <2>1. /\ orders' = orders /\ cabinets' = cabinets
        /\ reqs[r].step = "loadCabinet" /\ reqs'[r].step = "free"
        /\ reqs'[r].order = reqs[r].order /\ reqs'[r].cab = reqs[r].cab
    BY <1>3 DEF SP!Loads, SP!StepsTo
  <2>2. Claims'
    BY <1>1, <2>1 DEF Claims, FreeOf, SP!Active
  <2>3. OrdersHeld'
    BY <1>1, <2>1 DEF OrdersHeld, SP!DeliverSteps
  <2>4. QED
    BY <2>2, <2>3
<1>4. CASE SP!Frees(r)
  <2>1. /\ orders' = orders /\ reqs[r].step = "free" /\ reqs'[r].step = "idle"
        /\ cabinets'[reqs[r].cab] \in {Null, cabinets[reqs[r].cab]}
        /\ \A c \in Cabinets : c # reqs[r].cab => cabinets'[c] = cabinets[c]
        /\ FreeOf(reqs[r].cab)
    BY <1>0, <1>1, <1>4, StepKinds
       DEF SP!Frees, SP!EndsAt, SP!SameButCabinet, Claims
  <2>2. \A o \in Orders : SP!Active(o)' <=> SP!Active(o)
    BY <2>1 DEF SP!Active
  <2>3. \A o \in Orders : SP!Active(o)' => cabinets'[orders'[o].cab] # Null
    BY <1>0, <1>1, <2>1, <2>2, InHand DEF Claims, FreeOf
  <2>4. \A s \in Slots :
           reqs'[s].step = "reserve" => cabinets'[reqs'[s].cab] = Null
    BY <1>0, <1>1, <2>1, InHand DEF Claims
  <2>5. \A s \in Slots : reqs'[s].step \in {"insert", "loadCabinet", "free"} =>
           /\ s # r /\ reqs'[s] = reqs[s] /\ reqs[s].step = "insert"
           /\ reqs[s].cab # reqs[r].cab /\ reqs[s].cab \in Cabinets
    BY <1>0, <1>1, <2>1, InHand DEF Claims, CallSteps, PickupSteps
  <2>6. \A s \in Slots : reqs'[s].step \in {"insert", "loadCabinet", "free"} =>
           /\ cabinets'[reqs'[s].cab] # Null
           /\ \A o \in Orders : SP!Active(o)' => orders'[o].cab # reqs'[s].cab
    BY <1>1, <2>1, <2>2, <2>5 DEF Claims, FreeOf
  <2>7. Claims'
    BY <1>1, <2>1, <2>2, <2>3, <2>4, <2>5, <2>6 DEF Claims, FreeOf
  <2>8. OrdersHeld'
    BY <1>1, <2>1 DEF OrdersHeld, SP!DeliverSteps, CallSteps, PickupSteps
  <2>9. QED
    BY <2>7, <2>8
<1> QED
  BY <1>2, <1>3, <1>4

LEMMA HandlerClaims ==
    ASSUME Orderly, ParcelInv, NEW r \in Slots, SP!HandlerStep(r)
    PROVE  RequestsOrderly'
<1>1. KindsOK' /\ ~SP!Searches(r)
  BY StepKinds DEF ParcelInv, RequestsOrderly
<1>2. Claims' /\ OrdersHeld'
  BY <1>1, CreationClaims, DeliveryClaims, PickupClaims DEF SP!HandlerStep
<1> QED
  BY <1>1, <1>2 DEF RequestsOrderly

\* The request the station waits for goes on, or is answered.
LEMMA HandlerCall ==
    ASSUME ParcelInv, NEW r \in Slots, ServerStep(r)
    PROVE  CallOrderly'
<1>0. LinkInv /\ KindsOK
  BY DEF ParcelInv, CodeInv, RequestsOrderly
<1>1. /\ SP!HandlerStep(r) /\ task' = task
      /\ \A s \in Slots \ {r} : reqs'[s] = reqs[s]
  BY <1>0, ServerDoors DEF SP!HandlerStep
<1>2. reqs'[r].step # "idle" =>
         /\ reqs'[r].kind = reqs[r].kind /\ reqs'[r].order = reqs[r].order
         /\ reqs'[r].step \in CallSteps <=> reqs[r].step \in CallSteps
  <2>1. SP!Idle.step = "idle"
    BY DEF SP!Idle
  <2>2. CASE SP!Finds(r) \/ SP!Reserves(r) \/ SP!Inserts(r)
    BY <2>1, <2>2 DEF SP!Finds, SP!Reserves, SP!Inserts, SP!EndsAt, SP!StepsTo,
       CallSteps, SP!DeliverSteps, PickupSteps
  <2>3. CASE SP!Draws(r) \/ SP!Delivers(r)
    BY <2>1, <2>3 DEF SP!Draws, SP!Delivers, SP!EndsAt, SP!StepsTo,
       CallSteps, SP!DeliverSteps, PickupSteps
  <2>4. CASE SP!Closes(r) \/ SP!Loads(r) \/ SP!Frees(r)
    BY <1>0, <1>1, <2>1, <2>4, StepKinds DEF SP!Loads, SP!EndsAt, SP!StepsTo,
       CallSteps, SP!DeliverSteps, PickupSteps
  <2>5. QED
    BY <1>0, <1>1, <2>2, <2>3, <2>4, StepKinds DEF SP!HandlerStep
<1>3. "idle" \notin CallSteps
  BY DEF CallSteps, SP!DeliverSteps, PickupSteps
<1>4. CASE /\ call' = call
           /\ reqs'[r].step = "idle" =>
                 ~(call.stage = "served" /\ call.slot = r)
  <2>1. CallOwns'
    BY <1>1, <1>2, <1>3, <1>4 DEF ParcelInv, CallOrderly, CallOwns
  <2>2. call.stage = "served" => call.slot \in Slots
    BY <1>0 DEF LinkInv, CallHeld
  <2>3. ServedOwns'
    BY <1>1, <1>2, <1>4, <2>2 DEF ParcelInv, CallOrderly, ServedOwns
  <2>4. QED
    BY <2>1, <2>3 DEF CallOrderly
<1>5. CASE /\ reqs'[r].step = "idle" /\ call.stage = "served" /\ call.slot = r
           /\ call'.stage = "answered"
  <2>1. \A s \in Slots : reqs'[s].step \notin CallSteps
    BY <1>1, <1>3, <1>5 DEF ParcelInv, CallOrderly, CallOwns
  <2>2. QED
    BY <1>5, <2>1 DEF CallOrderly, CallOwns, ServedOwns
<1> QED
  BY <1>0, <1>4, <1>5, ServerDoors

\* What a handler does to the orders that have been delivered.
LEMMA HandlerOrders ==
    ASSUME ParcelInv, NEW r \in Slots, ServerStep(r)
    PROVE  /\ \A o \in Orders : orders[o].status = "completed" =>
                 orders'[o] = orders[o] /\ issued'[o] = issued[o]
           /\ \A o \in Orders : orders[o].status = "delivered" =>
                 \/ orders'[o] = orders[o]
                 \/ /\ SP!Closes(r) /\ o = reqs[r].order
                    /\ orders'[o].status = "completed"
                    /\ orders'[o].cab = orders[o].cab
           /\ reqs[r].step \notin CallSteps =>
                 \A o \in Orders :
                    \/ orders[o].status = "delivered" /\ orders'[o] = orders[o]
                    \/ orders[o].status # "delivered"
                       /\ orders'[o].status # "delivered"
<1>0. LinkInv /\ KindsOK /\ SP!HandlerStep(r) /\ ~SP!Searches(r)
  BY ServerDoors, StepKinds DEF ParcelInv, CodeInv, RequestsOrderly
<1>1. \A o \in Orders : orders'[o].status # "delivered" => issued'[o] = issued[o]
  BY DEF ServerStep, RecordIssued
<1>2. CASE UNCHANGED orders
  BY <1>1, <1>2
<1>3. CASE SP!Inserts(r)
  <2>1. orders[reqs[r].order].status = "none"
    BY <1>3 DEF ParcelInv, CodeInv, ServerCodes, CreationsNew, SP!Inserts,
                SP!EndsAt, SP!CreateSteps
  <2>2. QED
    BY <1>1, <1>3, <2>1 DEF SP!Inserts, SP!SameButOrder
<1>4. CASE SP!Delivers(r)
  <2>1. reqs[r].step \in CallSteps /\ orders[reqs[r].order].status = "pending"
    BY <1>4 DEF SP!Delivers, SP!EndsAt, CallSteps, SP!DeliverSteps, ParcelInv,
                RequestsOrderly, OrdersHeld
  <2>2. QED
    BY <1>1, <1>4, <2>1 DEF SP!Delivers, SP!SameButOrder
<1>5. CASE SP!Closes(r)
  <2>1. /\ reqs[r].step \in CallSteps /\ orders[reqs[r].order].status = "delivered"
        /\ SP!Final(r) = "completed"
    BY <1>0, <1>5, StepKinds
       DEF SP!StepsTo, CallSteps, PickupSteps, ParcelInv, RequestsOrderly, OrdersHeld
  <2>2. QED
    BY <1>1, <1>5, <2>1 DEF SP!Closes, SP!SameButOrder
<1> QED
  BY <1>0, <1>2, <1>3, <1>4, <1>5
     DEF SP!HandlerStep, SP!Finds, SP!Reserves, SP!Draws, SP!Loads, SP!Frees,
         SP!SameButCabinet

\* A creation, while the station waits for something or for nothing.
LEMMA CreationDoors ==
    ASSUME ParcelInv, NEW r \in Slots, ServerStep(r), reqs[r].step \notin CallSteps
    PROVE  DoorsOrderly'
<1>0. LinkInv /\ DoorsOrderly
  BY DEF ParcelInv, CodeInv
<1>1. UNCHANGED <<content, call, task, visit>>
  BY <1>0, ServerDoors DEF ParcelInv, CallOrderly, ServedOwns
<1>2. \A o \in Orders :
         /\ orders[o].status = "completed" =>
               orders'[o] = orders[o] /\ issued'[o] = issued[o]
         /\ \/ orders[o].status = "delivered" /\ orders'[o] = orders[o]
            \/ orders[o].status # "delivered" /\ orders'[o].status # "delivered"
  BY HandlerOrders
<1>3. Parcels'
  BY <1>0, <1>1, <1>2
     DEF DoorsOrderly, Parcels, TakenOut, PickupServed, PickupAnswered, PickupDoor
<1>4. Pickups'
  BY <1>0, <1>1, <1>2
     DEF DoorsOrderly, Pickups, NoneDelivered, PickupAnswered, PickupDoor
<1>5. Deliveries'
  BY <1>0, <1>1, <1>2
     DEF DoorsOrderly, Deliveries, PutIn, DeliveryAnswered, DeliveryDoor
<1> QED
  BY <1>3, <1>4, <1>5 DEF DoorsOrderly

\* The delivery or pickup the station waits for goes on: a pickup may complete
\* the order whose parcel the door will be opened for.
LEMMA ServedDoors ==
    ASSUME ParcelInv, NEW r \in Slots, ServerStep(r), reqs[r].step \in CallSteps,
           call' = call
    PROVE  DoorsOrderly'
<1>0. /\ LinkInv /\ KindsOK /\ DoorsOrderly
      /\ call.stage = "served" /\ call.order = reqs[r].order
      /\ task.wait = IF reqs[r].kind = "deliver" THEN "verifyDelivery"
                                                 ELSE "verifyPickupOnline"
  BY DEF ParcelInv, CodeInv, RequestsOrderly, CallOrderly, CallOwns
<1>1. UNCHANGED <<content, call, task, visit>>
  BY <1>0, ServerDoors
<1>2. \A o \in Orders :
         /\ orders[o].status = "completed" => orders'[o] = orders[o]
         /\ orders[o].status = "delivered" =>
               \/ orders'[o] = orders[o]
               \/ /\ SP!Closes(r) /\ o = reqs[r].order
                  /\ orders'[o].status = "completed"
                  /\ orders'[o].cab = orders[o].cab
  BY HandlerOrders
<1>3. SP!Closes(r) => PickupServed
  BY <1>0 DEF SP!Closes, SP!EndsAt, SP!StepsTo, KindsOK, SP!DeliverSteps,
              SP!CreateSteps, PickupSteps, PickupServed
<1>4. task.wait # "door"
  BY <1>0
<1>5. Parcels'
  BY <1>0, <1>1, <1>2, <1>3, <1>4
     DEF DoorsOrderly, Parcels, TakenOut, PickupServed, PickupAnswered, PickupDoor
<1>6. Pickups' /\ Deliveries'
  BY <1>0, <1>1, <1>4 DEF Pickups, PickupAnswered, PickupDoor, Deliveries,
                          DeliveryAnswered, DeliveryDoor
<1> QED
  BY <1>5, <1>6 DEF DoorsOrderly

\* The answer: a delivery has been saved and its compartment is empty; a pickup
\* has completed its order, and no other has the compartment.
LEMMA AnsweredDoors ==
    ASSUME ParcelInv, NEW r \in Slots, ServerStep(r), reqs[r].step \in CallSteps,
           reqs'[r].step = "idle", call'.stage = "answered", call'.ok,
           call'.order = call.order,
           call'.pin = IF call.order = Null THEN Null ELSE orders[call.order].cab
    PROVE  DoorsOrderly'
<1>0. /\ LinkInv /\ KindsOK /\ DoorsOrderly /\ RequestsOrderly
      /\ call.stage = "served" /\ call.order = reqs[r].order
      /\ task.wait = IF reqs[r].kind = "deliver" THEN "verifyDelivery"
                                                 ELSE "verifyPickupOnline"
  BY DEF ParcelInv, CodeInv, RequestsOrderly, CallOrderly, CallOwns
<1>1. SP!HandlerStep(r) /\ UNCHANGED <<content, task, visit>>
  BY <1>0, ServerDoors
<1>2. PICK d \in Orders : d = reqs[r].order
  BY <1>0, InHand
<1>3. d # Null /\ call'.pin = orders[d].cab
  BY <1>0, <1>2, SystemAssumption
<1>4. task.wait # "door"
  BY <1>0
<1>5. CASE SP!Delivers(r)
  <2>1. /\ task.wait = "verifyDelivery" /\ orders[d].status = "pending"
        /\ orders'[d].status = "delivered" /\ orders'[d].cab = orders[d].cab
        /\ \A o \in Orders : o # d => orders'[o] = orders[o]
    BY <1>0, <1>2, <1>5
       DEF SP!Delivers, SP!EndsAt, SP!SameButOrder, KindsOK, SP!DeliverSteps,
           SP!CreateSteps, PickupSteps, RequestsOrderly, OrdersHeld
  \* Nothing is being taken out, so every parcel is of a delivered order.
  <2>2. \A c \in Cabinets : \A o \in Orders : content[c] = o =>
           orders[o].cab = c /\ orders[o].status = "delivered"
    BY <1>0, <2>1 DEF DoorsOrderly, Parcels, TakenOut, PickupServed,
                      PickupAnswered, PickupDoor
  <2>3. content[orders[d].cab] = Null
    <3>1. SP!Active(d) /\ orders[d].cab \in Cabinets
      BY <1>0, <2>1, InHand DEF SP!Active
    <3>2. ASSUME NEW p \in Orders, content[orders[d].cab] = p
          PROVE  FALSE
      <4>1. orders[p].cab = orders[d].cab /\ SP!Active(p) /\ p # d
        BY <2>1, <2>2, <3>1, <3>2 DEF SP!Active
      <4>2. QED
        BY <1>0, <3>1, <4>1 DEF RequestsOrderly, Claims
    <3>3. content[orders[d].cab] \in Orders \cup {Null}
      BY <1>0, <3>1 DEF LinkInv, HistoryOK
    <3>4. QED
      BY <3>2, <3>3
  <2>4. Parcels'
    BY <1>1, <2>1, <2>2 DEF Parcels
  <2>5. Deliveries'
    BY <1>0, <1>1, <1>2, <1>3, <1>4, <2>1, <2>3
       DEF Deliveries, PutIn, DeliveryDoor
  <2>6. Pickups'
    BY <1>1, <1>4, <2>1 DEF Pickups, PickupAnswered, PickupDoor
  <2>7. QED
    BY <2>4, <2>5, <2>6 DEF DoorsOrderly
<1>6. CASE SP!Frees(r)
  <2>1. /\ task.wait = "verifyPickupOnline" /\ orders' = orders
        /\ orders[d].status = "completed" /\ FreeOf(orders[d].cab)
    BY <1>0, <1>2, <1>6, StepKinds, <1>1
       DEF SP!Frees, SP!EndsAt, SP!SameButCabinet, KindsOK, SP!DeliverSteps,
           SP!CreateSteps, PickupSteps, RequestsOrderly, OrdersHeld, Claims
  <2>2. issued[d].code = task.code
    BY <1>0, <1>2, <2>1 DEF ParcelInv, CodeInv, StationCodes, CallFits
  <2>3. issued'[d] = issued[d]
    BY <2>1, HandlerOrders
  <2>4. Parcels'
    BY <1>0, <1>1, <2>1
       DEF DoorsOrderly, Parcels, TakenOut, PickupServed, PickupAnswered, PickupDoor
  <2>5. Pickups'
    BY <1>0, <1>1, <1>2, <1>3, <1>4, <2>1, <2>2, <2>3
       DEF Pickups, PickupDoor, NoneDelivered, FreeOf, SP!Active
  <2>6. Deliveries'
    BY <1>1, <1>4, <2>1 DEF Deliveries, DeliveryAnswered, DeliveryDoor
  <2>7. QED
    BY <2>4, <2>5, <2>6 DEF DoorsOrderly
<1>7. SP!Delivers(r) \/ SP!Frees(r)
  BY <1>0, <1>1, StepKinds
     DEF SP!HandlerStep, SP!Finds, SP!Reserves, SP!Inserts, SP!Draws, SP!Loads,
         SP!EndsAt, SP!StepsTo, CallSteps, SP!DeliverSteps, PickupSteps
<1> QED
  BY <1>5, <1>6, <1>7

\* The only pushes are those of deliveries.
LEMMA HandlerQuiet ==
    ASSUME ParcelInv, NEW r \in Slots, ServerStep(r)
    PROVE  Quiet'
<1>0. LinkInv /\ Quiet /\ KindsOK /\ SP!HandlerStep(r)
  BY ServerDoors DEF ParcelInv, CodeInv, RequestsOrderly
<1>1. UNCHANGED <<wifi, task, visit>>
  BY DEF ServerStep, stationVars
<1>2. reqs[r].kind # "pickup_web"
  BY <1>0 DEF KindsOK, SP!HandlerStep, SP!Finds, SP!Reserves, SP!Inserts, SP!Draws,
              SP!Delivers, SP!Closes, SP!Loads, SP!Frees, SP!Searches, SP!EndsAt,
              SP!StepsTo
<1>3. CASE pushed' = pushed
  BY <1>0, <1>1, <1>3 DEF Quiet
<1>4. ASSUME NEW push, push.event = "sync_request", pushed' = Append(pushed, push)
      PROVE  Quiet'
  <2>1. pushed \in Seq(Push) /\ DOMAIN pushed = 1 .. Len(pushed)
    BY <1>0, PushesAre DEF LinkInv
  <2>2. \A i \in DOMAIN pushed' :
           pushed'[i] = push \/ (i \in DOMAIN pushed /\ pushed'[i] = pushed[i])
    BY <1>4, <2>1
  <2>3. QED
    BY <1>0, <1>1, <1>4, <2>2 DEF Quiet
<1>5. pushed' = pushed \/ \E push : push.event = "sync_request"
                                    /\ pushed' = Append(pushed, push)
  BY <1>2 DEF ServerStep, SendToESP32
<1> QED
  BY <1>3, <1>4, <1>5

LEMMA HandlerParcels ==
    ASSUME Orderly, ParcelInv, NEW r \in Slots, ServerStep(r)
    PROVE  RequestsOrderly' /\ CallOrderly' /\ DoorsOrderly' /\ Quiet'
<1>0. LinkInv /\ SP!HandlerStep(r)
  BY ServerDoors DEF ParcelInv, CodeInv
<1>1. DoorsOrderly'
  <2>1. CASE reqs[r].step \notin CallSteps
    BY <2>1, CreationDoors
  <2>2. CASE reqs[r].step \in CallSteps
    BY <1>0, <2>2, ServedDoors, AnsweredDoors, ServerDoors
  <2>3. QED
    BY <2>1, <2>2
<1> QED
  BY <1>0, <1>1, HandlerClaims, HandlerCall, HandlerQuiet

\* Requests that arrive, answers without a handler and expiries change neither
\* the status nor the compartment of an order.
OrdersRest ==
    /\ \A o \in Orders : /\ orders'[o].status = orders[o].status
                         /\ orders'[o].cab = orders[o].cab
    /\ UNCHANGED <<cabinets, issued, content, task, visit>>

LEMMA RestingRequests ==
    ASSUME ParcelInv, OrdersRest, UNCHANGED reqs
    PROVE  RequestsOrderly'
<1>0. LinkInv /\ KindsOK
  BY DEF ParcelInv, CodeInv, RequestsOrderly
<1>1. \A o \in Orders : SP!Active(o)' <=> SP!Active(o)
  BY DEF OrdersRest, SP!Active
<1>2. Claims'
  BY <1>1 DEF ParcelInv, RequestsOrderly, Claims, FreeOf, OrdersRest
<1>3. OrdersHeld'
  BY <1>0, InHand DEF ParcelInv, RequestsOrderly, OrdersHeld, OrdersRest,
                      CallSteps, PickupSteps
<1> QED
  BY <1>0, <1>2, <1>3 DEF RequestsOrderly, KindsOK

LEMMA RestingParcels ==
    ASSUME ParcelInv, OrdersRest, UNCHANGED call
    PROVE  DoorsOrderly'
<1>1. Parcels' /\ Pickups'
  BY DEF ParcelInv, DoorsOrderly, Parcels, Pickups, TakenOut, NoneDelivered,
         PickupServed, PickupAnswered, PickupDoor, OrdersRest
<1>2. Deliveries'
  BY DEF ParcelInv, DoorsOrderly, Deliveries, PutIn, DeliveryAnswered,
         DeliveryDoor, OrdersRest
<1> QED
  BY <1>1, <1>2 DEF DoorsOrderly

\* A call that is taken up, or answered without a code or a pin.
LEMMA CalledParcels ==
    ASSUME ParcelInv, OrdersRest, call.stage = "none", task.wait # "door",
           \/ call'.stage = "served"
           \/ call'.stage = "answered"
              /\ (~call'.ok \/ task.wait = "syncDataFromServer")
    PROVE  DoorsOrderly'
<1>1. Parcels'
  BY DEF ParcelInv, DoorsOrderly, Parcels, TakenOut, PickupServed, PickupAnswered,
         PickupDoor, OrdersRest
<1>2. Pickups' /\ Deliveries'
  BY DEF Pickups, Deliveries, PickupAnswered, PickupDoor, DeliveryAnswered,
         DeliveryDoor, OrdersRest
<1> QED
  BY <1>1, <1>2 DEF DoorsOrderly

LEMMA TakenRequests ==
    ASSUME ParcelInv, NEW r \in Slots, NEW q, Taken(r, q),
           UNCHANGED <<orders, cabinets>>,
           \/ q.kind = "create" /\ q.step = "findCabinet" /\ r \in WebSlots
           \/ q.kind = "deliver" /\ q.step = "newCode"
              /\ orders[q.order].status = "pending"
           \/ q.kind = "pickup_otp" /\ q.step = "close"
              /\ orders[q.order].status = "delivered"
    PROVE  RequestsOrderly'
<1>1. /\ reqs'[r] = q /\ reqs[r].step = "idle"
      /\ \A s \in Slots \ {r} : reqs'[s] = reqs[s]
  BY DEF ParcelInv, CodeInv, LinkInv, ServerOK, SP!TypeOK, Taken, SP!Arrived
<1>2. KindsOK'
  BY <1>1 DEF ParcelInv, RequestsOrderly, KindsOK, SP!CreateSteps,
              SP!DeliverSteps, PickupSteps
<1>3. \A s \in Slots : reqs'[s].step \in {"reserve", "insert", "loadCabinet", "free"}
                       => reqs'[s] = reqs[s]
  BY <1>1
<1>4. Claims'
  BY <1>3 DEF ParcelInv, RequestsOrderly, Claims, FreeOf, SP!Active
<1>5. OrdersHeld'
  BY <1>1 DEF ParcelInv, RequestsOrderly, OrdersHeld, SP!DeliverSteps
<1> QED
  BY <1>2, <1>4, <1>5 DEF RequestsOrderly

LEMMA ArrivingParcels ==
    ASSUME Orderly, ParcelInv, WebArrival \/ \E r \in StationSlots : Serve(r)
    PROVE  RequestsOrderly' /\ CallOrderly' /\ DoorsOrderly' /\ Quiet'
<1>0. LinkInv
  BY DEF ParcelInv, CodeInv
<1>1. CASE WebArrival
  <2>1. PICK r \in WebSlots : \E q :
          Taken(r, q) /\ q.kind = "create" /\ q.step = "findCabinet"
    BY <1>0, <1>1, ArrivingDoors DEF WebTaken, Orderly
  <2>2. PICK q : Taken(r, q) /\ q.kind = "create" /\ q.step = "findCabinet"
    BY <2>1
  <2>3. /\ UNCHANGED <<orders, cabinets, issued, forgotten>>
        /\ UNCHANGED <<content, call, task, visit, wifi, pushed>>
    BY <1>0, <1>1, ArrivingDoors DEF WebArrival, stationVars
  <2>4. r \in Slots
    BY DEF Slots
  <2>5. RequestsOrderly'
    BY <2>2, <2>3, <2>4, TakenRequests
  <2>6. /\ reqs'[r] = q /\ reqs[r].step = "idle"
        /\ \A s \in Slots \ {r} : reqs'[s] = reqs[s]
    BY <1>0, <2>2, <2>4 DEF LinkInv, ServerOK, SP!TypeOK, Taken, SP!Arrived
  <2>7. CallOrderly'
    <3>1. q.step \notin CallSteps
      BY <2>2 DEF CallSteps, SP!DeliverSteps, PickupSteps
    <3>2. CallOwns'
      BY <2>3, <2>6, <3>1 DEF ParcelInv, CallOrderly, CallOwns
    <3>3. call.stage = "served" => call.slot \in Slots \ {r}
      BY <1>0, <2>6 DEF LinkInv, CallHeld
    <3>4. ServedOwns'
      BY <2>3, <2>6, <3>3 DEF ParcelInv, CallOrderly, ServedOwns
    <3>5. QED
      BY <3>2, <3>4 DEF CallOrderly
  <2>8. DoorsOrderly'
    BY <2>3, RestingParcels DEF OrdersRest
  <2>9. Quiet'
    BY <2>3 DEF ParcelInv, Quiet
  <2>10. QED
    BY <2>5, <2>7, <2>8, <2>9
<1>2. ASSUME NEW r \in StationSlots, Serve(r)
      PROVE  RequestsOrderly' /\ CallOrderly' /\ DoorsOrderly' /\ Quiet'
  <2>1. PICK q : /\ Taken(r, q) /\ ServeTaken(q)
                 /\ call' = [NoCall EXCEPT !.stage = "served", !.slot = r,
                                           !.order = q.order]
    BY <1>0, <1>2, ArrivingDoors
  <2>2. /\ UNCHANGED <<orders, cabinets, issued, forgotten>>
        /\ UNCHANGED <<content, task, visit, wifi, pushed>>
        /\ call.stage = "none"
    BY <1>0, <1>2, ArrivingDoors DEF Serve, stationVars
  <2>3. r \in Slots
    BY DEF Slots
  <2>4. /\ call'.stage = "served" /\ call'.slot = r /\ call'.order = q.order
    BY <2>1 DEF NoCall
  <2>5. /\ \/ /\ q.kind = "deliver" /\ q.step = "newCode"
              /\ orders[q.order].status = "pending"
              /\ task.wait = "verifyDelivery"
           \/ /\ q.kind = "pickup_otp" /\ q.step = "close"
              /\ orders[q.order].status = "delivered"
              /\ task.wait = "verifyPickupOnline"
    BY <2>1 DEF ServeTaken, Orderly
  <2>6. RequestsOrderly'
    BY <2>1, <2>2, <2>3, <2>5, TakenRequests
  <2>7. /\ reqs'[r] = q /\ \A s \in Slots \ {r} : reqs'[s] = reqs[s]
    BY <1>0, <2>1, <2>3 DEF LinkInv, ServerOK, SP!TypeOK, Taken, SP!Arrived
  <2>8. CallOrderly'
    <3>1. \A s \in Slots : reqs[s].step \notin CallSteps
      BY <2>2, OneCall DEF ParcelInv, CallOrderly
    <3>2. q.step \in CallSteps
      BY <2>5 DEF CallSteps, SP!DeliverSteps, PickupSteps
    <3>3. CallOwns'
      BY <2>2, <2>4, <2>5, <2>7, <3>1 DEF CallOwns
    <3>4. ServedOwns'
      BY <2>4, <2>7, <3>2 DEF ServedOwns
    <3>5. QED
      BY <3>3, <3>4 DEF CallOrderly
  <2>9. DoorsOrderly'
    BY <2>2, <2>4, <2>5, CalledParcels DEF OrdersRest
  <2>10. Quiet'
    BY <2>2 DEF ParcelInv, Quiet
  <2>11. QED
    BY <2>6, <2>8, <2>9, <2>10
<1> QED
  BY <1>1, <1>2

LEMMA ExpireParcels ==
    ASSUME ParcelInv, Expire
    PROVE  RequestsOrderly' /\ CallOrderly' /\ DoorsOrderly' /\ Quiet'
<1>1. PICK e \in Orders : SP!Expire(e)
  BY SameExpire DEF Expire
<1>2. orders \in [Orders -> SP!OrderDocs]
  BY DEF ParcelInv, CodeInv, LinkInv, ServerOK, SP!TypeOK
<1>3. /\ orders' = [orders EXCEPT ![e].expired = TRUE]
      /\ UNCHANGED <<reqs, cabinets, issued, wifi, pushed>>
      /\ UNCHANGED <<content, call, task, visit>>
  BY <1>1 DEF SP!Expire, Expire, stationVars, historyVars
<1>4. OrdersRest
  BY <1>2, <1>3 DEF SP!OrderDocs, OrdersRest
<1>5. CallOrderly' /\ Quiet'
  BY <1>3 DEF ParcelInv, CallOrderly, CallOwns, ServedOwns, Quiet
<1> QED
  BY <1>3, <1>4, <1>5, RestingRequests, RestingParcels

\* Steps of the station leave the server alone; those that end its call do so
\* with nothing being served.
LEMMA StationRequests ==
    ASSUME ParcelInv, ServerRests
    PROVE  /\ RequestsOrderly'
           /\ call' = call /\ task' = task => CallOrderly'
           /\ call.stage # "served" /\ call'.stage # "served" => CallOrderly'
<1>1. RequestsOrderly'
  BY DEF ParcelInv, RequestsOrderly, KindsOK, Claims, FreeOf, OrdersHeld,
         ServerRests, SP!Active
<1>2. call' = call /\ task' = task => CallOrderly'
  BY DEF ParcelInv, CallOrderly, CallOwns, ServedOwns, ServerRests
<1>3. call.stage # "served" /\ call'.stage # "served" => CallOrderly'
  BY DEF ParcelInv, CallOrderly, CallOwns, ServedOwns, ServerRests
<1> QED
  BY <1>1, <1>2, <1>3

\* On a reliable network no key and no push opens a door.
LEMMA KeyQuiet ==
    ASSUME ParcelInv, Key
    PROVE  task'.wait # "door" /\ UNCHANGED <<wifi, pushed>>
<1>1. wifi
  BY DEF ParcelInv, Quiet
<1>2. CASE \/ \E input \in Station!Inputs : Station!ChooseInput(input)
           \/ Station!Digit \/ Station!Erase \/ Station!Leave
  BY <1>2 DEF Key, Station!ChooseInput, Station!Digit, Station!Erase,
     Station!Leave, Station!Reading, Station!Waiting, Station!network
<1>3. CASE Station!EnterDelivery \/ Station!EnterPickupOnline
  <2>1. task'.wait \in {"verifyDelivery", "verifyPickupOnline"}
    BY <1>1, <1>3 DEF Station!EnterDelivery, Station!EnterPickupOnline, Station!Loop
  <2>2. QED
    BY <1>3, <2>1
       DEF Key, Station!EnterDelivery, Station!EnterPickupOnline, Station!network
<1>4. ~Station!EnterPickupOffline
  BY <1>1 DEF Station!EnterPickupOffline
<1> QED
  BY <1>2, <1>3, <1>4 DEF Key, Station!Key

LEMMA WsConnectsQuiet ==
    ASSUME ParcelInv, WsConnects
    PROVE  task'.wait # "door" /\ UNCHANGED <<wifi, pushed>>
<1>1. FP!WsConnect
  BY SameStep DEF WsConnects
<1>2. task'.wait # "door"
  BY <1>1, StationAssumed, FP!StepResumes, ResumedNoDoor
     DEF ParcelInv, CodeInv, LinkInv
<1> QED
  BY <1>1, <1>2 DEF WsConnects, FP!WsConnect

LEMMA PushQuiet ==
    ASSUME ParcelInv, ReceivePush
    PROVE  /\ task'.wait # "door" /\ wifi' = wifi
           /\ \A i \in DOMAIN pushed' : pushed'[i].event = "sync_request"
<1>1. /\ pushed \in Seq(Push) /\ pushed # <<>> /\ pushed' = Tail(pushed)
      /\ DOMAIN pushed = 1 .. Len(pushed)
      /\ \A i \in DOMAIN pushed : pushed[i].event = "sync_request"
  BY PushesAre DEF ReceivePush, ParcelInv, CodeInv, LinkInv, Quiet
<1>2. Len(pushed) \in Nat \ {0}
  BY <1>1, EmptySeq
<1>3. Head(pushed).event = "sync_request"
  BY <1>1, <1>2
<1>4. FP!SyncRequest
  BY <1>3, SameStep DEF ReceivePush
<1>5. task'.wait # "door" /\ wifi' = wifi
  BY <1>4, StationAssumed, FP!StepResumes, ResumedNoDoor
     DEF ParcelInv, CodeInv, LinkInv, FP!SyncRequest, FP!network
<1>6. \A i \in DOMAIN pushed' : i + 1 \in DOMAIN pushed /\ pushed'[i] = pushed[i + 1]
  <2>1. /\ pushed' \in Seq(Push) /\ Len(pushed') = Len(pushed) - 1
        /\ \A i \in 1 .. Len(pushed') : pushed'[i] = pushed[i + 1]
    BY <1>1, <1>2, HeadTailProperties
  <2>2. DOMAIN pushed' = 1 .. (Len(pushed) - 1)
    BY <1>2, <2>1, LenProperties
  <2>3. QED
    BY <1>1, <1>2, <2>1, <2>2
<1> QED
  BY <1>1, <1>5, <1>6

\* Without a call under way and with all doors shut, before and after, every
\* parcel is of a delivered order.
LEMMA ShutParcels ==
    ASSUME ParcelInv, ServerRests, content' = content, call.stage = "none",
           task.wait # "door", call'.stage = "none", task'.wait # "door"
    PROVE  DoorsOrderly'
<1>1. Parcels'
  BY DEF ParcelInv, DoorsOrderly, Parcels, TakenOut, PickupServed, PickupAnswered,
         PickupDoor, ServerRests
<1>2. Pickups' /\ Deliveries'
  BY DEF Pickups, Deliveries, PickupAnswered, PickupDoor, DeliveryAnswered,
         DeliveryDoor
<1> QED
  BY <1>1, <1>2 DEF DoorsOrderly

LEMMA LoopParcels ==
    ASSUME ParcelInv, Key \/ WsConnects \/ ReceivePush
    PROVE  RequestsOrderly' /\ CallOrderly' /\ DoorsOrderly' /\ Quiet'
<1>0. LinkInv /\ NoCall.stage = "none"
  BY DEF ParcelInv, CodeInv, NoCall
<1>1. /\ ServerRests /\ content' = content /\ task.wait # "door"
      /\ call'.stage = "none"
  BY <1>0, StationDoors
<1>2. call.stage = "none"
  <2>1. task.wait = "nothing"
    <3>1. CASE Key
      BY <1>0, <3>1, SameKey, StationAssumed, FP!KeyDoes
         DEF LinkInv, Key, FP!Waiting
    <3>2. CASE WsConnects \/ ReceivePush
      BY <3>2 DEF WsConnects, ReceivePush, Station!WsConnect, Station!OpenCabinet,
                  Station!SyncRequest, Station!Waiting
    <3>3. QED
      BY <3>1, <3>2
  <2>2. QED
    BY <1>0, <2>1 DEF LinkInv, CallHeld, Calls, HttpWaits, VerifyWaits
<1>3. task'.wait # "door" /\ Quiet'
  BY KeyQuiet, WsConnectsQuiet, PushQuiet DEF ParcelInv, Quiet
<1> QED
  BY <1>1, <1>2, <1>3, StationRequests, ShutParcels

\* The answer to a pickup opens the door of the parcel that is taken out, the
\* answer to a delivery that of an empty compartment.
LEMMA ReceiveParcels ==
    ASSUME ParcelInv, Receive
    PROVE  RequestsOrderly' /\ CallOrderly' /\ DoorsOrderly' /\ Quiet'
<1>0. LinkInv /\ DoorsOrderly /\ NoCall.stage = "none"
  BY DEF ParcelInv, CodeInv, NoCall
<1>1. /\ ServerRests /\ content' = content /\ call.stage = "answered"
      /\ task.wait # "door" /\ call'.stage = "none"
      /\ \/ /\ task'.wait # "door"
            /\ ~call.ok \/ task.wait \notin VerifyWaits
         \/ OpenedBy("verifyDelivery", "deliver") /\ visit'.order = call.order
         \/ OpenedBy("verifyPickupOnline", "pickup") /\ visit'.code = task.code
  BY <1>0, ReceiveDoors
<1>2. wifi' = wifi /\ pushed' = pushed
  BY DEF Receive, Station!VerifyFailed, Station!DeliveryVerified,
         Station!PickupVerified, Station!SyncDataReceived, Station!LogPosted,
         Station!network
<1>3. RequestsOrderly' /\ CallOrderly'
  BY <1>1, StationRequests
<1>4. CASE /\ task'.wait # "door"
           /\ ~call.ok \/ task.wait \notin VerifyWaits
  <2>1. Parcels'
    BY <1>0, <1>1, <1>4 DEF DoorsOrderly, Parcels, TakenOut, PickupServed,
       PickupAnswered, PickupDoor, ServerRests, VerifyWaits
  <2>2. Pickups' /\ Deliveries'
    BY <1>1, <1>4 DEF Pickups, Deliveries, PickupAnswered, PickupDoor,
                      DeliveryAnswered, DeliveryDoor
  <2>3. QED
    BY <1>2, <1>3, <1>4, <2>1, <2>2 DEF DoorsOrderly, ParcelInv, Quiet
<1>5. CASE OpenedBy("verifyDelivery", "deliver") /\ visit'.order = call.order
  <2>1. PutIn(call.order, call.pin)
    BY <1>0, <1>1, <1>5 DEF DoorsOrderly, Deliveries, DeliveryAnswered, OpenedBy
  <2>2. Parcels'
    BY <1>0, <1>1, <1>5 DEF DoorsOrderly, Parcels, TakenOut, PickupServed,
       PickupAnswered, PickupDoor, ServerRests, OpenedBy
  <2>3. Pickups'
    BY <1>1, <1>5 DEF Pickups, PickupAnswered, PickupDoor, OpenedBy
  <2>4. Deliveries'
    BY <1>1, <1>5, <2>1
       DEF Deliveries, DeliveryAnswered, PutIn, OpenedBy, ServerRests
  <2>5. QED
    BY <1>2, <1>3, <1>5, <2>2, <2>3, <2>4
       DEF DoorsOrderly, ParcelInv, Quiet, OpenedBy
<1>6. CASE OpenedBy("verifyPickupOnline", "pickup") /\ visit'.code = task.code
  <2>1. /\ PickupAnswered /\ orders[call.order].cab = call.pin
        /\ issued[call.order].code = task.code /\ NoneDelivered(call.pin)
    BY <1>0, <1>1, <1>6 DEF DoorsOrderly, Pickups, PickupAnswered, OpenedBy
  <2>2. PickupDoor' /\ task'.pin = call.pin
    BY <1>6 DEF PickupDoor, OpenedBy
  <2>3. ASSUME NEW c \in Cabinets, NEW o \in Orders, content[c] = o
        PROVE  /\ orders[o].cab = c
               /\ \/ orders[o].status = "delivered"
                  \/ orders[o].status = "completed" /\ TakenOut(o, c)'
    <3>1. /\ orders[o].cab = c
          /\ \/ orders[o].status = "delivered"
             \/ orders[o].status = "completed" /\ TakenOut(o, c)
      BY <1>0, <2>3 DEF DoorsOrderly, Parcels
    <3>2. ASSUME TakenOut(o, c)
          PROVE  TakenOut(o, c)'
      <4>1. call.order = o
        BY <1>1, <3>2 DEF TakenOut, PickupDoor
      <4>2. QED
        BY <1>1, <1>6, <2>1, <2>2, <3>1, <4>1 DEF TakenOut, ServerRests
    <3>3. QED
      BY <3>1, <3>2
  <2>4. Parcels'
    BY <1>1, <2>3 DEF Parcels, ServerRests
  <2>5. Pickups'
    BY <1>1, <2>1, <2>2 DEF Pickups, PickupAnswered, NoneDelivered, ServerRests
  <2>6. Deliveries'
    BY <1>1, <1>6 DEF Deliveries, DeliveryAnswered, DeliveryDoor, OpenedBy
  <2>7. QED
    BY <1>2, <1>3, <1>6, <2>4, <2>5, <2>6
       DEF DoorsOrderly, ParcelInv, Quiet, OpenedBy
<1> QED
  BY <1>1, <1>4, <1>5, <1>6

\* The door closes on the parcel that has been put in, or on nothing.
LEMMA DoorClosesParcels ==
    ASSUME ParcelInv, DoorCloses
    PROVE  RequestsOrderly' /\ CallOrderly' /\ DoorsOrderly' /\ Quiet'
<1>0. LinkInv /\ DoorsOrderly /\ Quiet
  BY DEF ParcelInv, CodeInv
<1>1. /\ ServerRests /\ Exchanged /\ task.wait = "door" /\ task'.wait # "door"
      /\ call' = call /\ call.stage = "none"
  BY <1>0, ClosingDoors
<1>2. wifi' = wifi /\ pushed' = pushed
  BY DEF DoorCloses, Station!BoxClosed, Station!network
<1>3. RequestsOrderly' /\ CallOrderly'
  BY <1>1, StationRequests
<1>4. /\ content \in [Cabinets -> Orders \cup {Null}]
      /\ visit.purpose \in {"deliver", "pickup"}
  BY <1>0, <1>1 DEF LinkInv, HistoryOK, Quiet
<1>5. \A c \in Cabinets :
         \/ c # task.pin /\ content'[c] = content[c]
         \/ /\ c = task.pin
            /\ content'[c] = IF visit.purpose = "deliver" THEN visit.order ELSE Null
  BY <1>1, <1>4 DEF Exchanged
<1>6. ASSUME NEW c \in Cabinets, NEW o \in Orders, content'[c] = o
      PROVE  orders[o].cab = c /\ orders[o].status = "delivered"
  <2>1. CASE c = task.pin
    <3>1. visit.purpose = "deliver" /\ o = visit.order
      BY <1>5, <1>6, <2>1, SystemAssumption
    <3>2. QED
      BY <1>0, <1>1, <2>1, <3>1 DEF DoorsOrderly, Deliveries, DeliveryDoor, PutIn
  <2>2. CASE c # task.pin
    <3>1. ~TakenOut(o, c)
      BY <1>1, <2>2 DEF TakenOut, PickupServed, PickupAnswered
    <3>2. QED
      BY <1>0, <1>5, <1>6, <2>2, <3>1 DEF DoorsOrderly, Parcels
  <2>3. QED
    BY <2>1, <2>2
<1>7. Parcels'
  BY <1>1, <1>6 DEF Parcels, ServerRests
<1>8. Pickups' /\ Deliveries'
  BY <1>1 DEF Pickups, Deliveries, PickupAnswered, PickupDoor, DeliveryAnswered,
              DeliveryDoor
<1> QED
  BY <1>0, <1>1, <1>2, <1>3, <1>7, <1>8 DEF DoorsOrderly, Quiet

\* Calls answered without a handler, and steps that touch neither doors nor
\* calls nor parcels.
LEMMA RestParcels ==
    ASSUME ParcelInv,
           Refuse \/ SyncData \/ RegisterDevice \/ UNCHANGED vars
    PROVE  RequestsOrderly' /\ CallOrderly' /\ DoorsOrderly' /\ Quiet'
<1>1. Quiet'
  BY DEF Refuse, SyncData, RegisterDevice, vars, stationVars, historyVars,
         ParcelInv, Quiet
<1>2. CASE Refuse \/ SyncData
  <2>1. /\ ServerRests /\ UNCHANGED <<content, task, visit>>
        /\ call.stage = "none" /\ call'.stage = "answered"
        /\ ~call'.ok \/ task.wait = "syncDataFromServer"
    BY <1>2, AnsweringDoors
  <2>2. task.wait # "door"
    BY <1>2 DEF Refuse, SyncData, Station!Waiting
  <2>3. OrdersRest
    BY <2>1 DEF OrdersRest, ServerRests
  <2>4. QED
    BY <1>1, <2>1, <2>2, <2>3, StationRequests, CalledParcels
<1>3. CASE RegisterDevice \/ UNCHANGED vars
  <2>1. ServerRests /\ UNCHANGED <<content, call, task, visit>>
    BY <1>3, RestingDoors
  <2>2. OrdersRest
    BY <2>1 DEF OrdersRest, ServerRests
  <2>3. QED
    BY <1>1, <2>1, <2>2, StationRequests, RestingParcels
<1> QED
  BY <1>2, <1>3

LEMMA ParcelInit == Orderly /\ Init => ParcelInv
<1> SUFFICES ASSUME Orderly, Init PROVE ParcelInv
  OBVIOUS
<1>1. CodeInv
  BY CodeInit
<1>2. /\ \A r \in Slots : reqs[r].step = "idle"
      /\ \A o \in Orders : orders[o].status = "none"
  BY SameServerInit DEF Init, SP!Init, SP!Idle, SP!NoOrder
<1>3. RequestsOrderly
  BY <1>2 DEF RequestsOrderly, KindsOK, Claims, OrdersHeld, SP!Active,
              SP!DeliverSteps
<1>4. task.wait # "door" /\ call.stage = "none"
  BY SameStationInit DEF Init, FP!Init, FP!Loop, NoCall
<1>5. CallOrderly
  BY <1>2, <1>4 DEF CallOrderly, CallOwns, ServedOwns, CallSteps, PickupSteps,
                    SP!DeliverSteps
<1>6. DoorsOrderly
  BY <1>4, SystemAssumption
     DEF Init, DoorsOrderly, Parcels, Pickups, Deliveries, PickupAnswered,
         PickupDoor, DeliveryAnswered, DeliveryDoor
<1>7. Quiet
  <2>1. DOMAIN <<>> = {}
    OBVIOUS
  <2>2. wifi = TRUE
    BY <1>1 DEF Init, Orderly, CodeInv, LinkInv, FP!FirmwareInv, FP!TypeOK
  <2>3. QED
    BY <1>4, <2>1, <2>2 DEF Init, Quiet
<1> QED
  BY <1>1, <1>3, <1>5, <1>6, <1>7 DEF ParcelInv

LEMMA ParcelStep ==
    ASSUME Orderly, ParcelInv, [Next]_vars
    PROVE  ParcelInv'
<1>1. CodeInv'
  BY OneCall, CodeStep DEF ParcelInv, CallOrderly
<1>2. RequestsOrderly' /\ CallOrderly' /\ DoorsOrderly' /\ Quiet'
  <2>1. ~(GiveUp \/ WsDisconnects \/ WifiChange \/ PowerCut \/ ServerRestart)
    BY DEF Orderly, GiveUp, WsDisconnects, WifiChange, PowerCut, ServerRestart
  <2>2. CASE WebArrival \/ \E r \in StationSlots : Serve(r)
    BY <2>2, ArrivingParcels
  <2>3. CASE \E r \in Slots : ServerStep(r)
    BY <2>3, HandlerParcels
  <2>4. CASE Expire \/ Key \/ WsConnects \/ ReceivePush \/ Receive \/ DoorCloses
    BY <2>4, ExpireParcels, LoopParcels, ReceiveParcels, DoorClosesParcels
  <2>5. CASE Refuse \/ SyncData \/ RegisterDevice \/ UNCHANGED vars
    BY <2>5, RestParcels
  <2>6. QED
    BY <2>1, <2>2, <2>3, <2>4, <2>5 DEF Next, Served
<1> QED
  BY <1>1, <1>2 DEF ParcelInv

LEMMA ParcelAlways ==
    ASSUME Orderly
    PROVE  Spec => []ParcelInv
<1>1. ParcelInv /\ [Next]_vars => ParcelInv'
  BY ParcelStep
<1>2. Init => ParcelInv
  BY ParcelInit
<1> QED
  BY <1>1, <1>2, PTL DEF Spec

\* With a reliable network and keypad-only traffic, a customer at a door opened with
\* a pickup code finds the compartment empty or the parcel whose pickup code was typed, however
\* creations on the web overlap with what happens at the keypad.
THEOREM CustomersFindTheirOwn ==
    ASSUME Orderly
    PROVE  Spec => []OwnParcelOnly
<1>1. ParcelInv => OwnParcelOnly
  <2> SUFFICES ASSUME ParcelInv, task.wait = "door", visit.purpose = "pickup",
                      content[task.pin] # Null
               PROVE  issued[content[task.pin]].code = visit.code
    BY DEF OwnParcelOnly, Station!Waiting
  <2>1. content \in [Cabinets -> Orders \cup {Null}]
    BY DEF ParcelInv, CodeInv, LinkInv, HistoryOK
  <2>2. task.pin \in Cabinets
    BY DEF ParcelInv, CodeInv, StationCodes, DoorFits, Given
  <2>3. PICK o \in Orders : o = content[task.pin]
    BY <2>1, <2>2
  <2>4. /\ orders[o].cab = task.pin
        /\ \/ orders[o].status = "delivered"
           \/ orders[o].status = "completed" /\ TakenOut(o, task.pin)
    BY <2>2, <2>3 DEF ParcelInv, DoorsOrderly, Parcels
  <2>5. orders[o].status # "delivered"
    BY <2>4 DEF ParcelInv, DoorsOrderly, Pickups, PickupDoor, NoneDelivered
  <2>6. QED
    BY <2>3, <2>4, <2>5 DEF TakenOut, PickupServed, PickupAnswered
<1>2. QED
  BY <1>1, ParcelAlways, PTL

\* Under the same hypotheses a courier always finds the compartment empty.
THEOREM CouriersFindRoom ==
    ASSUME Orderly
    PROVE  Spec => []EmptyForCourier
<1>1. ParcelInv => EmptyForCourier
  BY DEF ParcelInv, DoorsOrderly, Deliveries, DeliveryDoor, PutIn,
         EmptyForCourier, Station!Waiting
<1>2. QED
  BY <1>1, ParcelAlways, PTL
=============================================================================
