------------------------- MODULE LockerSystemProofs -------------------------
(***************************************************************************)
(* Theorems about LockerSystem, for every number of users, compartments,   *)
(* orders, codes and slots, on a network that may fail.                    *)
(*                                                                         *)
(* What is proved of the two parts is used through instances of their      *)
(* proof modules.  An operator of such an instance and the one of the same *)
(* name in Server or Station are two operators to the provers; the first   *)
(* section shows that they agree.                                          *)
(***************************************************************************)
EXTENDS LockerSystem, FiniteSetTheorems, SequenceTheorems, TLAPS

SP == INSTANCE LockerServerProofs WITH Requests <- Slots, DbMayFail <- FALSE

FP == INSTANCE LockerFirmwareProofs
    WITH Pins <- Cabinets, Codes <- OTPs, MaxAnswer <- Cardinality(Orders)

-----------------------------------------------------------------------------
(* The two parts and their proofs *)

\* The assumptions of the parts follow from those of the system.
LEMMA ServerAssumed == SP!ServerAssumption
  BY SystemAssumption DEF SP!ServerAssumption, SP!Kinds, Server!Kinds

LEMMA StationAssumed == FP!FirmwareAssumption
  BY SystemAssumption, FS_CardinalityType DEF FP!FirmwareAssumption


LEMMA SameServerTypes == SP!TypeOK <=> Server!TypeOK
  BY DEF SP!TypeOK, Server!TypeOK, SP!OrderDocs, Server!OrderDocs,
         SP!ReqStates, Server!ReqStates, SP!Supplied, Server!Supplied,
         SP!Kinds, Server!Kinds, SP!Statuses, Server!Statuses, SP!Steps,
         Server!Steps, SP!OrderSteps, Server!OrderSteps, SP!CabinetSteps,
         Server!CabinetSteps

LEMMA SameHandler ==
    ASSUME NEW r, Server!Handler(r)
    PROVE  SP!Handler(r)
  BY DEF SP!Handler, Server!Handler, SP!FindCabinet, Server!FindCabinet,
         SP!Reserve, Server!Reserve, SP!InsertOrder, Server!InsertOrder,
         SP!DrawPickupCode, Server!DrawPickupCode, SP!SaveDelivery,
         Server!SaveDelivery, SP!CloseOrder, Server!CloseOrder,
         SP!LoadCabinet, Server!LoadCabinet, SP!FreeCabinet,
         Server!FreeCabinet, SP!FindDelivered, Server!FindDelivered, SP!At,
         Server!At, SP!Goto, Server!Goto, SP!Respond, Server!Respond, SP!Idle,
         Server!Idle, SP!Dirty, Server!Dirty, SP!GenerateUniqueOTP,
         Server!GenerateUniqueOTP, SP!Active, Server!Active, SP!Final,
         Server!Final

LEMMA SameArrival ==
    ASSUME NEW r
    PROVE  /\ \A u : Server!CreateOrder(r, u) <=> SP!CreateOrder(r, u)
           /\ \A o : Server!Pickup(r, o) <=> SP!Pickup(r, o)
           /\ \A o : Server!CancelOrder(r, o) <=> SP!CancelOrder(r, o)
           /\ \A c : Server!VerifyDelivery(r, c) <=> SP!VerifyDelivery(r, c)
           /\ \A c : Server!VerifyPickup(r, c) <=> SP!VerifyPickup(r, c)
           /\ \A c : Server!SyncFromEsp(r, c) <=> SP!SyncFromEsp(r, c)
  BY DEF SP!Begin, Server!Begin, SP!Idle, Server!Idle, SP!GenerateUniqueOTP,
         Server!GenerateUniqueOTP, SP!Active, Server!Active, SP!FreshIds,
         Server!FreshIds, SP!Loaded, Server!Loaded, SP!CreateOrder,
         Server!CreateOrder, SP!Pickup, Server!Pickup, SP!CancelOrder,
         Server!CancelOrder, SP!VerifyDelivery, Server!VerifyDelivery,
         SP!VerifyPickup, Server!VerifyPickup, SP!SyncFromEsp,
         Server!SyncFromEsp

LEMMA SameExpire ==
    ASSUME NEW o, Server!Expire(o)
    PROVE  SP!Expire(o)
  BY DEF SP!Expire, Server!Expire

LEMMA SameServerInit == Server!Init <=> SP!Init
  BY DEF SP!Init, Server!Init, SP!NoOrder, Server!NoOrder, SP!Idle,
         Server!Idle

LEMMA SameStationTypes == FP!TypeOK <=> Station!TypeOK
  BY DEF FP!TypeOK, Station!TypeOK, FP!States, Station!States, FP!SyncEntries,
         Station!SyncEntries, FP!Tasks, Station!Tasks, FP!Waits,
         Station!Waits, FP!Functions, Station!Functions, FP!Waiting,
         Station!Waiting, FP!SeqOf, Station!SeqOf

LEMMA SameStationInit == Station!Init <=> FP!Init
  BY DEF FP!Init, Station!Init, FP!Loop, Station!Loop

LEMMA SameKey ==
    ASSUME Station!Key
    PROVE  FP!Key
<1>1. ASSUME NEW input \in Station!Inputs, Station!ChooseInput(input)
      PROVE  FP!Key
  BY <1>1
     DEF FP!Key, FP!Inputs, Station!Inputs, FP!ChooseInput, Station!ChooseInput,
         FP!Reading, Station!Reading, FP!Waiting, Station!Waiting,
         FP!network, Station!network
<1>2. CASE Station!Digit \/ Station!Erase \/ Station!Leave
  BY <1>2
     DEF FP!Key, FP!Inputs, Station!Inputs, FP!Digit, Station!Digit,
         FP!Erase, Station!Erase, FP!Leave, Station!Leave,
         FP!Reading, Station!Reading, FP!Waiting, Station!Waiting,
         FP!network, Station!network
<1>3. CASE Station!EnterDelivery \/ Station!EnterPickupOnline
  BY <1>3
     DEF FP!Key, FP!EnterDelivery, Station!EnterDelivery,
         FP!EnterPickupOnline, Station!EnterPickupOnline, FP!Loop, Station!Loop,
         FP!Reading, Station!Reading, FP!Waiting, Station!Waiting,
         FP!network, Station!network
<1>4. CASE Station!EnterPickupOffline
  <2>1. FP!EnterPickupOffline
    BY <1>4
       DEF FP!EnterPickupOffline, Station!EnterPickupOffline,
           FP!OpenBoxByPin, Station!OpenBoxByPin, FP!Loop, Station!Loop,
           FP!RemoveEntry, Station!RemoveEntry, FP!RemoveAt, Station!RemoveAt,
           FP!Reading, Station!Reading, FP!Waiting, Station!Waiting,
           FP!network, Station!network
  <2>2. QED
    BY <2>1 DEF FP!Key
<1>5. QED
  BY <1>1, <1>2, <1>3, <1>4 DEF Station!Key

LEMMA SameStep ==
    /\ Station!BoxClosed <=> FP!BoxClosed
    /\ Station!VerifyFailed <=> FP!VerifyFailed
    /\ Station!SyncDataFailed <=> FP!SyncDataFailed
    /\ Station!LogPosted <=> FP!LogPosted
    /\ Station!WsConnect <=> FP!WsConnect
    /\ Station!WsDisconnect <=> FP!WsDisconnect
    /\ Station!SyncRequest <=> FP!SyncRequest
    /\ Station!WifiChange <=> FP!WifiChange
    /\ Station!Restart <=> FP!Restart
  BY DEF FP!BoxClosed, Station!BoxClosed, FP!VerifyFailed,
         Station!VerifyFailed, FP!SyncDataFailed, Station!SyncDataFailed,
         FP!LogPosted, Station!LogPosted, FP!WsConnect, Station!WsConnect,
         FP!WsDisconnect, Station!WsDisconnect, FP!SyncRequest,
         Station!SyncRequest, FP!WifiChange, Station!WifiChange, FP!Restart,
         Station!Restart, FP!Waiting, Station!Waiting, FP!network,
         Station!network, FP!Loop, Station!Loop, FP!Call, Station!Call,
         FP!Starts, Station!Starts

LEMMA SameOpening ==
    ASSUME NEW pin
    PROVE  /\ Station!DeliveryVerified(pin) <=> FP!DeliveryVerified(pin)
           /\ Station!PickupVerified(pin) <=> FP!PickupVerified(pin)
           /\ Station!OpenCabinet(pin) <=> FP!OpenCabinet(pin)
  BY DEF FP!DeliveryVerified, Station!DeliveryVerified, FP!PickupVerified,
         Station!PickupVerified, FP!OpenCabinet, Station!OpenCabinet,
         FP!OpenBoxByPin, Station!OpenBoxByPin, FP!Loop, Station!Loop,
         FP!Waiting, Station!Waiting, FP!network, Station!network, FP!Call,
         Station!Call, FP!Starts, Station!Starts

LEMMA SameSyncData ==
    ASSUME NEW entries
    PROVE  Station!SyncDataReceived(entries) <=> FP!SyncDataReceived(entries)
  BY DEF FP!SyncDataReceived, Station!SyncDataReceived, FP!Cached,
         Station!Cached, FP!Call, Station!Call, FP!Starts, Station!Starts,
         FP!Loop, Station!Loop, FP!Waiting, Station!Waiting, FP!network,
         Station!network

LEMMA SameAnswers == Station!Answers = FP!Answers
  BY DEF FP!Answers, Station!Answers, FP!SyncEntries, Station!SyncEntries,
         FP!SeqOf, Station!SeqOf

LEMMA SameSeqOf ==
    ASSUME NEW S, NEW n
    PROVE  SeqOf(S, n) = FP!SeqOf(S, n)
  BY DEF SeqOf, FP!SeqOf

-----------------------------------------------------------------------------
(* The link between server and station: its invariant *)

Stored(o) == o \in Orders /\ orders[o].status # "none"

\* Requests that end in a push or an answer with a pin work on a stored order.
RequestsHeld ==
    \A r \in Slots : reqs[r].kind \in {"deliver", "pickup_web", "pickup_otp"} =>
                        Stored(reqs[r].order)

\* So do the pushes to open a cabinet.
PushesHeld ==
    \A i \in DOMAIN pushed :
        pushed[i].event = "open_cabinet" => Stored(pushed[i].order)

VerifyWaits == {"verifyDelivery", "verifyPickupOnline"}

HttpWaits == VerifyWaits \cup {"syncDataFromServer", "syncLogsToServer"}

\* A call belongs to a wait of the station and, while it is served, to a request
\* of the server; the answer to a verification has the pin of a stored order.
CallHeld ==
    /\ call \in Calls
    /\ call.stage # "none" => task.wait \in HttpWaits
    /\ call.stage = "served" =>
          /\ call.slot \in Slots
          /\ reqs[call.slot].step # "idle"
          /\ task.wait \in VerifyWaits => Stored(call.order)
    /\ call.stage = "answered" /\ call.ok /\ task.wait \in VerifyWaits =>
          call.pin \in Cabinets

\* An open door has been opened for something.
VisitHeld ==
    /\ visit.order \in Orders \cup {Null}
    /\ task.wait = "door" => visit # NoVisit

ServerOK == SP!TypeOK /\ RequestsHeld

PushesOK == pushed \in SeqOf(Push, MaxPushed) /\ PushesHeld

HistoryOK ==
    /\ content \in [Cabinets -> Orders \cup {Null}]
    /\ issued \in [Orders -> [code : OTPs \cup {Null}, cab : Cabinets \cup {Null}]]
    /\ forgotten \subseteq Orders

LinkInv ==
    /\ ServerOK
    /\ FP!FirmwareInv
    /\ registered \in BOOLEAN
    /\ PushesOK
    /\ CallHeld
    /\ VisitHeld
    /\ HistoryOK

LEMMA LinkTypes == LinkInv => TypeOK
  BY DEF LinkInv, PushesOK, CallHeld, VisitHeld, HistoryOK, TypeOK,
         Station!Waiting

\* Nothing is forgotten but by a restart of the server.
StoredStay == \A o \in Orders : orders[o].status # "none" =>
                                   orders'[o].status # "none"

-----------------------------------------------------------------------------
(* What stays true of the parts a step leaves alone *)

LEMMA SameServer ==
    ASSUME ServerOK, UNCHANGED serverVars
    PROVE  ServerOK' /\ StoredStay
<1>1. SP!TypeOK'
  BY ServerAssumed, SP!NextType DEF ServerOK, serverVars, SP!vars
<1> QED
  BY <1>1 DEF ServerOK, serverVars, RequestsHeld, Stored, StoredStay

LEMMA SameStation ==
    ASSUME FP!FirmwareInv, UNCHANGED stationVars
    PROVE  FP!FirmwareInv' /\ task' = task
  BY StationAssumed, FP!StepInv DEF stationVars, FP!vars, FP!network

LEMMA SamePushes ==
    ASSUME PushesOK, StoredStay, UNCHANGED pushed
    PROVE  PushesOK'
  BY DEF PushesOK, PushesHeld, StoredStay, Stored

LEMMA SameCall ==
    ASSUME CallHeld, StoredStay, UNCHANGED <<call, task>>,
           call.stage = "served" => reqs'[call.slot].step # "idle"
    PROVE  CallHeld'
  BY DEF CallHeld, StoredStay, Stored

\* The station can have a call under way only where it waits for an answer.
LEMMA CallIdle ==
    ASSUME CallHeld, task.wait \notin HttpWaits, UNCHANGED call
    PROVE  CallHeld'
  BY DEF CallHeld

LEMMA SameVisit ==
    ASSUME VisitHeld, UNCHANGED visit, task' = task \/ task'.wait # "door"
    PROVE  VisitHeld'
  BY DEF VisitHeld

LEMMA SameHistory ==
    ASSUME HistoryOK, UNCHANGED <<content, issued, forgotten>>
    PROVE  HistoryOK'
  BY DEF HistoryOK

LEMMA EmptyAnswer == <<>> \in Station!Answers
<1>1. Cardinality(Orders) \in Nat
  BY SystemAssumption, FS_CardinalityType
<1>2. <<>> \in FP!SeqOf(FP!SyncEntries, Cardinality(Orders))
  BY <1>1, StationAssumed, FP!EmptySeqOf
<1>3. <<>> \in FP!Answers
  BY <1>2 DEF FP!Answers
<1> QED
  BY <1>3, SameAnswers

LEMMA CallOver ==
    ASSUME call' = NoCall
    PROVE  CallHeld'
<1>1. NoCall \in Calls
  BY EmptyAnswer DEF NoCall, Calls
<1>2. NoCall.stage = "none"
  BY DEF NoCall
<1> QED
  BY <1>1, <1>2 DEF CallHeld

\* An answer that is no success.
LEMMA CallRefused ==
    ASSUME call' = [NoCall EXCEPT !.stage = "answered"], task' = task,
           task.wait \in HttpWaits
    PROVE  CallHeld'
<1>1. call' = [stage |-> "answered", slot |-> Null, ok |-> FALSE, order |-> Null,
               pin |-> Null, entries |-> <<>>]
  BY DEF NoCall
<1> DEFINE refusal == [stage |-> "answered", slot |-> Null, ok |-> FALSE,
                       order |-> Null, pin |-> Null, entries |-> <<>>]
<1>2. refusal \in Calls
  BY EmptyAnswer DEF Calls
<1>3. call'.stage = "answered" /\ ~call'.ok
  BY <1>1
<1>4. call' = refusal
  BY <1>1
<1> HIDE DEF refusal
<1>5. call' \in Calls
  BY <1>2, <1>4
<1> QED
  BY <1>3, <1>5 DEF CallHeld

LEMMA NewVisit ==
    ASSUME NEW purpose, NEW order \in Orders \cup {Null}, NEW code,
           purpose # "none",
           visit' = [purpose |-> purpose, order |-> order, code |-> code]
    PROVE  VisitHeld'
  BY DEF VisitHeld, NoVisit

LEMMA VisitOver ==
    ASSUME visit' = NoVisit, task'.wait # "door"
    PROVE  VisitHeld'
  BY DEF VisitHeld, NoVisit

-----------------------------------------------------------------------------
(* The pushes *)

LEMMA PushesEmpty ==
    ASSUME pushed' = <<>>
    PROVE  PushesOK'
<1>1. <<>> \in SeqOf(Push, MaxPushed)
  BY SystemAssumption, StationAssumed, FP!EmptySeqOf, SameSeqOf
<1>2. DOMAIN <<>> = {}
  OBVIOUS
<1> QED
  BY <1>1, <1>2 DEF PushesOK, PushesHeld

LEMMA PushesAre ==
    ASSUME PushesOK
    PROVE  /\ pushed \in Seq(Push)
           /\ Len(pushed) \in 0 .. MaxPushed
           /\ DOMAIN pushed = 1 .. Len(pushed)
<1>1. pushed \in FP!SeqOf(Push, MaxPushed)
  BY SameSeqOf DEF PushesOK
<1> QED
  BY <1>1, SystemAssumption, StationAssumed, FP!SeqOfElim

\* A push for a stored order is sent, or dropped.
LEMMA Pushed ==
    ASSUME PushesOK, StoredStay, NEW push \in Push, SendToESP32(push),
           push.event = "open_cabinet" => Stored(push.order)
    PROVE  PushesOK'
<1>1. CASE pushed' = pushed
  BY <1>1, SamePushes
<1>2. CASE pushed' = Append(pushed, push) /\ Len(pushed) < MaxPushed
  <2>1. /\ pushed \in Seq(Push) /\ Len(pushed) \in Nat
        /\ DOMAIN pushed = 1 .. Len(pushed)
    BY PushesAre
  <2>2. /\ pushed' \in Seq(Push) /\ Len(pushed') = Len(pushed) + 1
        /\ \A i \in 1 .. Len(pushed) : pushed'[i] = pushed[i]
        /\ pushed'[Len(pushed) + 1] = push
    BY <1>2, <2>1, AppendProperties
  <2>3. DOMAIN pushed' = 1 .. (Len(pushed) + 1) /\ Len(pushed') <= MaxPushed
    BY <1>2, <2>1, <2>2, SystemAssumption, LenProperties
  <2>4. pushed' \in SeqOf(Push, MaxPushed)
    BY <2>2, <2>3, SystemAssumption, StationAssumed, FP!SeqOfIntro, SameSeqOf
  <2>5. ASSUME NEW i \in DOMAIN pushed', pushed'[i].event = "open_cabinet"
        PROVE  pushed'[i].order \in Orders
               /\ orders[pushed'[i].order].status # "none"
    <3>1. CASE i \in DOMAIN pushed
      BY <2>1, <2>2, <2>5, <3>1 DEF PushesOK, PushesHeld, Stored
    <3>2. CASE i = Len(pushed) + 1
      BY <2>2, <2>5, <3>2 DEF Stored
    <3>3. QED
      BY <2>1, <2>3, <3>1, <3>2
  <2>6. QED
    BY <2>4, <2>5 DEF PushesOK, PushesHeld, Stored, StoredStay
<1>3. QED
  BY <1>1, <1>2 DEF SendToESP32

\* The first push arrives.
LEMMA PushTaken ==
    ASSUME PushesOK, pushed # <<>>, pushed' = Tail(pushed), UNCHANGED orders
    PROVE  PushesOK' /\ Head(pushed) \in Push
           /\ (Head(pushed).event = "open_cabinet" => Stored(Head(pushed).order))
<1>1. /\ pushed \in Seq(Push) /\ Len(pushed) \in 1 .. MaxPushed
      /\ DOMAIN pushed = 1 .. Len(pushed)
  BY PushesAre, EmptySeq
<1>2. Head(pushed) = pushed[1] /\ pushed[1] \in Push /\ 1 \in DOMAIN pushed
  BY <1>1
<1>3. /\ pushed' \in Seq(Push) /\ Len(pushed') = Len(pushed) - 1
      /\ \A i \in 1 .. Len(pushed') : pushed'[i] = pushed[i + 1]
  BY <1>1, HeadTailProperties
<1>4. DOMAIN pushed' = 1 .. (Len(pushed) - 1)
  BY <1>1, <1>3, LenProperties
<1>5. pushed' \in SeqOf(Push, MaxPushed)
  <2>1. Len(pushed') <= MaxPushed
    BY <1>1, <1>3, SystemAssumption
  <2>2. QED
    BY <1>3, <2>1, SystemAssumption, StationAssumed, FP!SeqOfIntro, SameSeqOf
<1>6. \A i \in DOMAIN pushed' : i + 1 \in DOMAIN pushed
                                /\ pushed'[i] = pushed[i + 1]
  BY <1>1, <1>3, <1>4
<1>7. PushesHeld'
  BY <1>6 DEF PushesOK, PushesHeld, Stored
<1> QED
  BY <1>2, <1>5, <1>7 DEF PushesOK, PushesHeld

-----------------------------------------------------------------------------
(* The server's steps *)

\* Request r is taken up in the state q; it works on a stored order if its kind
\* says so.
Taken(r, q) ==
    /\ SP!Arrived(r, q)
    /\ q.step # "idle"
    /\ q.kind \in {"deliver", "pickup_web", "pickup_otp"} => Stored(q.order)

LEMMA TakenKeeps ==
    ASSUME ServerOK, SP!TypeOK', NEW r \in Slots, NEW q, Taken(r, q)
    PROVE  /\ ServerOK' /\ StoredStay /\ UNCHANGED orders
           /\ reqs'[r] = q /\ reqs[r].step = "idle"
           /\ \A s \in Slots \ {r} : reqs'[s] = reqs[s]
           /\ \A s \in Slots : reqs[s].step # "idle" => reqs'[s].step # "idle"
<1>1. /\ reqs'[r] = q /\ reqs[r].step = "idle"
      /\ \A s \in Slots \ {r} : reqs'[s] = reqs[s]
      /\ UNCHANGED orders
  BY DEF ServerOK, SP!TypeOK, Taken, SP!Arrived
<1>2. RequestsHeld'
  BY <1>1 DEF ServerOK, RequestsHeld, Taken, Stored
<1> QED
  BY <1>1, <1>2 DEF ServerOK, StoredStay, Taken

\* What a web request is: a creation with an unused id, or the closing of a
\* stored order that is delivered or, to be cancelled, pending.
WebTaken(q) ==
    /\ q.kind \in Workload
    /\ \/ /\ q.kind = "create" /\ q.step = "findCabinet"
          /\ q.order \in SP!FreshIds /\ q.order \notin forgotten
       \/ /\ q.kind \in {"pickup_web", "cancel"} /\ q.step = "close"
          /\ Stored(q.order)
          /\ orders[q.order].status = IF q.kind = "cancel" THEN "pending"
                                                           ELSE "delivered"

LEMMA WebTakes ==
    ASSUME ServerOK, WebArrival
    PROVE  SP!TypeOK' /\ \E r \in WebSlots : \E q : Taken(r, q) /\ WebTaken(q)
<1>1. ASSUME NEW r \in WebSlots, NEW u \in Users, SP!CreateOrder(r, u),
             reqs'[r].order \notin forgotten
      PROVE  SP!TypeOK' /\ \E s \in WebSlots : \E q : Taken(s, q) /\ WebTaken(q)
  <2>0. r \in Slots
    BY DEF Slots
  <2>1. SP!TypeOK'
    BY <1>1, <2>0, ServerAssumed, SP!CreateOrderType DEF ServerOK
  <2>2. PICK q : /\ SP!Arrived(r, q)
                 /\ q.kind = "create" /\ q.step = "findCabinet"
                 /\ q.order \in SP!FreshIds
    BY <1>1, <2>0, ServerAssumed, SP!CreateOrderArrives
  <2>3. reqs'[r] = q
    BY <2>0, <2>2 DEF SP!Arrived, ServerOK, SP!TypeOK
  <2>4. "create" \in Workload
    BY <1>1 DEF SP!CreateOrder, SP!Begin
  <2>5. Taken(r, q) /\ WebTaken(q)
    BY <1>1, <2>2, <2>3, <2>4 DEF Taken, WebTaken
  <2>6. QED
    BY <2>1, <2>5
<1>2. ASSUME NEW r \in WebSlots, NEW o \in Orders, SP!Pickup(r, o)
      PROVE  SP!TypeOK' /\ \E s \in WebSlots : \E q : Taken(s, q) /\ WebTaken(q)
  <2>0. r \in Slots
    BY DEF Slots
  <2>1. /\ orders[o].status = "delivered" /\ "pickup_web" \in Workload
        /\ SP!Begin(r, "pickup_web", SP!Loaded(o))
    BY <1>2 DEF SP!Pickup, SP!Begin
  <2>2. SP!TypeOK'
    BY <2>0, <2>1, ServerAssumed, SP!LoadedType DEF ServerOK, SP!Kinds
  <2>3. PICK q : /\ SP!Arrived(r, q)
                 /\ q.kind = "pickup_web" /\ q.step = "close" /\ q.order = o
    BY <2>0, <2>1, ServerAssumed, SP!LoadedArrives
  <2>4. Taken(r, q) /\ WebTaken(q)
    BY <2>1, <2>3 DEF Taken, WebTaken, Stored
  <2>5. QED
    BY <2>2, <2>4
<1>3. ASSUME NEW r \in WebSlots, NEW o \in Orders, SP!CancelOrder(r, o)
      PROVE  SP!TypeOK' /\ \E s \in WebSlots : \E q : Taken(s, q) /\ WebTaken(q)
  <2>0. r \in Slots
    BY DEF Slots
  <2>1. /\ orders[o].status = "pending" /\ "cancel" \in Workload
        /\ SP!Begin(r, "cancel", SP!Loaded(o))
    BY <1>3 DEF SP!CancelOrder, SP!Begin
  <2>2. SP!TypeOK'
    BY <2>0, <2>1, ServerAssumed, SP!LoadedType DEF ServerOK, SP!Kinds
  <2>3. PICK q : /\ SP!Arrived(r, q)
                 /\ q.kind = "cancel" /\ q.step = "close" /\ q.order = o
    BY <2>0, <2>1, ServerAssumed, SP!LoadedArrives
  <2>4. Taken(r, q) /\ WebTaken(q)
    BY <2>1, <2>3 DEF Taken, WebTaken, Stored
  <2>5. QED
    BY <2>2, <2>4
<1> QED
  BY <1>1, <1>2, <1>3, SameArrival DEF WebArrival

\* What a call of the station is taken up as.
ServeTaken(q) ==
    /\ q.kind \in Workload
    /\ \/ /\ task.wait = "verifyDelivery"
          /\ q.kind = "deliver" /\ q.step = "newCode"
          /\ q.order \in Orders /\ orders[q.order].status = "pending"
       \/ /\ task.wait = "verifyPickupOnline"
          /\ q.kind = "pickup_otp" /\ q.step = "close"
          /\ q.order \in Orders /\ orders[q.order].status = "delivered"
          /\ orders[q.order].code = task.code
       \/ /\ task.wait = "syncLogsToServer"
          /\ q.kind = "sync" /\ q.step = "free" /\ q.order = Null

LEMMA ServeTakes ==
    ASSUME ServerOK, FP!FirmwareInv, NEW r \in Slots, Serve(r)
    PROVE  SP!TypeOK' /\ \E q : Taken(r, q) /\ ServeTaken(q)
<1>1. CASE task.wait = "verifyDelivery" /\ SP!VerifyDelivery(r, task.code)
  <2>1. SP!TypeOK'
    BY <1>1, ServerAssumed, SP!VerifyDeliveryType DEF ServerOK
  <2>2. PICK q : /\ SP!Arrived(r, q)
                 /\ q.kind = "deliver" /\ q.step = "newCode"
                 /\ q.order \in Orders /\ orders[q.order].status = "pending"
    BY <1>1, ServerAssumed, SP!VerifyDeliveryArrives
  <2>3. Taken(r, q) /\ ServeTaken(q)
    BY <1>1, <2>2 DEF Taken, ServeTaken, Stored, SP!VerifyDelivery, SP!Begin
  <2>4. QED
    BY <2>1, <2>3
<1>2. CASE task.wait = "verifyPickupOnline" /\ SP!VerifyPickup(r, task.code)
  <2>1. PICK o \in Orders : /\ orders[o].code = task.code
                            /\ orders[o].status = "delivered"
                            /\ SP!Begin(r, "pickup_otp", SP!Loaded(o))
    BY <1>2 DEF SP!VerifyPickup
  <2>2. SP!TypeOK'
    BY <2>1, ServerAssumed, SP!LoadedType DEF ServerOK, SP!Kinds
  <2>3. PICK q : /\ SP!Arrived(r, q)
                 /\ q.kind = "pickup_otp" /\ q.step = "close" /\ q.order = o
    BY <2>1, ServerAssumed, SP!LoadedArrives
  <2>4. Taken(r, q) /\ ServeTaken(q)
    BY <1>2, <2>1, <2>3 DEF Taken, ServeTaken, Stored, SP!Begin
  <2>5. QED
    BY <2>2, <2>4
<1>3. CASE /\ task.wait = "syncLogsToServer"
           /\ SP!SyncFromEsp(r, logQueue[task.entry])
  <2>1. logQueue[task.entry] \in Cabinets
    <3>1. logQueue \in FP!SeqOf(Cabinets, MAX_LOG_QUEUE)
          /\ task.entry \in DOMAIN logQueue
      BY <1>3 DEF FP!FirmwareInv, FP!TypeOK, FP!Waiting
    <3>2. QED
      BY <3>1, SystemAssumption, StationAssumed, FP!SeqOfElim
  <2>2. SP!TypeOK'
    BY <1>3, <2>1, ServerAssumed, SP!SyncFromEspType DEF ServerOK
  <2>3. PICK q : /\ SP!Arrived(r, q)
                 /\ q.kind = "sync" /\ q.step = "free" /\ q.order = Null
    BY <1>3, ServerAssumed, SP!SyncFromEspArrives
  <2>4. Taken(r, q) /\ ServeTaken(q)
    BY <1>3, <2>3 DEF Taken, ServeTaken, Stored, SP!SyncFromEsp, SP!Begin
  <2>5. QED
    BY <2>2, <2>4
<1> QED
  BY <1>1, <1>2, <1>3, SameArrival DEF Serve, Station!Waiting

\* A handler keeps the orders stored, and what it works on.
LEMMA HandlerKeeps ==
    ASSUME ServerOK, NEW r \in Slots, Server!Handler(r)
    PROVE  /\ ServerOK' /\ StoredStay
           /\ SP!HandlerEffect(r)
<1>1. SP!Handler(r)
  BY SameHandler
<1>2. SP!TypeOK'
  BY <1>1, ServerAssumed, SP!NextType DEF ServerOK, SP!Next
<1>3. SP!HandlerEffect(r)
  BY <1>1, ServerAssumed, SP!HandlerDoes DEF ServerOK
<1>4. StoredStay
  BY <1>3 DEF SP!HandlerEffect, SP!Saves, StoredStay
<1>5. ASSUME NEW s \in Slots,
             reqs'[s].kind \in {"deliver", "pickup_web", "pickup_otp"}
      PROVE  Stored(reqs'[s].order)
  <2>1. CASE s # r \/ (s = r /\ SP!GoesOn(r))
    BY <1>3, <1>5, <2>1
       DEF SP!HandlerEffect, SP!GoesOn, ServerOK, RequestsHeld, Stored
  <2>2. CASE reqs'[r] = SP!Idle
    <3>1. SP!Idle.kind = Null
      BY DEF SP!Idle
    <3>2. Null \notin {"deliver", "pickup_web", "pickup_otp"}
      BY SystemAssumption DEF Server!Kinds
    <3>3. s # r
      BY <1>5, <2>2, <3>1, <3>2
    <3>4. QED
      BY <2>1, <3>3
  <2>3. QED
    BY <1>3, <2>1, <2>2 DEF SP!HandlerEffect
<1>6. RequestsHeld'
  BY <1>4, <1>5 DEF RequestsHeld, Stored, StoredStay
<1> QED
  BY <1>2, <1>3, <1>4, <1>6 DEF ServerOK

LEMMA ExpireKeeps ==
    ASSUME ServerOK, NEW o \in Orders, Server!Expire(o)
    PROVE  ServerOK' /\ StoredStay /\ UNCHANGED reqs
<1>1. SP!Expire(o)
  BY SameExpire
<1>2. SP!TypeOK'
  BY <1>1, ServerAssumed, SP!ExpireType DEF ServerOK
<1>3. StoredStay /\ UNCHANGED reqs
  <2>1. orders \in [Orders -> SP!OrderDocs]
    BY DEF ServerOK, SP!TypeOK
  <2>2. orders' = [orders EXCEPT ![o].expired = TRUE] /\ reqs' = reqs
    BY <1>1 DEF SP!Expire
  <2>3. orders'[o].status = orders[o].status
    BY <2>1, <2>2 DEF SP!OrderDocs
  <2>4. QED
    BY <2>1, <2>2, <2>3 DEF StoredStay
<1> QED
  BY <1>2, <1>3 DEF ServerOK, RequestsHeld, Stored, StoredStay

-----------------------------------------------------------------------------
(* LinkInv is inductive: one lemma per kind of step *)

LEMMA LinkInit == Init => LinkInv
<1> SUFFICES ASSUME Init PROVE LinkInv
  OBVIOUS
<1>1. SP!TypeOK
  BY ServerAssumed, SP!InitType, SameServerInit DEF Init
<1>2. RequestsHeld
  <2>1. reqs = [r \in Slots |-> SP!Idle]
    BY SameServerInit DEF Init, SP!Init
  <2>2. Null \notin {"deliver", "pickup_web", "pickup_otp"}
    BY SystemAssumption DEF Server!Kinds
  <2>3. QED
    BY <2>1, <2>2 DEF RequestsHeld, SP!Idle
<1>3. FP!FirmwareInv
  BY StationAssumed, FP!InitInv, SameStationInit DEF Init
<1>4. PushesOK
  <2>1. <<>> \in SeqOf(Push, MaxPushed)
    BY SystemAssumption, StationAssumed, FP!EmptySeqOf, SameSeqOf
  <2>2. pushed = <<>> /\ DOMAIN <<>> = {}
    BY DEF Init
  <2>3. QED
    BY <2>1, <2>2 DEF PushesOK, PushesHeld
<1>5. CallHeld
  <2>1. NoCall \in Calls
    BY EmptyAnswer DEF NoCall, Calls
  <2>2. NoCall.stage = "none" /\ call = NoCall
    BY DEF NoCall, Init
  <2>3. QED
    BY <2>1, <2>2 DEF CallHeld
<1>6. VisitHeld
  <2>1. task.wait \in {"nothing", "syncDataFromServer"}
    BY SameStationInit DEF Init, FP!Init, FP!Loop
  <2>2. QED
    BY <2>1 DEF VisitHeld, Init, NoVisit
<1>7. HistoryOK
  BY DEF HistoryOK, Init, NotIssued
<1> QED
  BY <1>1, <1>2, <1>3, <1>4, <1>5, <1>6, <1>7 DEF LinkInv, ServerOK, Init

LEMMA LinkWebArrival ==
    ASSUME LinkInv, WebArrival
    PROVE  LinkInv'
<1>0. PICK r \in Slots : \E q : SP!TypeOK' /\ Taken(r, q)
  BY WebTakes DEF LinkInv, Slots
<1>1. PICK q : SP!TypeOK' /\ Taken(r, q)
  BY <1>0
<1>2. /\ ServerOK' /\ StoredStay
      /\ \A s \in Slots : reqs[s].step # "idle" => reqs'[s].step # "idle"
  BY <1>1, TakenKeeps DEF LinkInv
<1>3. FP!FirmwareInv' /\ task' = task
  BY SameStation DEF LinkInv, WebArrival
<1>4. PushesOK' /\ VisitHeld' /\ HistoryOK'
  BY <1>2, <1>3, SamePushes, SameVisit, SameHistory
     DEF LinkInv, WebArrival, historyVars
<1>5. CallHeld'
  BY <1>2, <1>3, SameCall DEF LinkInv, WebArrival, CallHeld
<1> QED
  BY <1>2, <1>3, <1>4, <1>5 DEF LinkInv, WebArrival

LEMMA LinkServerStep ==
    ASSUME LinkInv, NEW r \in Slots, ServerStep(r)
    PROVE  LinkInv'
<1>1. ServerOK' /\ StoredStay /\ SP!HandlerEffect(r)
  BY HandlerKeeps DEF LinkInv, ServerStep
<1>2. FP!FirmwareInv' /\ task' = task
  BY SameStation DEF LinkInv, ServerStep
<1>3. VisitHeld'
  BY <1>2, SameVisit DEF LinkInv, ServerStep
<1>4. PushesOK'
  <2>1. CASE pushed' = pushed
    BY <1>1, <2>1, SamePushes DEF LinkInv
  <2>2. ASSUME reqs[r].kind \in {"pickup_web", "deliver"},
               NEW push, SendToESP32(push),
               push = [event |-> IF reqs[r].kind = "deliver"
                                 THEN "sync_request" ELSE "open_cabinet",
                       order |-> reqs[r].order]
        PROVE  PushesOK'
    <3>1. Stored(reqs[r].order)
      BY <2>2 DEF LinkInv, ServerOK, RequestsHeld
    <3>2. push \in Push /\ push.order = reqs[r].order
      BY <2>2, <3>1 DEF Push, Stored
    <3>3. QED
      BY <1>1, <2>2, <3>1, <3>2, Pushed DEF LinkInv
  <2>3. QED
    BY <2>1, <2>2 DEF ServerStep
<1>5. CallHeld'
  <2>1. CASE call' = call /\ ~(Answered(r) /\ call.stage = "served" /\ call.slot = r)
    <3>1. call.stage = "served" => reqs'[call.slot].step # "idle"
      BY <1>1, <2>1 DEF LinkInv, CallHeld, SP!HandlerEffect, Answered
    <3>2. QED
      BY <1>1, <1>2, <2>1, <3>1, SameCall DEF LinkInv
  <2>2. ASSUME call.stage = "served", NEW pin,
               pin = IF call.order = Null THEN Null ELSE orders[call.order].cab,
               call' = [call EXCEPT !.stage = "answered", !.ok = TRUE, !.pin = pin]
        PROVE  CallHeld'
    <3>1. call \in Calls
      BY DEF LinkInv, CallHeld
    <3>2. call.order \in Orders => orders[call.order] \in SP!OrderDocs
      BY DEF LinkInv, ServerOK, SP!TypeOK
    <3>3. pin \in Cabinets \cup {Null}
      BY <2>2, <3>1, <3>2 DEF Calls, SP!OrderDocs
    <3>4. task.wait \in VerifyWaits => pin \in Cabinets
      <4>1. SUFFICES ASSUME task.wait \in VerifyWaits PROVE pin \in Cabinets
        OBVIOUS
      <4>2. call.order \in Orders /\ orders[call.order].status # "none"
        BY <2>2, <4>1 DEF LinkInv, CallHeld, Stored
      <4>3. orders[call.order].cab \in Cabinets /\ call.order # Null
        BY <4>2, SystemAssumption DEF LinkInv, ServerOK, SP!TypeOK
      <4>4. QED
        BY <2>2, <4>3
    <3>5. call' \in Calls
      BY <2>2, <3>1, <3>3 DEF Calls
    <3>6. call'.stage = "answered" /\ call'.pin = pin
      BY <2>2, <3>1 DEF Calls
    <3>7. task.wait \in HttpWaits
      BY <2>2 DEF LinkInv, CallHeld
    <3>8. QED
      BY <1>2, <3>4, <3>5, <3>6, <3>7 DEF CallHeld
  <2>3. QED
    BY <2>1, <2>2 DEF ServerStep, CabinetPin, LinkInv, CallHeld
<1>6. HistoryOK'
  <2>1. \A o \in Orders : orders'[o] \in SP!OrderDocs
    BY <1>1 DEF ServerOK, SP!TypeOK
  <2>2. \A o \in Orders : /\ orders'[o].code \in OTPs \cup {Null}
                          /\ orders'[o].cab \in Cabinets \cup {Null}
    BY <2>1 DEF SP!OrderDocs
  <2> DEFINE T == [code : OTPs \cup {Null}, cab : Cabinets \cup {Null}]
  <2>3. \A o \in Orders : [code |-> orders'[o].code, cab |-> orders'[o].cab] \in T
    BY <2>2
  <2>4. issued \in [Orders -> T]
    BY DEF LinkInv, HistoryOK
  <2> HIDE DEF T
  <2>5. issued' \in [Orders -> T]
    BY <2>3, <2>4 DEF ServerStep, RecordIssued
  <2>6. QED
    BY <2>5 DEF T, HistoryOK, LinkInv, ServerStep
<1> QED
  BY <1>1, <1>2, <1>3, <1>4, <1>5, <1>6 DEF LinkInv, ServerStep

LEMMA LinkExpire ==
    ASSUME LinkInv, Expire
    PROVE  LinkInv'
<1>1. ServerOK' /\ StoredStay /\ UNCHANGED reqs
  BY ExpireKeeps DEF LinkInv, Expire
<1>2. FP!FirmwareInv' /\ task' = task
  BY SameStation DEF LinkInv, Expire
<1>3. PushesOK' /\ VisitHeld' /\ HistoryOK'
  BY <1>1, <1>2, SamePushes, SameVisit, SameHistory
     DEF LinkInv, Expire, historyVars
<1>4. CallHeld'
  BY <1>1, <1>2, SameCall DEF LinkInv, Expire, CallHeld
<1> QED
  BY <1>1, <1>2, <1>3, <1>4 DEF LinkInv, Expire

LEMMA LinkServe ==
    ASSUME LinkInv, NEW r \in Slots, Serve(r)
    PROVE  LinkInv'
<1>1. PICK q : SP!TypeOK' /\ Taken(r, q) /\ ServeTaken(q)
  BY ServeTakes DEF LinkInv
<1>2. ServerOK' /\ StoredStay /\ reqs'[r] = q
  BY <1>1, TakenKeeps DEF LinkInv
<1>3. FP!FirmwareInv' /\ task' = task
  BY SameStation DEF LinkInv, Serve
<1>4. PushesOK' /\ VisitHeld' /\ HistoryOK'
  BY <1>2, <1>3, SamePushes, SameVisit, SameHistory
     DEF LinkInv, Serve, historyVars
<1>5. CallHeld'
  <2> DEFINE served == [stage |-> "served", slot |-> r, ok |-> FALSE,
                        order |-> q.order, pin |-> Null, entries |-> <<>>]
  <2>1. q.order \in Orders \cup {Null}
    BY <1>1 DEF ServeTaken
  <2>2. served \in Calls
    BY <2>1, EmptyAnswer DEF Calls
  <2>3. call' = served
    BY <1>2 DEF Serve, NoCall
  <2>4. served.stage = "served" /\ served.slot = r /\ served.order = q.order
    OBVIOUS
  <2> HIDE DEF served
  <2>5. task.wait \in VerifyWaits => q.order \in Orders
                                     /\ orders'[q.order].status # "none"
    BY <1>1, <1>2 DEF ServeTaken, VerifyWaits, StoredStay
  <2>6. task.wait \in HttpWaits
    BY <1>1 DEF ServeTaken, HttpWaits, VerifyWaits
  <2>7. reqs'[r].step # "idle"
    BY <1>1, <1>2 DEF Taken
  <2>8. QED
    BY <1>3, <2>2, <2>3, <2>4, <2>5, <2>6, <2>7 DEF CallHeld, Stored
<1> QED
  BY <1>2, <1>3, <1>4, <1>5 DEF LinkInv, Serve

\* Steps that leave the server alone.
LEMMA LinkRefuse ==
    ASSUME LinkInv, Refuse
    PROVE  LinkInv'
<1>1. ServerOK' /\ StoredStay
  BY SameServer DEF LinkInv, Refuse
<1>2. FP!FirmwareInv' /\ task' = task
  BY SameStation DEF LinkInv, Refuse
<1>3. PushesOK' /\ VisitHeld' /\ HistoryOK'
  BY <1>1, <1>2, SamePushes, SameVisit, SameHistory
     DEF LinkInv, Refuse, historyVars
<1>4. CallHeld'
  <2>1. task.wait \in HttpWaits
    BY DEF Refuse, Station!Waiting, HttpWaits, VerifyWaits
  <2>2. QED
    BY <1>2, <2>1, CallRefused DEF Refuse
<1> QED
  BY <1>1, <1>2, <1>3, <1>4 DEF LinkInv, Refuse

LEMMA LinkSyncData ==
    ASSUME LinkInv, SyncData
    PROVE  LinkInv'
<1>1. ServerOK' /\ StoredStay
  BY SameServer DEF LinkInv, SyncData
<1>2. FP!FirmwareInv' /\ task' = task
  BY SameStation DEF LinkInv, SyncData
<1>3. PushesOK' /\ VisitHeld' /\ HistoryOK'
  BY <1>1, <1>2, SamePushes, SameVisit, SameHistory
     DEF LinkInv, SyncData, historyVars
<1>4. CallHeld'
  <2>1. PICK entries \in Station!Answers :
          call' = [NoCall EXCEPT !.stage = "answered", !.ok = TRUE,
                                 !.entries = entries]
    BY DEF SyncData
  <2> DEFINE answer == [stage |-> "answered", slot |-> Null, ok |-> TRUE,
                        order |-> Null, pin |-> Null, entries |-> entries]
  <2>2. answer \in Calls
    BY DEF Calls
  <2>3. call' = answer /\ answer.stage = "answered"
    BY <2>1 DEF NoCall
  <2> HIDE DEF answer
  <2>4. task.wait = "syncDataFromServer"
    BY DEF SyncData, Station!Waiting
  <2>5. task.wait \in HttpWaits /\ task.wait \notin VerifyWaits
    BY <2>4 DEF HttpWaits, VerifyWaits
  <2>6. QED
    BY <1>2, <2>2, <2>3, <2>5 DEF CallHeld
<1> QED
  BY <1>1, <1>2, <1>3, <1>4 DEF LinkInv, SyncData

LEMMA LinkRegister ==
    ASSUME LinkInv, RegisterDevice
    PROVE  LinkInv'
<1>1. ServerOK' /\ StoredStay
  BY SameServer DEF LinkInv, RegisterDevice
<1>2. FP!FirmwareInv' /\ task' = task
  BY SameStation DEF LinkInv, RegisterDevice
<1>3. PushesOK' /\ VisitHeld' /\ HistoryOK'
  BY <1>1, <1>2, SamePushes, SameVisit, SameHistory
     DEF LinkInv, RegisterDevice, historyVars
<1>4. CallHeld'
  BY <1>1, <1>2, SameCall DEF LinkInv, RegisterDevice, CallHeld, serverVars
<1> QED
  BY <1>1, <1>2, <1>3, <1>4 DEF LinkInv, RegisterDevice

-----------------------------------------------------------------------------
(* The station's steps *)

\* After a step that resumes the sketch no door is open.
LEMMA ResumedNoDoor == FP!Resumes => task'.wait # "door"
  BY DEF FP!Resumes, FP!Functions

LEMMA LinkKey ==
    ASSUME LinkInv, Key
    PROVE  LinkInv'
<1>1. ServerOK' /\ StoredStay
  BY SameServer DEF LinkInv, Key
<1>2. FP!FirmwareInv' /\ task.wait = "nothing"
  BY SameKey, StationAssumed, FP!KeyInv, FP!KeyDoes DEF LinkInv, Key, FP!Waiting
<1>3. PushesOK' /\ HistoryOK'
  BY <1>1, SamePushes, SameHistory DEF LinkInv, Key
<1>4. CallHeld'
  BY <1>2, CallIdle DEF LinkInv, Key, HttpWaits, VerifyWaits
<1>5. VisitHeld'
  <2>1. CASE task'.wait = "door"
    <3>1. visit' = [purpose |-> "pickup", order |-> Null, code |-> inputBuffer]
      BY <2>1 DEF Key, NoVisit
    <3>2. QED
      BY <3>1, NewVisit
  <2>2. CASE task'.wait # "door"
    BY <2>2, SameVisit DEF LinkInv, Key
  <2>3. QED
    BY <2>1, <2>2
<1> QED
  BY <1>1, <1>2, <1>3, <1>4, <1>5 DEF LinkInv, Key

\* Every success answer to a verification carries the pin of a compartment, so it
\* opens a door.
LEMMA AnswerOpens ==
    ASSUME LinkInv, call.stage = "answered", call.ok,
           FP!DeliveryVerified(call.pin) \/ FP!PickupVerified(call.pin)
    PROVE  /\ call.pin \in Cabinets /\ call.pin # Null
           /\ task'.wait = "door" /\ task'.pin = call.pin
<1>1. call.pin \in Cabinets /\ call.pin # Null
  BY SystemAssumption DEF FP!DeliveryVerified, FP!PickupVerified, FP!Waiting,
     LinkInv, CallHeld, VerifyWaits
<1>2. QED
  BY <1>1 DEF FP!DeliveryVerified, FP!PickupVerified, FP!OpenBoxByPin, FP!Loop

LEMMA LinkReceive ==
    ASSUME LinkInv, Receive
    PROVE  LinkInv'
<1>1. ServerOK' /\ StoredStay
  BY SameServer DEF LinkInv, Receive
<1>2. PushesOK' /\ HistoryOK'
  BY <1>1, SamePushes, SameHistory DEF LinkInv, Receive
<1>3. CallHeld'
  BY CallOver DEF Receive
<1>4. FP!FirmwareInv' /\ VisitHeld'
  <2>1. CASE FP!VerifyFailed /\ UNCHANGED visit
    <3>1. FP!FirmwareInv'
      BY <2>1, StationAssumed, FP!AnswerInv DEF FP!Answer, LinkInv
    <3>2. FP!Resumes
      BY <2>1, StationAssumed, FP!StepResumes DEF LinkInv
    <3>3. QED
      BY <2>1, <3>1, <3>2, ResumedNoDoor, SameVisit DEF LinkInv
  <2>2. CASE /\ call.ok /\ FP!DeliveryVerified(call.pin)
             /\ visit' = [NoVisit EXCEPT !.purpose = "deliver",
                                         !.order = call.order]
    <3>1. call.pin \in Cabinets
      BY <2>2, AnswerOpens DEF Receive
    <3>2. FP!FirmwareInv'
      BY <2>2, <3>1, StationAssumed, FP!AnswerInv DEF FP!Answer, LinkInv
    <3>3. call.order \in Orders \cup {Null}
      BY DEF LinkInv, CallHeld, Calls
    <3>4. visit' = [purpose |-> "deliver", order |-> call.order, code |-> Null]
      BY <2>2 DEF NoVisit
    <3>5. VisitHeld'
      BY <3>3, <3>4, NewVisit
    <3>6. QED
      BY <3>2, <3>5
  <2>3. CASE /\ call.ok /\ FP!PickupVerified(call.pin)
             /\ visit' = [NoVisit EXCEPT !.purpose = "pickup", !.code = task.code]
    <3>1. call.pin \in Cabinets
      BY <2>3, AnswerOpens DEF Receive
    <3>2. FP!FirmwareInv'
      BY <2>3, <3>1, StationAssumed, FP!AnswerInv DEF FP!Answer, LinkInv
    <3>3. visit' = [purpose |-> "pickup", order |-> Null, code |-> task.code]
      BY <2>3 DEF NoVisit
    <3>4. VisitHeld'
      BY <3>3, NewVisit
    <3>5. QED
      BY <3>2, <3>4
  <2>4. CASE FP!SyncDataReceived(call.entries) /\ UNCHANGED visit
    <3>1. call.entries \in FP!Answers
      BY SameAnswers DEF LinkInv, CallHeld, Calls
    <3>2. FP!FirmwareInv'
      BY <2>4, <3>1, StationAssumed, FP!AnswerInv DEF FP!Answer, LinkInv
    <3>3. FP!Resumes
      BY <2>4, <3>1, StationAssumed, FP!StepResumes DEF LinkInv
    <3>4. QED
      BY <2>4, <3>2, <3>3, ResumedNoDoor, SameVisit DEF LinkInv
  <2>5. CASE FP!LogPosted /\ UNCHANGED visit
    <3>1. FP!FirmwareInv'
      BY <2>5, StationAssumed, FP!AnswerInv DEF FP!Answer, LinkInv
    <3>2. FP!Resumes
      BY <2>5, StationAssumed, FP!StepResumes DEF LinkInv
    <3>3. QED
      BY <2>5, <3>1, <3>2, ResumedNoDoor, SameVisit DEF LinkInv
  <2>6. QED
    BY <2>1, <2>2, <2>3, <2>4, <2>5, SameStep, SameOpening, SameSyncData
       DEF Receive
<1> QED
  BY <1>1, <1>2, <1>3, <1>4 DEF LinkInv, Receive

LEMMA LinkGiveUp ==
    ASSUME LinkInv, GiveUp
    PROVE  LinkInv'
<1>1. ServerOK' /\ StoredStay
  BY SameServer DEF LinkInv, GiveUp
<1>2. FP!FirmwareInv' /\ FP!Resumes
  BY SameStep, StationAssumed, FP!AnswerInv, FP!StepResumes
     DEF LinkInv, GiveUp, FP!Answer
<1>3. PushesOK' /\ HistoryOK' /\ VisitHeld'
  BY <1>1, <1>2, ResumedNoDoor, SamePushes, SameHistory, SameVisit
     DEF LinkInv, GiveUp, historyVars
<1>4. CallHeld'
  BY CallOver DEF GiveUp
<1> QED
  BY <1>1, <1>2, <1>3, <1>4 DEF LinkInv, GiveUp

\* What a closing door leaves in its compartment.
LEMMA LinkContent ==
    ASSUME LinkInv,
           content' = [content EXCEPT ![task.pin] =
                         IF visit.purpose = "deliver" THEN visit.order ELSE Null],
           UNCHANGED <<issued, forgotten>>
    PROVE  HistoryOK'
  BY DEF LinkInv, HistoryOK, VisitHeld

LEMMA LinkDoorCloses ==
    ASSUME LinkInv, DoorCloses
    PROVE  LinkInv'
<1>1. ServerOK' /\ StoredStay
  BY SameServer DEF LinkInv, DoorCloses
<1>2. FP!FirmwareInv' /\ FP!Resumes /\ task.wait = "door"
  BY SameStep, StationAssumed, FP!BoxClosedInv, FP!StepResumes
     DEF LinkInv, DoorCloses, FP!BoxClosed, FP!Waiting
<1>3. PushesOK' /\ HistoryOK'
  BY <1>1, SamePushes, LinkContent DEF LinkInv, DoorCloses
<1>4. VisitHeld'
  BY <1>2, ResumedNoDoor, VisitOver DEF DoorCloses
<1>5. CallHeld'
  BY <1>2, CallIdle DEF LinkInv, DoorCloses, HttpWaits, VerifyWaits
<1> QED
  BY <1>1, <1>2, <1>3, <1>4, <1>5 DEF LinkInv, DoorCloses

LEMMA LinkWsConnects ==
    ASSUME LinkInv, WsConnects
    PROVE  LinkInv'
<1>1. ServerOK' /\ StoredStay
  BY SameServer DEF LinkInv, WsConnects
<1>2. FP!FirmwareInv' /\ FP!Resumes /\ task.wait = "nothing"
  BY SameStep, StationAssumed, FP!WsEventInv, FP!StepResumes
     DEF LinkInv, WsConnects, FP!WsEvent, FP!WsConnect, FP!Waiting
<1>3. PushesOK' /\ HistoryOK' /\ VisitHeld'
  BY <1>1, <1>2, ResumedNoDoor, SamePushes, SameHistory, SameVisit
     DEF LinkInv, WsConnects, historyVars
<1>4. CallHeld'
  BY <1>2, CallIdle DEF LinkInv, WsConnects, HttpWaits, VerifyWaits
<1> QED
  BY <1>1, <1>2, <1>3, <1>4 DEF LinkInv, WsConnects

LEMMA LinkReceivePush ==
    ASSUME LinkInv, ReceivePush
    PROVE  LinkInv'
<1>1. ServerOK' /\ StoredStay
  BY SameServer DEF LinkInv, ReceivePush
<1>2. /\ PushesOK' /\ Head(pushed) \in Push
      /\ Head(pushed).event = "open_cabinet" => Stored(Head(pushed).order)
  BY PushTaken DEF LinkInv, ReceivePush, serverVars
<1>3. HistoryOK'
  BY SameHistory DEF LinkInv, ReceivePush
<1>4. FP!FirmwareInv' /\ VisitHeld' /\ task.wait = "nothing"
  <2>1. ASSUME NEW push, push = Head(pushed), push.event = "open_cabinet",
               FP!OpenCabinet(orders[push.order].cab),
               visit' = [NoVisit EXCEPT !.purpose = "push", !.order = push.order]
        PROVE  FP!FirmwareInv' /\ VisitHeld' /\ task.wait = "nothing"
    <3>1. push.order \in Orders /\ orders[push.order].cab \in Cabinets
      BY <1>2, <2>1 DEF Stored, LinkInv, ServerOK, SP!TypeOK
    <3>2. FP!FirmwareInv'
      BY <2>1, <3>1, StationAssumed, FP!WsEventInv DEF FP!WsEvent, LinkInv
    <3>3. visit' = [purpose |-> "push", order |-> push.order, code |-> Null]
      BY <2>1 DEF NoVisit
    <3>4. VisitHeld'
      BY <3>1, <3>3, NewVisit
    <3>5. QED
      BY <2>1, <3>2, <3>4 DEF FP!OpenCabinet, FP!Waiting
  <2>2. CASE FP!SyncRequest /\ UNCHANGED visit
    <3>1. FP!FirmwareInv' /\ FP!Resumes
      BY <2>2, StationAssumed, FP!WsEventInv, FP!StepResumes
         DEF FP!WsEvent, LinkInv
    <3>2. QED
      BY <2>2, <3>1, ResumedNoDoor, SameVisit
         DEF LinkInv, FP!SyncRequest, FP!Waiting
  <2>3. QED
    BY <2>1, <2>2, SameStep, SameOpening DEF ReceivePush
<1>5. CallHeld'
  BY <1>4, CallIdle DEF LinkInv, ReceivePush, HttpWaits, VerifyWaits
<1> QED
  BY <1>1, <1>2, <1>3, <1>4, <1>5 DEF LinkInv, ReceivePush

LEMMA LinkWsDisconnects ==
    ASSUME LinkInv, WsDisconnects
    PROVE  LinkInv'
<1>1. ServerOK' /\ StoredStay
  BY SameServer DEF LinkInv, WsDisconnects
<1>2. FP!FirmwareInv' /\ task' = task
  BY SameStep, StationAssumed, FP!WsEventInv
     DEF LinkInv, WsDisconnects, FP!WsEvent, FP!WsDisconnect
<1>3. PushesOK'
  BY PushesEmpty DEF WsDisconnects
<1>4. HistoryOK' /\ VisitHeld'
  BY <1>2, SameHistory, SameVisit DEF LinkInv, WsDisconnects, historyVars
<1>5. CallHeld'
  BY <1>1, <1>2, SameCall DEF LinkInv, WsDisconnects, CallHeld, serverVars
<1> QED
  BY <1>1, <1>2, <1>3, <1>4, <1>5 DEF LinkInv, WsDisconnects

LEMMA LinkWifiChange ==
    ASSUME LinkInv, WifiChange
    PROVE  LinkInv'
<1>1. ServerOK' /\ StoredStay
  BY SameServer DEF LinkInv, WifiChange
<1>2. FP!FirmwareInv' /\ task' = task
  BY SameStep, StationAssumed, FP!WifiChangeInv
     DEF LinkInv, WifiChange, FP!WifiChange
<1>3. PushesOK' /\ HistoryOK' /\ VisitHeld'
  BY <1>1, <1>2, SamePushes, SameHistory, SameVisit
     DEF LinkInv, WifiChange, historyVars
<1>4. CallHeld'
  BY <1>1, <1>2, SameCall DEF LinkInv, WifiChange, CallHeld, serverVars
<1> QED
  BY <1>1, <1>2, <1>3, <1>4 DEF LinkInv, WifiChange

LEMMA LinkPowerCut ==
    ASSUME LinkInv, PowerCut
    PROVE  LinkInv'
<1>1. ServerOK' /\ StoredStay
  BY SameServer DEF LinkInv, PowerCut
<1>2. FP!Restart
  BY SameStep DEF PowerCut
<1>3. FP!FirmwareInv'
  BY <1>2, StationAssumed, FP!RestartInv
<1>4. task'.wait # "door"
  BY <1>2 DEF FP!Restart, FP!Loop
<1>5. PushesOK'
  BY PushesEmpty DEF PowerCut
<1>6. HistoryOK'
  BY SameHistory, LinkContent DEF LinkInv, PowerCut
<1>7. VisitHeld'
  BY <1>4, VisitOver DEF PowerCut
<1>8. CallHeld'
  BY CallOver DEF PowerCut
<1> QED
  BY <1>1, <1>3, <1>5, <1>6, <1>7, <1>8 DEF LinkInv, PowerCut

-----------------------------------------------------------------------------
(* A restart of the server *)

LEMMA LinkServerRestart ==
    ASSUME LinkInv, ServerRestart
    PROVE  LinkInv'
<1>1. ServerOK'
  <2>1. /\ orders' = [o \in Orders |-> SP!NoOrder]
        /\ cabinets' = [c \in Cabinets |-> Null]
        /\ reqs' = [r \in Slots |-> SP!Idle]
    BY DEF ServerRestart, SP!NoOrder, SP!Idle, Server!NoOrder, Server!Idle
  <2>2. SP!Idle \in SP!ReqStates /\ SP!Idle.kind = Null /\ SP!Idle.step = "idle"
    BY ServerAssumed, SP!IdleType DEF SP!Idle
  <2>3. SP!NoOrder \in SP!OrderDocs /\ SP!NoOrder.status = "none"
    BY DEF SP!NoOrder, SP!OrderDocs, SP!Statuses
  <2>4. SP!TypeOK'
    BY <2>1, <2>2, <2>3
       DEF SP!TypeOK, SP!Supplied, SP!OrderSteps, SP!CabinetSteps
  <2>5. RequestsHeld'
    <3>1. Null \notin {"deliver", "pickup_web", "pickup_otp"}
      BY SystemAssumption DEF Server!Kinds
    <3>2. QED
      BY <2>1, <2>2, <3>1 DEF RequestsHeld
  <2>6. QED
    BY <2>4, <2>5 DEF ServerOK
<1>2. FP!FirmwareInv' /\ task' = task
  BY DEF LinkInv, ServerRestart, FP!FirmwareInv, FP!TypeOK, FP!Planned,
         FP!Distinct, FP!OfflineOnce, FP!Waiting
<1>3. PushesOK'
  BY PushesEmpty DEF ServerRestart
<1>4. HistoryOK' /\ VisitHeld'
  BY <1>2, SameVisit DEF LinkInv, ServerRestart, HistoryOK
<1>5. CallHeld'
  <2>1. CASE call.stage = "served"
    <3>1. task.wait \in HttpWaits
      BY <2>1 DEF LinkInv, CallHeld
    <3>2. QED
      BY <1>2, <2>1, <3>1, CallRefused DEF ServerRestart
  <2>2. CASE call.stage # "served"
    BY <1>2, <2>2 DEF LinkInv, ServerRestart, CallHeld
  <2>3. QED
    BY <2>1, <2>2
<1> QED
  BY <1>1, <1>2, <1>3, <1>4, <1>5 DEF LinkInv, ServerRestart

-----------------------------------------------------------------------------

LEMMA LinkStep == LinkInv /\ [Next]_vars => LinkInv'
<1> SUFFICES ASSUME LinkInv, [Next]_vars PROVE LinkInv'
  OBVIOUS
<1>1. ASSUME NEW r \in StationSlots, Serve(r) PROVE LinkInv'
  BY <1>1, LinkServe DEF Slots
<1>2. CASE Served
  BY <1>1, <1>2, LinkRefuse, LinkSyncData DEF Served
<1>3. ASSUME NEW r \in Slots, ServerStep(r) PROVE LinkInv'
  BY <1>3, LinkServerStep
<1>4. CASE UNCHANGED vars
  <2>1. ServerOK' /\ StoredStay
    BY <1>4, SameServer DEF LinkInv, vars
  <2>2. FP!FirmwareInv' /\ task' = task
    BY <1>4, SameStation DEF LinkInv, vars
  <2>3. PushesOK' /\ HistoryOK' /\ VisitHeld'
    BY <1>4, <2>1, <2>2, SamePushes, SameHistory, SameVisit
       DEF LinkInv, vars, historyVars
  <2>4. CallHeld'
    BY <1>4, <2>1, <2>2, SameCall DEF LinkInv, vars, CallHeld, serverVars
  <2>5. QED
    BY <1>4, <2>1, <2>2, <2>3, <2>4 DEF LinkInv, vars
<1> QED
  BY <1>2, <1>3, <1>4, LinkWebArrival, LinkExpire, LinkRegister, LinkWsConnects,
     LinkReceivePush, LinkKey, LinkReceive, LinkDoorCloses, LinkGiveUp,
     LinkWsDisconnects, LinkWifiChange, LinkPowerCut, LinkServerRestart
     DEF Next

LEMMA LinkAlways == Spec => []LinkInv
  BY LinkInit, LinkStep, PTL DEF Spec

\* What joins server and station keeps its type on any network and through any
\* restart: a call under way belongs to a wait of the station and, while it is
\* served, to a request of the server, and a door is open for something.
THEOREM SystemTypes == Spec => []TypeOK
  BY LinkAlways, LinkTypes, PTL

\* The server and the station keep their own types when they are joined.
THEOREM PartsTypes == Spec => [](Server!TypeOK /\ Station!TypeOK)
<1>1. LinkInv => Server!TypeOK /\ Station!TypeOK
  BY SameServerTypes, SameStationTypes DEF LinkInv, ServerOK, FP!FirmwareInv
<1>2. QED
  BY <1>1, LinkAlways, PTL

-----------------------------------------------------------------------------
(* The keypad *)

\* What the station does in a step of the system, if anything: never a success
\* answer that opens no box.
LEMMA SettledStep ==
    ASSUME LinkInv, FP!Settled, [Next]_vars
    PROVE  FP!Settled'
<1>1. CASE UNCHANGED <<task, currentState>>
  BY <1>1 DEF FP!Settled
<1>2. CASE \/ WebArrival \/ Expire \/ Served \/ \E r \in Slots : ServerStep(r)
           \/ RegisterDevice \/ ServerRestart \/ UNCHANGED vars
  BY <1>1, <1>2 DEF WebArrival, Expire, Served, Serve, Refuse, SyncData,
     ServerStep, RegisterDevice, ServerRestart, vars, stationVars
<1>3. CASE Key
  BY <1>3, SameKey, StationAssumed, FP!StepSettled DEF Key
<1>4. CASE Receive
  <2>1. CASE FP!VerifyFailed \/ FP!LogPosted
    BY <2>1, StationAssumed, FP!StepSettled
  <2>2. CASE call.ok /\ (FP!DeliveryVerified(call.pin) \/ FP!PickupVerified(call.pin))
    <3>1. call.pin \in Cabinets
      BY <1>4, <2>2, AnswerOpens DEF Receive
    <3>2. QED
      BY <2>2, <3>1, StationAssumed, FP!StepSettled
  <2>3. CASE FP!SyncDataReceived(call.entries)
    <3>1. call.entries \in FP!Answers
      BY SameAnswers DEF LinkInv, CallHeld, Calls
    <3>2. QED
      BY <2>3, <3>1, StationAssumed, FP!StepSettled
  <2>4. QED
    BY <1>4, <2>1, <2>2, <2>3, SameStep, SameOpening, SameSyncData DEF Receive
<1>5. CASE GiveUp \/ DoorCloses \/ WsConnects \/ WsDisconnects \/ WifiChange \/ PowerCut
  BY <1>5, SameStep, StationAssumed, FP!StepSettled
     DEF GiveUp, DoorCloses, WsConnects, WsDisconnects, WifiChange, PowerCut
<1>6. CASE ReceivePush
  <2>1. ASSUME NEW push, push = Head(pushed), push.event = "open_cabinet",
               FP!OpenCabinet(orders[push.order].cab)
        PROVE  FP!Settled'
    <3>1. Stored(push.order)
      BY <1>6, <2>1, PushTaken DEF LinkInv, ReceivePush, serverVars
    <3>2. orders[push.order].cab \in Cabinets
      BY <3>1 DEF Stored, LinkInv, ServerOK, SP!TypeOK
    <3>3. QED
      BY <2>1, <3>2, StationAssumed, FP!StepSettled
  <2>2. CASE FP!SyncRequest
    BY <2>2, StationAssumed, FP!StepSettled
  <2>3. QED
    BY <1>6, <2>1, <2>2, SameStep, SameOpening DEF ReceivePush
<1>7. QED
  BY <1>2, <1>3, <1>4, <1>5, <1>6 DEF Next

\* The keypad of a station joined with this server never locks up, for any
\* workload, network, power cut and restart: every success answer to a
\* verification names a box, and every other end of one resets the state.
THEOREM KeypadStaysAlive == Spec => []KeypadAlive
<1>1. Init => FP!Settled
  BY DEF Init, Station!Init, FP!Settled
<1>2. LinkInv /\ FP!Settled /\ [Next]_vars => FP!Settled'
  BY SettledStep
<1>3. FP!Settled => KeypadAlive
  BY DEF FP!Settled, KeypadAlive, Station!Waiting
<1>4. QED
  BY <1>1, <1>2, <1>3, LinkAlways, PTL DEF Spec

-----------------------------------------------------------------------------
(* Codes fit doors *)

\* The station's requests do not overlap: it makes one call at a time, and a call
\* it has given up has ended at the server before the next is served.  Otherwise
\* two requests could deliver the same order, and the second change its code.
OneStation == \A r, s \in StationSlots : r = s

\* This much of it is used, and on a reliable network it is always so.
OneDelivery ==
    \A r, s \in Slots :
        reqs[r].step \in SP!DeliverSteps /\ reqs[s].step \in SP!DeliverSteps
        => r = s

\* This code has been given to an order in this compartment.
Given(code, cab) ==
    /\ cab \in Cabinets
    /\ \E o \in Orders : issued[o] = [code |-> code, cab |-> cab]

\* The order of a creation in progress is new and its own.
CreationsNew ==
    \A r \in Slots : reqs[r].step \in SP!CreateSteps =>
        /\ reqs[r].order \in Orders \ forgotten
        /\ orders[reqs[r].order].status = "none"
        /\ \A s \in Slots \ {r} : reqs[s].order # reqs[r].order

\* Deliveries are the station's, and of orders that have no pickup code yet.
DeliveriesNew ==
    \A r \in Slots : reqs[r].step \in SP!DeliverSteps =>
        r \in StationSlots /\ issued[reqs[r].order] = NotIssued

\* The pickup code of a delivered order is the last one it has been given ...
Recorded ==
    \A o \in Orders : orders[o].status = "delivered" =>
        issued[o] = [code |-> orders[o].code, cab |-> orders[o].cab]

\* ... and before its delivery it has been given none.
PendingNew ==
    \A o \in Orders :
        (\/ orders[o].status = "pending"
         \/ orders[o].status = "none" /\ o \notin forgotten)
        => issued[o] = NotIssued

\* A code being verified for a pickup fits the order the server has found for
\* it, and what the server answers fits.
CallFits ==
    /\ call.stage = "served" /\ task.wait = "verifyPickupOnline" =>
          issued[call.order] = [code |-> task.code, cab |-> orders[call.order].cab]
    /\ call.stage = "answered" /\ call.ok /\ task.wait = "verifyPickupOnline" =>
          Given(task.code, call.pin)
    /\ \A i \in DOMAIN call.entries :
          Given(call.entries[i].otpCode, call.entries[i].cabinetPin)

CacheFits ==
    \A i \in DOMAIN syncData : Given(syncData[i].otpCode, syncData[i].cabinetPin)

DoorFits ==
    task.wait = "door" /\ visit.purpose = "pickup" => Given(visit.code, task.pin)

ServerCodes == CreationsNew /\ DeliveriesNew /\ Recorded /\ PendingNew

StationCodes == CallFits /\ CacheFits /\ DoorFits

CodeInv == LinkInv /\ ServerCodes /\ StationCodes

\* A code once given stays given, and a stored order stays in its compartment.
IssuedStay ==
    \A o \in Orders : issued[o].cab \in Cabinets => issued'[o] = issued[o]

CabsStay ==
    \A o \in Orders : orders[o].status # "none" => orders'[o].cab = orders[o].cab

LEMMA GivenStays ==
    ASSUME IssuedStay, NEW code, NEW cab, Given(code, cab)
    PROVE  \E o \in Orders : issued'[o] = [code |-> code, cab |-> cab]
<1>1. PICK o \in Orders : issued[o] = [code |-> code, cab |-> cab]
  BY DEF Given
<1>2. issued[o].cab = cab /\ cab \in Cabinets
  BY <1>1 DEF Given
<1> QED
  BY <1>1, <1>2 DEF IssuedStay

LEMMA SameCodes ==
    /\ UNCHANGED orders => CabsStay
    /\ UNCHANGED issued => IssuedStay
  BY DEF CabsStay, IssuedStay

LEMMA SameServerCodes ==
    ASSUME ServerCodes, UNCHANGED <<orders, reqs, issued, forgotten>>
    PROVE  ServerCodes'
  BY DEF ServerCodes, CreationsNew, DeliveriesNew, Recorded, PendingNew

LEMMA SameCache ==
    ASSUME CacheFits, IssuedStay, UNCHANGED syncData
    PROVE  CacheFits'
<1> SUFFICES ASSUME NEW i \in DOMAIN syncData
             PROVE  Given(syncData[i].otpCode, syncData[i].cabinetPin)'
  BY DEF CacheFits
<1>1. PICK code, cab : code = syncData[i].otpCode /\ cab = syncData[i].cabinetPin
  OBVIOUS
<1>2. Given(code, cab)
  BY <1>1 DEF CacheFits
<1> QED
  BY <1>1, <1>2, GivenStays DEF Given

LEMMA SameCallCodes ==
    ASSUME LinkInv, CallFits, IssuedStay, UNCHANGED <<call, task>>,
           call.stage = "served" => CabsStay
    PROVE  CallFits'
<1>1. ASSUME call.stage = "served", task.wait = "verifyPickupOnline"
      PROVE  issued'[call.order] = [code |-> task.code,
                                    cab |-> orders'[call.order].cab]
  <2>1. call.order \in Orders /\ orders[call.order].status # "none"
    BY <1>1 DEF LinkInv, CallHeld, VerifyWaits, Stored
  <2>2. orders[call.order].cab \in Cabinets
    BY <2>1 DEF LinkInv, ServerOK, SP!TypeOK
  <2>3. issued[call.order] = [code |-> task.code, cab |-> orders[call.order].cab]
    BY <1>1 DEF CallFits
  <2>4. issued'[call.order] = issued[call.order]
        /\ orders'[call.order].cab = orders[call.order].cab
    BY <2>1, <1>1, <2>2, <2>3 DEF IssuedStay, CabsStay
  <2>5. QED
    BY <2>3, <2>4
<1>2. ASSUME call.stage = "answered", call.ok, task.wait = "verifyPickupOnline"
      PROVE  Given(task.code, call.pin)'
  <2>1. PICK code, cab : code = task.code /\ cab = call.pin
    OBVIOUS
  <2>2. Given(code, cab)
    BY <1>2, <2>1 DEF CallFits
  <2>3. QED
    BY <2>1, <2>2, GivenStays DEF Given
<1>3. ASSUME NEW i \in DOMAIN call.entries
      PROVE  Given(call.entries[i].otpCode, call.entries[i].cabinetPin)'
  <2>1. PICK code, cab : /\ code = call.entries[i].otpCode
                         /\ cab = call.entries[i].cabinetPin
    OBVIOUS
  <2>2. Given(code, cab)
    BY <2>1 DEF CallFits
  <2>3. QED
    BY <2>1, <2>2, GivenStays DEF Given
<1> QED
  BY <1>1, <1>2, <1>3 DEF CallFits

LEMMA SameDoor ==
    ASSUME DoorFits, IssuedStay, UNCHANGED <<task, visit>>
    PROVE  DoorFits'
<1> SUFFICES ASSUME task.wait = "door", visit.purpose = "pickup"
             PROVE  Given(visit.code, task.pin)'
  BY DEF DoorFits
<1>1. PICK code, cab : code = visit.code /\ cab = task.pin
  OBVIOUS
<1>2. Given(code, cab)
  BY <1>1 DEF DoorFits
<1> QED
  BY <1>1, <1>2, GivenStays DEF Given

LEMMA ShutDoor ==
    ASSUME task'.wait # "door"
    PROVE  DoorFits'
  BY DEF DoorFits

\* No call is under way, or one that has been refused.
LEMMA EmptyCallFits ==
    ASSUME \/ call' = NoCall
           \/ call' = [NoCall EXCEPT !.stage = "answered"]
    PROVE  CallFits'
<1>1. call'.stage # "served" /\ ~call'.ok /\ call'.entries = <<>>
  BY DEF NoCall
<1>2. DOMAIN <<>> = {}
  OBVIOUS
<1> QED
  BY <1>1, <1>2 DEF CallFits

\* A call that is not under way says nothing, whatever the sketch does.
LEMMA IdleCallFits ==
    ASSUME LinkInv, CallFits, IssuedStay, task.wait \notin HttpWaits, UNCHANGED call
    PROVE  CallFits'
<1>1. call.stage = "none"
  BY DEF LinkInv, CallHeld, Calls
<1>2. ASSUME NEW i \in DOMAIN call.entries
      PROVE  Given(call.entries[i].otpCode, call.entries[i].cabinetPin)'
  <2>1. PICK code, cab : /\ code = call.entries[i].otpCode
                         /\ cab = call.entries[i].cabinetPin
    OBVIOUS
  <2>2. Given(code, cab)
    BY <2>1 DEF CallFits
  <2>3. QED
    BY <2>1, <2>2, GivenStays DEF Given
<1> QED
  BY <1>1, <1>2 DEF CallFits

-----------------------------------------------------------------------------
(* The codes of the server *)

LEMMA WebCodes ==
    ASSUME LinkInv, ServerCodes, NEW r \in Slots, NEW q, Taken(r, q), WebTaken(q),
           SP!TypeOK', UNCHANGED <<issued, forgotten>>
    PROVE  ServerCodes'
<1>1. /\ reqs'[r] = q /\ reqs[r].step = "idle" /\ orders' = orders
      /\ \A s \in Slots \ {r} : reqs'[s] = reqs[s]
  BY TakenKeeps DEF LinkInv
<1>2. CreationsNew'
  <2>1. ASSUME NEW s \in Slots \ {r}, reqs'[s].step \in SP!CreateSteps
        PROVE  /\ reqs'[s].order \in Orders \ forgotten
               /\ orders[reqs'[s].order].status = "none"
               /\ \A t \in Slots \ {s} : reqs'[t].order # reqs'[s].order
    <3>1. /\ reqs[s].order \in Orders \ forgotten
          /\ orders[reqs[s].order].status = "none"
          /\ \A t \in Slots \ {s} : reqs[t].order # reqs[s].order
          /\ reqs'[s] = reqs[s]
      BY <1>1, <2>1 DEF ServerCodes, CreationsNew
    <3>2. q.order # reqs[s].order
      BY <3>1 DEF WebTaken, Stored, SP!FreshIds
    <3>3. QED
      BY <1>1, <3>1, <3>2
  <2>2. ASSUME q.step \in SP!CreateSteps
        PROVE  /\ q.order \in Orders \ forgotten
               /\ orders[q.order].status = "none"
               /\ \A t \in Slots \ {r} : reqs'[t].order # q.order
    <3>1. q.order \in SP!FreshIds /\ q.order \notin forgotten
      BY <2>2 DEF WebTaken, SP!CreateSteps
    <3>2. QED
      BY <1>1, <3>1 DEF SP!FreshIds
  <2>3. QED
    BY <1>1, <2>1, <2>2 DEF CreationsNew
<1>3. DeliveriesNew'
  <2>1. q.step \notin SP!DeliverSteps
    BY DEF WebTaken, SP!DeliverSteps
  <2>2. QED
    BY <1>1, <2>1 DEF ServerCodes, DeliveriesNew
<1> QED
  BY <1>1, <1>2, <1>3 DEF ServerCodes, Recorded, PendingNew

LEMMA ServeCodes ==
    ASSUME LinkInv, ServerCodes, NEW r \in StationSlots, NEW q, Taken(r, q),
           ServeTaken(q), SP!TypeOK', UNCHANGED <<issued, forgotten>>
    PROVE  ServerCodes'
<1>0. r \in Slots
  BY DEF Slots
<1>1. /\ reqs'[r] = q /\ reqs[r].step = "idle" /\ orders' = orders
      /\ \A s \in Slots \ {r} : reqs'[s] = reqs[s]
  BY <1>0, TakenKeeps DEF LinkInv
<1>2. CreationsNew'
  <2>1. q.step \notin SP!CreateSteps
    BY DEF ServeTaken, SP!CreateSteps
  <2>2. ASSUME NEW s \in Slots \ {r}, reqs'[s].step \in SP!CreateSteps
        PROVE  /\ reqs'[s].order \in Orders \ forgotten
               /\ orders[reqs'[s].order].status = "none"
               /\ \A t \in Slots \ {s} : reqs'[t].order # reqs'[s].order
    <3>1. /\ reqs[s].order \in Orders \ forgotten
          /\ orders[reqs[s].order].status = "none"
          /\ \A t \in Slots \ {s} : reqs[t].order # reqs[s].order
          /\ reqs'[s] = reqs[s]
      BY <1>1, <2>2 DEF ServerCodes, CreationsNew
    <3>2. q.order # reqs[s].order
      BY <3>1, SystemAssumption DEF ServeTaken
    <3>3. QED
      BY <1>1, <3>1, <3>2
  <2>3. QED
    BY <1>1, <2>1, <2>2 DEF CreationsNew
<1>3. DeliveriesNew'
  <2>1. q.step \in SP!DeliverSteps => issued[q.order] = NotIssued
    BY DEF ServeTaken, SP!DeliverSteps, ServerCodes, PendingNew
  <2>2. QED
    BY <1>1, <2>1 DEF ServerCodes, DeliveriesNew
<1> QED
  BY <1>1, <1>2, <1>3 DEF ServerCodes, Recorded, PendingNew

LEMMA HandlerCodes ==
    ASSUME OneDelivery, LinkInv, ServerCodes, NEW r \in Slots, ServerStep(r)
    PROVE  ServerCodes' /\ IssuedStay /\ CabsStay
<1>1. SP!HandlerEffect(r) /\ StoredStay
  BY HandlerKeeps DEF LinkInv, ServerStep
<1>2. /\ \A o \in Orders : issued'[o] =
            IF orders'[o].status = "delivered"
            THEN [code |-> orders'[o].code, cab |-> orders'[o].cab]
            ELSE issued[o]
      /\ forgotten' = forgotten
  BY DEF ServerStep, RecordIssued
\* A delivery is of an order without a pickup code.
<1>3. reqs[r].step = "deliver" =>
         r \in StationSlots /\ issued[reqs[r].order] = NotIssued
  BY DEF ServerCodes, DeliveriesNew, SP!DeliverSteps
\* An insertion is of a new order.
<1>4. reqs[r].step = "insert" =>
         /\ reqs[r].order \in Orders \ forgotten
         /\ orders[reqs[r].order].status = "none"
  BY DEF ServerCodes, CreationsNew, SP!CreateSteps
\* What can have become of an order.
<1>5. ASSUME NEW o \in Orders
      PROVE  \/ orders'[o] = orders[o]
             \/ /\ o = reqs[r].order /\ reqs[r].step = "insert"
                /\ reqs'[r] = SP!Idle /\ orders'[o].status = "pending"
             \/ /\ o = reqs[r].order /\ reqs[r].step = "deliver"
                /\ reqs'[r] = SP!Idle /\ orders'[o].cab = orders[o].cab
                /\ orders'[o].status = "delivered"
             \/ /\ o = reqs[r].order /\ reqs[r].step = "close"
                /\ orders'[o].status \in {"completed", "cancelled"}
                /\ orders'[o].cab = orders[o].cab
  BY <1>1 DEF SP!HandlerEffect, SP!Saves, SP!At
<1>6. SP!Idle.step = "idle" /\ SP!Idle.order = Null
  BY DEF SP!Idle
<1>7. CreationsNew'
  <2>1. ASSUME NEW s \in Slots, reqs'[s].step \in SP!CreateSteps
        PROVE  /\ reqs[s].step \in SP!CreateSteps
               /\ reqs'[s].order = reqs[s].order
               /\ s = r => reqs'[r] # SP!Idle
    BY <1>1, <1>6, <2>1
       DEF SP!HandlerEffect, SP!GoesOn, SP!CreateSteps
  <2>2. ASSUME NEW s \in Slots, reqs'[s].step \in SP!CreateSteps
        PROVE  /\ reqs[s].order \in Orders \ forgotten
               /\ orders[reqs[s].order].status = "none"
               /\ \A t \in Slots \ {s} : reqs[t].order # reqs[s].order
    BY <2>1, <2>2 DEF ServerCodes, CreationsNew
  <2>3. ASSUME NEW s \in Slots, reqs'[s].step \in SP!CreateSteps
        PROVE  orders'[reqs[s].order].status = "none"
    <3>1. CASE s = r
      <4>1. reqs[r].step \in {"findCabinet", "reserve", "insert"}
            /\ reqs'[r] # SP!Idle
        BY <2>1, <2>3, <3>1 DEF SP!CreateSteps
      <4>2. QED
        BY <1>5, <2>2, <2>3, <3>1, <4>1
    <3>2. CASE s # r
      BY <1>5, <2>2, <2>3, <3>2
    <3>3. QED
      BY <3>1, <3>2
  <2>4. ASSUME NEW s \in Slots, reqs'[s].step \in SP!CreateSteps,
               NEW t \in Slots \ {s}
        PROVE  reqs'[t].order # reqs'[s].order
    <3>1. CASE t # r
      BY <1>1, <2>1, <2>2, <2>4, <3>1 DEF SP!HandlerEffect
    <3>2. CASE t = r /\ reqs'[r] = SP!Idle
      BY <1>6, <2>1, <2>2, <2>4, <3>2, SystemAssumption
    <3>3. CASE t = r /\ SP!GoesOn(r)
      BY <2>1, <2>2, <2>4, <3>3 DEF SP!GoesOn
    <3>4. QED
      BY <1>1, <3>1, <3>2, <3>3 DEF SP!HandlerEffect
  <2>5. QED
    BY <1>2, <2>1, <2>2, <2>3, <2>4 DEF CreationsNew
<1>8. DeliveriesNew'
  <2>1. SUFFICES ASSUME NEW s \in Slots, reqs'[s].step \in SP!DeliverSteps
                 PROVE  /\ s \in StationSlots
                        /\ issued'[reqs'[s].order] = NotIssued
    BY DEF DeliveriesNew
  <2>2. /\ reqs[s].step \in SP!DeliverSteps /\ reqs'[s].order = reqs[s].order
        /\ s = r => reqs'[r] # SP!Idle
    BY <1>1, <1>6, <2>1 DEF SP!HandlerEffect, SP!GoesOn, SP!DeliverSteps
  <2>3. s \in StationSlots /\ issued[reqs[s].order] = NotIssued
    BY <2>2 DEF ServerCodes, DeliveriesNew
  <2>4. reqs[s].order \in Orders
    BY <2>2 DEF LinkInv, ServerOK, SP!TypeOK, SP!Supplied, SP!OrderSteps,
                SP!DeliverSteps
  <2>5. PICK o \in Orders : o = reqs[s].order
    BY <2>4
  <2>6. CASE orders'[o] = orders[o]
    BY <1>2, <2>2, <2>3, <2>5, <2>6 DEF ServerCodes, Recorded
  <2>7. CASE orders'[o] # orders[o]
    <3>1. ~(reqs[r].step = "deliver" /\ reqs'[r] = SP!Idle)
      BY <1>3, <2>2, <2>3 DEF OneDelivery, SP!DeliverSteps
    <3>2. orders'[o].status # "delivered"
      BY <1>5, <2>7, <3>1
    <3>3. QED
      BY <1>2, <2>2, <2>3, <2>5, <3>2
  <2>8. QED
    BY <2>6, <2>7
<1>9. Recorded'
  BY <1>2 DEF Recorded
<1>10. PendingNew'
  <2>1. SUFFICES ASSUME NEW o \in Orders,
                        \/ orders'[o].status = "pending"
                        \/ orders'[o].status = "none" /\ o \notin forgotten'
                 PROVE  issued'[o] = NotIssued
    BY DEF PendingNew
  <2>2. issued'[o] = issued[o]
    BY <1>2, <2>1
  <2>3. \/ orders[o].status = "pending"
        \/ orders[o].status = "none" /\ o \notin forgotten
    BY <1>2, <1>4, <1>5, <2>1
  <2>4. QED
    BY <2>2, <2>3 DEF ServerCodes, PendingNew
<1>11. IssuedStay /\ CabsStay
  <2>1. ASSUME NEW o \in Orders, issued[o].cab \in Cabinets
        PROVE  issued'[o] = issued[o]
    <3>1. issued[o] # NotIssued
      BY <2>1, SystemAssumption DEF NotIssued
    <3>2. CASE orders'[o] = orders[o]
      BY <1>2, <3>2 DEF ServerCodes, Recorded
    <3>3. CASE orders'[o] # orders[o]
      <4>1. orders'[o].status # "delivered"
        BY <1>3, <1>5, <3>1, <3>3
      <4>2. QED
        BY <1>2, <4>1
    <3>4. QED
      BY <3>2, <3>3
  <2>2. ASSUME NEW o \in Orders, orders[o].status # "none"
        PROVE  orders'[o].cab = orders[o].cab
    BY <1>4, <1>5, <2>2
  <2>3. QED
    BY <2>1, <2>2 DEF IssuedStay, CabsStay
<1> QED
  BY <1>7, <1>8, <1>9, <1>10, <1>11 DEF ServerCodes

LEMMA ExpireCodes ==
    ASSUME LinkInv, ServerCodes, Expire
    PROVE  ServerCodes' /\ IssuedStay /\ CabsStay
<1>1. PICK e \in Orders : SP!Expire(e)
  BY SameExpire DEF Expire
<1>2. orders \in [Orders -> SP!OrderDocs]
  BY DEF LinkInv, ServerOK, SP!TypeOK
<1>3. /\ orders' = [orders EXCEPT ![e].expired = TRUE] /\ reqs' = reqs
      /\ issued' = issued /\ forgotten' = forgotten
  BY <1>1 DEF SP!Expire, Expire, historyVars
<1>4. \A o \in Orders : /\ orders'[o].status = orders[o].status
                        /\ orders'[o].code = orders[o].code
                        /\ orders'[o].cab = orders[o].cab
  BY <1>2, <1>3 DEF SP!OrderDocs
<1> QED
  BY <1>3, <1>4 DEF ServerCodes, CreationsNew, DeliveriesNew, Recorded,
                    PendingNew, IssuedStay, CabsStay

LEMMA RestartCodes ==
    ASSUME LinkInv, ServerCodes, ServerRestart
    PROVE  ServerCodes'
<1>1. /\ \A o \in Orders : orders'[o].status = "none"
      /\ \A r \in Slots : reqs'[r].step = "idle"
      /\ forgotten' = {o \in Orders : o \in forgotten \/ orders[o].status # "none"}
      /\ issued' = issued
  BY DEF ServerRestart, Server!NoOrder, Server!Idle
<1>2. CreationsNew' /\ DeliveriesNew'
  BY <1>1 DEF CreationsNew, DeliveriesNew, SP!CreateSteps, SP!DeliverSteps
<1>3. Recorded' /\ PendingNew'
  BY <1>1 DEF ServerCodes, Recorded, PendingNew
<1> QED
  BY <1>2, <1>3 DEF ServerCodes

-----------------------------------------------------------------------------
(* The codes of the station *)

\* The sketch and its call are left alone.
LEMMA SameStationCodes ==
    ASSUME LinkInv, StationCodes, IssuedStay, CabsStay,
           UNCHANGED <<call, task, syncData, visit>>
    PROVE  StationCodes'
  BY SameCallCodes, SameCache, SameDoor DEF StationCodes

\* The answer to a pickup has the pin of the order the code was found for.
LEMMA AnswerCodes ==
    ASSUME OneDelivery, CodeInv, NEW r \in Slots, ServerStep(r)
    PROVE  StationCodes'
<1>1. IssuedStay /\ CabsStay
  BY HandlerCodes DEF CodeInv
<1>2. task' = task /\ syncData' = syncData /\ visit' = visit
  BY DEF ServerStep, stationVars
<1>3. CASE call' = call
  BY <1>1, <1>2, <1>3, SameStationCodes DEF CodeInv
<1>4. ASSUME call.stage = "served", NEW pin,
             pin = IF call.order = Null THEN Null ELSE orders[call.order].cab,
             call' = [call EXCEPT !.stage = "answered", !.ok = TRUE, !.pin = pin]
      PROVE  StationCodes'
  <2>1. call \in Calls
    BY DEF CodeInv, LinkInv, CallHeld
  <2>2. /\ call'.stage = "answered" /\ call'.pin = pin
        /\ call'.entries = call.entries
    BY <1>4, <2>1 DEF Calls
  <2>3. ASSUME task.wait = "verifyPickupOnline"
        PROVE  Given(task.code, pin)'
    <3>1. call.order \in Orders /\ orders[call.order].status # "none"
      BY <1>4, <2>3 DEF CodeInv, LinkInv, CallHeld, VerifyWaits, Stored
    <3>2. pin = orders[call.order].cab /\ pin \in Cabinets
      BY <1>4, <3>1, SystemAssumption DEF CodeInv, LinkInv, ServerOK, SP!TypeOK
    <3>3. issued[call.order] = [code |-> task.code, cab |-> pin]
      BY <1>4, <2>3, <3>2 DEF CodeInv, StationCodes, CallFits
    <3>4. issued'[call.order] = [code |-> task.code, cab |-> pin]
      BY <1>1, <3>1, <3>2, <3>3 DEF IssuedStay
    <3>5. QED
      BY <1>2, <3>1, <3>2, <3>4 DEF Given
  <2>4. ASSUME NEW i \in DOMAIN call.entries
        PROVE  Given(call.entries[i].otpCode, call.entries[i].cabinetPin)'
    <3>1. PICK code, cab : /\ code = call.entries[i].otpCode
                           /\ cab = call.entries[i].cabinetPin
      OBVIOUS
    <3>2. Given(code, cab)
      BY <3>1 DEF CodeInv, StationCodes, CallFits
    <3>3. \E o \in Orders : issued'[o] = [code |-> code, cab |-> cab]
      BY <1>1, <3>2, GivenStays
    <3>4. call'.entries[i].otpCode = code /\ call'.entries[i].cabinetPin = cab
      BY <2>2, <3>1
    <3>5. QED
      BY <3>2, <3>3, <3>4, <2>2 DEF Given
  <2>5. CallFits'
    BY <1>2, <2>2, <2>3, <2>4 DEF CallFits
  <2>6. QED
    BY <1>1, <1>2, <2>5, SameCache, SameDoor DEF CodeInv, StationCodes
<1>5. QED
  BY <1>3, <1>4 DEF ServerStep, CabinetPin

\* A pickup code is found with the order it was given to.
LEMMA ServedCodes ==
    ASSUME CodeInv, NEW r \in Slots, Serve(r)
    PROVE  StationCodes'
<1>1. PICK q : SP!TypeOK' /\ Taken(r, q) /\ ServeTaken(q)
  BY ServeTakes DEF CodeInv, LinkInv
<1>2. reqs'[r] = q /\ UNCHANGED orders
  BY <1>1, TakenKeeps DEF CodeInv, LinkInv
<1>3. /\ task' = task /\ syncData' = syncData /\ visit' = visit
      /\ issued' = issued
  BY DEF Serve, stationVars, historyVars
<1>4. CallFits'
  <2>1. /\ call'.stage = "served" /\ call'.order = q.order
        /\ call'.entries = <<>>
    BY <1>2 DEF Serve, NoCall
  <2>2. task.wait = "verifyPickupOnline" =>
           issued[q.order] = [code |-> task.code, cab |-> orders[q.order].cab]
    BY <1>1 DEF ServeTaken, CodeInv, ServerCodes, Recorded
  <2>3. DOMAIN <<>> = {}
    OBVIOUS
  <2>4. QED
    BY <1>2, <1>3, <2>1, <2>2, <2>3 DEF CallFits
<1> QED
  BY <1>2, <1>3, <1>4, SameCodes, SameCache, SameDoor DEF CodeInv, StationCodes

LEMMA RefuseCodes ==
    ASSUME CodeInv, Refuse
    PROVE  StationCodes'
<1>1. /\ task' = task /\ syncData' = syncData /\ visit' = visit
      /\ issued' = issued
  BY DEF Refuse, stationVars, historyVars
<1> QED
  BY <1>1, EmptyCallFits, SameCodes, SameCache, SameDoor
     DEF Refuse, CodeInv, StationCodes

\* sync-data answers with codes of delivered orders.
LEMMA SyncDataCodes ==
    ASSUME CodeInv, SyncData
    PROVE  StationCodes'
<1> DEFINE delivered == {o \in Orders : orders[o].status = "delivered"
                                        /\ orders[o].code # Null}
           entry(o) == [cabinetPin |-> orders[o].cab, otpCode |-> orders[o].code]
<1>1. PICK entries \in Station!Answers :
        /\ ToSet(entries) = {entry(o) : o \in delivered}
        /\ call' = [NoCall EXCEPT !.stage = "answered", !.ok = TRUE,
                                  !.entries = entries]
  BY DEF SyncData
<1>2. /\ task' = task /\ syncData' = syncData /\ visit' = visit
      /\ issued' = issued
  BY DEF SyncData, stationVars, historyVars
<1>3. call'.stage = "answered" /\ call'.entries = entries
  BY <1>1 DEF NoCall
<1>4. ASSUME NEW i \in DOMAIN entries
      PROVE  Given(entries[i].otpCode, entries[i].cabinetPin)
  <2>1. entries[i] \in {entry(o) : o \in delivered}
    BY <1>1 DEF ToSet
  <2>2. PICK o \in Orders : /\ orders[o].status = "delivered"
                            /\ entries[i] = entry(o)
    BY <2>1
  <2>3. /\ entries[i].otpCode = orders[o].code
        /\ entries[i].cabinetPin = orders[o].cab
    BY <2>2
  <2>4. orders[o].cab \in Cabinets
    BY <2>2 DEF CodeInv, LinkInv, ServerOK, SP!TypeOK
  <2>5. issued[o] = [code |-> orders[o].code, cab |-> orders[o].cab]
    BY <2>2 DEF CodeInv, ServerCodes, Recorded
  <2>6. QED
    BY <2>3, <2>4, <2>5 DEF Given
<1>5. task.wait = "syncDataFromServer"
  BY DEF SyncData, Station!Waiting
<1>6. \A i \in DOMAIN call'.entries :
         Given(call'.entries[i].otpCode, call'.entries[i].cabinetPin)
  BY <1>3, <1>4
<1>7. CallFits'
  BY <1>2, <1>3, <1>5, <1>6 DEF CallFits, Given
<1> QED
  BY <1>2, <1>7, SameCodes, SameCache, SameDoor DEF CodeInv, StationCodes

\* A code typed offline opens the compartment of its cache entry.
LEMMA KeyCodes ==
    ASSUME CodeInv, Key
    PROVE  StationCodes'
<1>1. task.wait = "nothing" /\ FP!KeyEffect
  BY SameKey, StationAssumed, FP!KeyDoes DEF CodeInv, LinkInv, Key, FP!Waiting
<1>2. issued' = issued /\ call' = call
  BY DEF Key
<1>3. CallFits'
  BY <1>1, <1>2, SameCodes, IdleCallFits
     DEF CodeInv, StationCodes, HttpWaits, VerifyWaits
<1>4. CASE /\ task'.wait \in {"nothing", "verifyDelivery", "verifyPickupOnline"}
           /\ syncData' = syncData
  BY <1>2, <1>3, <1>4, SameCodes, SameCache, ShutDoor DEF CodeInv, StationCodes
<1>5. ASSUME NEW i \in DOMAIN syncData, syncData[i].otpCode = inputBuffer,
             task'.wait = "door", task'.pin = syncData[i].cabinetPin,
             \A k \in DOMAIN syncData' :
                \E j \in DOMAIN syncData : syncData'[k] = syncData[j]
      PROVE  StationCodes'
  <2>1. CacheFits
    BY DEF CodeInv, StationCodes
  <2>2. CacheFits'
    BY <1>2, <1>5, <2>1 DEF CacheFits, Given
  <2>3. Given(inputBuffer, task'.pin)
    BY <1>5, <2>1 DEF CacheFits
  <2>4. visit'.code = inputBuffer
    BY <1>5 DEF Key, NoVisit
  <2>5. DoorFits'
    BY <1>2, <2>3, <2>4 DEF DoorFits, Given
  <2>6. QED
    BY <1>3, <2>2, <2>5 DEF StationCodes
<1> QED
  BY <1>1, <1>4, <1>5 DEF FP!KeyEffect

\* A door opened by an answer fits the code that was sent.
LEMMA ReceiveCodes ==
    ASSUME CodeInv, Receive
    PROVE  StationCodes'
<1>1. issued' = issued /\ CallFits'
  BY EmptyCallFits DEF Receive
<1>2. CacheFits /\ IssuedStay
  BY <1>1, SameCodes DEF CodeInv, StationCodes
<1>3. CASE FP!VerifyFailed \/ FP!LogPosted
  <2>1. FP!Resumes
    BY <1>3, StationAssumed, FP!StepResumes DEF CodeInv, LinkInv
  <2>2. syncData' = syncData
    BY <1>3 DEF FP!VerifyFailed, FP!LogPosted
  <2>3. QED
    BY <1>1, <1>2, <2>1, <2>2, ResumedNoDoor, ShutDoor, SameCache
       DEF StationCodes
<1>4. CASE FP!DeliveryVerified(call.pin) /\ visit'.purpose = "deliver"
  <2>1. DoorFits'
    BY <1>4 DEF DoorFits
  <2>2. QED
    BY <1>1, <1>2, <1>4, <2>1, SameCache DEF StationCodes, FP!DeliveryVerified
<1>5. CASE /\ call.ok /\ FP!PickupVerified(call.pin)
           /\ visit' = [NoVisit EXCEPT !.purpose = "pickup", !.code = task.code]
  <2>1. Given(task.code, call.pin)
    BY <1>5 DEF CodeInv, StationCodes, CallFits, Receive, FP!PickupVerified,
                FP!Waiting
  <2>2. visit'.code = task.code /\ task'.pin = call.pin
    BY <1>5, AnswerOpens DEF NoVisit, CodeInv, Receive
  <2>3. DoorFits'
    BY <1>1, <2>1, <2>2 DEF DoorFits, Given
  <2>4. QED
    BY <1>1, <1>2, <1>5, <2>3, SameCache DEF StationCodes, FP!PickupVerified
<1>6. CASE FP!SyncDataReceived(call.entries)
  <2>1. call.entries \in FP!Answers
    BY SameAnswers DEF CodeInv, LinkInv, CallHeld, Calls
  <2>2. FP!Resumes
    BY <1>6, <2>1, StationAssumed, FP!StepResumes DEF CodeInv, LinkInv
  <2>3. \A k \in DOMAIN syncData' : k \in DOMAIN call.entries
                                    /\ syncData'[k] = call.entries[k]
    BY <1>6, <2>1, StationAssumed, FP!CachedElements DEF FP!SyncDataReceived
  <2>4. \A k \in DOMAIN call.entries :
           Given(call.entries[k].otpCode, call.entries[k].cabinetPin)
    BY DEF CodeInv, StationCodes, CallFits
  <2>5. CacheFits'
    BY <1>1, <2>3, <2>4 DEF CacheFits, Given
  <2>6. QED
    BY <1>1, <2>2, <2>5, ResumedNoDoor, ShutDoor DEF StationCodes
<1> QED
  BY <1>3, <1>4, <1>5, <1>6, SameStep, SameOpening, SameSyncData
     DEF Receive, NoVisit

LEMMA GiveUpCodes ==
    ASSUME CodeInv, GiveUp
    PROVE  StationCodes'
<1>1. FP!VerifyFailed \/ FP!SyncDataFailed \/ FP!LogPosted
  BY SameStep DEF GiveUp
<1>2. FP!Resumes
  BY <1>1, StationAssumed, FP!StepResumes DEF CodeInv, LinkInv
<1>3. syncData' = syncData
  BY <1>1 DEF FP!VerifyFailed, FP!SyncDataFailed, FP!LogPosted
<1>4. issued' = issued /\ call' = NoCall
  BY DEF GiveUp, historyVars
<1> QED
  BY <1>2, <1>3, <1>4, SameCodes, SameCache, ResumedNoDoor, ShutDoor,
     EmptyCallFits DEF CodeInv, StationCodes

LEMMA DoorClosesCodes ==
    ASSUME CodeInv, DoorCloses
    PROVE  StationCodes'
<1>1. FP!BoxClosed
  BY SameStep DEF DoorCloses
<1>2. FP!Resumes
  BY <1>1, StationAssumed, FP!StepResumes DEF CodeInv, LinkInv
<1>3. syncData' = syncData /\ task.wait = "door"
  BY <1>1 DEF FP!BoxClosed, FP!Waiting
<1>4. issued' = issued /\ call' = call
  BY DEF DoorCloses
<1>5. CallFits'
  BY <1>3, <1>4, SameCodes, IdleCallFits
     DEF CodeInv, StationCodes, HttpWaits, VerifyWaits
<1> QED
  BY <1>2, <1>3, <1>4, <1>5, SameCodes, SameCache, ResumedNoDoor, ShutDoor
     DEF CodeInv, StationCodes

LEMMA WsConnectsCodes ==
    ASSUME CodeInv, WsConnects
    PROVE  StationCodes'
<1>1. FP!WsConnect
  BY SameStep DEF WsConnects
<1>2. FP!Resumes
  BY <1>1, StationAssumed, FP!StepResumes DEF CodeInv, LinkInv
<1>3. syncData' = syncData /\ task.wait = "nothing"
  BY <1>1 DEF FP!WsConnect, FP!Waiting
<1>4. issued' = issued /\ call' = call
  BY DEF WsConnects, historyVars
<1>5. CallFits'
  BY <1>3, <1>4, SameCodes, IdleCallFits
     DEF CodeInv, StationCodes, HttpWaits, VerifyWaits
<1> QED
  BY <1>2, <1>3, <1>4, <1>5, SameCodes, SameCache, ResumedNoDoor, ShutDoor
     DEF CodeInv, StationCodes

LEMMA ReceivePushCodes ==
    ASSUME CodeInv, ReceivePush
    PROVE  StationCodes'
<1>1. issued' = issued /\ call' = call
  BY DEF ReceivePush
<1>2. /\ syncData' = syncData /\ task.wait = "nothing"
      /\ task'.wait # "door" \/ visit'.purpose = "push"
  <2>1. CASE \E pin : FP!OpenCabinet(pin) /\ visit'.purpose = "push"
    BY <2>1 DEF FP!OpenCabinet, FP!Waiting
  <2>2. CASE FP!SyncRequest
    <3>1. FP!Resumes
      BY <2>2, StationAssumed, FP!StepResumes DEF CodeInv, LinkInv
    <3>2. QED
      BY <2>2, <3>1, ResumedNoDoor DEF FP!SyncRequest, FP!Waiting
  <2>3. QED
    BY <2>1, <2>2, SameStep, SameOpening DEF ReceivePush, NoVisit
<1>3. CallFits'
  BY <1>1, <1>2, SameCodes, IdleCallFits
     DEF CodeInv, StationCodes, HttpWaits, VerifyWaits
<1>4. DoorFits'
  BY <1>2 DEF DoorFits
<1> QED
  BY <1>1, <1>2, <1>3, <1>4, SameCodes, SameCache DEF CodeInv, StationCodes

LEMMA PowerCutCodes ==
    ASSUME CodeInv, PowerCut
    PROVE  StationCodes'
<1>1. FP!Restart
  BY SameStep DEF PowerCut
<1>2. task'.wait # "door" /\ syncData' = <<>>
  BY <1>1 DEF FP!Restart, FP!Loop
<1>3. CacheFits'
  <2>1. DOMAIN <<>> = {}
    OBVIOUS
  <2>2. QED
    BY <1>2, <2>1 DEF CacheFits
<1>4. CallFits'
  BY EmptyCallFits DEF PowerCut
<1> QED
  BY <1>2, <1>3, <1>4, ShutDoor DEF StationCodes

LEMMA ServerRestartCodes ==
    ASSUME CodeInv, ServerRestart
    PROVE  StationCodes'
<1>1. /\ issued' = issued /\ task' = task /\ syncData' = syncData
      /\ visit' = visit
  BY DEF ServerRestart
<1>2. IssuedStay
  BY <1>1, SameCodes
<1>3. CallFits'
  <2>1. CASE call.stage = "served"
    BY <2>1, EmptyCallFits DEF ServerRestart
  <2>2. CASE call.stage # "served"
    BY <1>1, <1>2, <2>2, SameCallCodes DEF ServerRestart, CodeInv, StationCodes
  <2>3. QED
    BY <2>1, <2>2
<1> QED
  BY <1>1, <1>2, <1>3, SameCache, SameDoor DEF CodeInv, StationCodes

-----------------------------------------------------------------------------
(* CodeInv is inductive *)

LEMMA CodeInit == Init => CodeInv
<1> SUFFICES ASSUME Init PROVE CodeInv
  OBVIOUS
<1>1. LinkInv
  BY LinkInit
<1>2. /\ \A r \in Slots : reqs[r].step = "idle"
      /\ \A o \in Orders : orders[o].status = "none"
  BY SameServerInit DEF Init, SP!Init, SP!Idle, SP!NoOrder
<1>3. ServerCodes
  BY <1>2 DEF Init, ServerCodes, CreationsNew, DeliveriesNew, Recorded,
              PendingNew, SP!CreateSteps, SP!DeliverSteps
<1>4. /\ task.wait # "door" /\ syncData = <<>>
      /\ call.stage = "none" /\ call.entries = <<>>
  BY SameStationInit DEF Init, FP!Init, FP!Loop, NoCall
<1>5. DOMAIN <<>> = {}
  OBVIOUS
<1>6. StationCodes
  BY <1>4, <1>5 DEF StationCodes, CallFits, CacheFits, DoorFits
<1> QED
  BY <1>1, <1>3, <1>6 DEF CodeInv

\* Steps of the station that leave orders, requests and history alone.
LEMMA StationStepCodes ==
    ASSUME ServerCodes,
           \/ Refuse \/ SyncData \/ RegisterDevice \/ WsConnects \/ ReceivePush
           \/ Key \/ Receive \/ DoorCloses \/ GiveUp \/ WsDisconnects
           \/ WifiChange \/ PowerCut \/ UNCHANGED vars
    PROVE  ServerCodes'
<1>1. UNCHANGED <<orders, reqs, issued, forgotten>>
  BY DEF Refuse, SyncData, RegisterDevice, WsConnects, ReceivePush, Key, Receive,
         DoorCloses, GiveUp, WsDisconnects, WifiChange, PowerCut, vars,
         serverVars, historyVars
<1> QED
  BY <1>1, SameServerCodes

LEMMA CodeStep ==
    ASSUME OneDelivery, CodeInv, [Next]_vars
    PROVE  CodeInv'
<1> SUFFICES ServerCodes' /\ StationCodes'
  BY LinkStep DEF CodeInv
<1>1. CASE WebArrival
  <2>1. PICK r \in Slots : \E q : SP!TypeOK' /\ Taken(r, q) /\ WebTaken(q)
    BY <1>1, WebTakes DEF CodeInv, LinkInv, Slots
  <2>2. PICK q : SP!TypeOK' /\ Taken(r, q) /\ WebTaken(q)
    BY <2>1
  <2>3. /\ issued' = issued /\ forgotten' = forgotten /\ call' = call
        /\ task' = task /\ syncData' = syncData /\ visit' = visit
    BY <1>1 DEF WebArrival, stationVars, historyVars
  <2>4. ServerCodes'
    BY <2>2, <2>3, WebCodes DEF CodeInv
  <2>5. UNCHANGED orders
    BY <2>2, TakenKeeps DEF CodeInv, LinkInv
  <2>6. QED
    BY <2>3, <2>4, <2>5, SameCodes, SameStationCodes DEF CodeInv
<1>2. CASE Expire
  BY <1>2, ExpireCodes, SameStationCodes
     DEF CodeInv, Expire, stationVars, historyVars
<1>3. ASSUME NEW r \in StationSlots, Serve(r)
      PROVE  ServerCodes' /\ StationCodes'
  <2>1. r \in Slots
    BY DEF Slots
  <2>2. PICK q : SP!TypeOK' /\ Taken(r, q) /\ ServeTaken(q)
    BY <1>3, <2>1, ServeTakes DEF CodeInv, LinkInv
  <2>3. issued' = issued /\ forgotten' = forgotten
    BY <1>3 DEF Serve, historyVars
  <2>4. QED
    BY <1>3, <2>1, <2>2, <2>3, ServeCodes, ServedCodes DEF CodeInv
<1>4. CASE Served
  BY <1>3, <1>4, StationStepCodes, SyncDataCodes, RefuseCodes DEF Served, CodeInv
<1>5. ASSUME NEW r \in Slots, ServerStep(r)
      PROVE  ServerCodes' /\ StationCodes'
  BY <1>5, HandlerCodes, AnswerCodes DEF CodeInv
<1>6. CASE RegisterDevice \/ WsDisconnects \/ WifiChange \/ UNCHANGED vars
  <2>1. /\ UNCHANGED <<call, task, syncData, visit>>
        /\ UNCHANGED <<orders, issued>>
    BY <1>6, SameStep
       DEF RegisterDevice, WsDisconnects, WifiChange, vars, serverVars,
           stationVars, historyVars, FP!WsDisconnect, FP!WifiChange
  <2>2. QED
    BY <1>6, <2>1, StationStepCodes, SameCodes, SameStationCodes DEF CodeInv
<1>7. CASE WsConnects \/ ReceivePush \/ Key \/ Receive \/ DoorCloses \/ GiveUp
           \/ PowerCut
  BY <1>7, StationStepCodes, WsConnectsCodes, ReceivePushCodes, KeyCodes,
     ReceiveCodes, DoorClosesCodes, GiveUpCodes, PowerCutCodes DEF CodeInv
<1>8. CASE ServerRestart
  BY <1>8, RestartCodes, ServerRestartCodes DEF CodeInv
<1> QED
  BY <1>1, <1>2, <1>4, <1>5, <1>6, <1>7, <1>8 DEF Next

\* Whatever the network loses or delays, whichever of server and station has
\* restarted and however web requests overlap with the keypad: a code typed for a
\* pickup opens the compartment of an order that was given this code.
THEOREM CodesFitDoors ==
    ASSUME OneStation
    PROVE  Spec => []CodeFitsDoor
<1>1. CodeInv => CodeFitsDoor
  BY DEF CodeInv, StationCodes, DoorFits, Given, CodeFitsDoor, Station!Waiting
<1>2. CodeInv /\ [Next]_vars => CodeInv'
  <2>1. CodeInv => OneDelivery
    BY DEF CodeInv, ServerCodes, DeliveriesNew, OneStation, OneDelivery
  <2>2. QED
    BY <2>1, CodeStep
<1>3. QED
  BY <1>1, <1>2, CodeInit, PTL DEF Spec
=============================================================================
