--------------------------- MODULE LockerFirmware ---------------------------
(***************************************************************************)
(* The firmware of a station (sketch_may21a/sketch_may21a.ino): keypad,    *)
(* doors, the cache of pickup codes for the time without network, and the  *)
(* queue of offline pickups.                                               *)
(*                                                                         *)
(* The sketch is one thread.  It serves keys and WebSocket events only in  *)
(* loop(); while it waits for an HTTP answer or moves a door nothing else  *)
(* runs, but the network and the server go on.  An action is what the code *)
(* does between two such waits, and task says what it is waiting for.      *)
(* The server is not in this module: it may answer anything.               *)
(***************************************************************************)
EXTENDS Naturals, Sequences, SequencesExt, FiniteSets

CONSTANTS
    Pins,               \* cabinet pins: servo1Pin and servo2Pin
    Codes,              \* six-digit codes
    MAX_SYNC_ENTRIES,
    MAX_LOG_QUEUE,
    MaxAnswer,          \* bound on the entries of a sync-data answer
    Null

ASSUME FirmwareAssumption ==
    /\ MAX_SYNC_ENTRIES \in Nat \ {0}
    /\ MAX_LOG_QUEUE \in Nat \ {0}
    /\ MaxAnswer \in Nat
    /\ Null \notin Pins \cup Codes

VARIABLES
    wifi,           \* WiFi.status() == WL_CONNECTED
    wsBegun,        \* setup() has called webSocket.begin
    wsConnected,
    currentState,
    inputBuffer,    \* "empty", "partial" (some digits) or a whole code
    syncData,       \* the first syncDataCount entries
    logQueue,       \* the first logQueueCount entries
    task,           \* the wait the sketch is in
    spent           \* history: codes accepted offline since the last sync

network == <<wifi, wsBegun, wsConnected>>
vars == <<network, currentState, inputBuffer, syncData, logQueue, task, spent>>

States == {"STATE_IDLE", "STATE_DELIVERY_INPUT", "STATE_PICKUP_INPUT",
           "STATE_BOX_OPENING"}

SyncEntries == [cabinetPin : Pins, otpCode : Codes]

Functions == {"syncDataFromServer", "syncLogsToServer"}

\* What the sketch waits for, and the functions it calls afterwards.
Waits == {"nothing", "verifyDelivery", "verifyPickupOnline", "door"} \cup Functions

Tasks == [wait : Waits,
          code : Codes \cup {"empty", "partial", Null},   \* code being verified
          pin : Pins \cup {Null},                         \* door that is open
          entry : 0 .. MAX_LOG_QUEUE,                     \* log entry being sent
          next : SeqOf(Functions, 2)]

\* In loop().
Loop == [wait |-> "nothing", code |-> Null, pin |-> Null, entry |-> 0,
         next |-> <<>>]

Waiting(wait) == task.wait = wait

Init == /\ wifi \in BOOLEAN
        /\ wsBegun = wifi
        /\ wsConnected = FALSE
        /\ currentState = "STATE_IDLE"
        /\ inputBuffer = "empty"
        /\ syncData = <<>>
        /\ logQueue = <<>>
        /\ task = IF wifi THEN [Loop EXCEPT !.wait = "syncDataFromServer"]
                          ELSE Loop
        /\ spent = {}

-----------------------------------------------------------------------------
(* Control *)

\* The first line of both functions: they return at once without WiFi,
\* syncLogsToServer with an empty queue too.
Starts(f) == wifi /\ (f = "syncLogsToServer" => logQueue # <<>>)

\* Call these functions in turn, up to the first one that has to wait.
Call(functions) ==
    \/ /\ \A i \in DOMAIN functions : ~Starts(functions[i])
       /\ task' = Loop
    \/ \E i \in DOMAIN functions :
          /\ Starts(functions[i])
          /\ \A j \in 1 .. (i - 1) : ~Starts(functions[j])
          /\ task' = [Loop EXCEPT !.wait = functions[i], !.entry = 1,
                        !.next = SubSeq(functions, i + 1, Len(functions))]

\* Seeded fault: the same servo for every pin.
OpenBoxByPin_OneServo(pin, functions) ==
    task' = [Loop EXCEPT !.wait = "door", !.pin = CHOOSE p \in Pins : TRUE,
                         !.next = functions]

\* openBoxByPin, followed by these calls.  (With a pin that is neither servo's no
\* door moves; the wait is then the display's, and ends in the same way.)
OpenBoxByPin(pin, functions) ==
    task' = [Loop EXCEPT !.wait = "door", !.pin = pin, !.next = functions]

\* The door is shut again after its delays.
BoxClosed ==
    /\ Waiting("door")
    /\ currentState' = "STATE_IDLE"
    /\ Call(task.next)
    /\ UNCHANGED <<network, inputBuffer, syncData, logQueue, spent>>

-----------------------------------------------------------------------------
(* Keypad *)

Reading(state) == Waiting("nothing") /\ currentState = state

Inputs == {"STATE_DELIVERY_INPUT", "STATE_PICKUP_INPUT"}

\* A or B in the main menu.
ChooseInput(input) ==
    /\ Reading("STATE_IDLE")
    /\ currentState' = input
    /\ inputBuffer' = "empty"
    /\ UNCHANGED <<network, syncData, logQueue, task, spent>>

\* 0 to 9; a seventh digit is ignored.
Digit == /\ \E input \in Inputs : Reading(input)
         /\ inputBuffer \notin Codes
         /\ inputBuffer' \in {"partial"} \cup
                             (IF inputBuffer = "partial" THEN Codes ELSE {})
         /\ UNCHANGED <<network, currentState, syncData, logQueue, task, spent>>

\* The star key.
Erase == /\ \E input \in Inputs : Reading(input)
         /\ inputBuffer' = "empty"
         /\ UNCHANGED <<network, currentState, syncData, logQueue, task, spent>>

\* D
Leave == /\ \E input \in Inputs : Reading(input)
         /\ currentState' = "STATE_IDLE"
         /\ inputBuffer' = "empty"
         /\ UNCHANGED <<network, syncData, logQueue, task, spent>>

\* The hash key.  inputBuffer is emptied when the verification returns; nothing
\* reads it before.
EnterDelivery ==
    /\ Reading("STATE_DELIVERY_INPUT")
    /\ inputBuffer' = "empty"
    /\ IF wifi
       THEN /\ currentState' = "STATE_BOX_OPENING"
            /\ task' = [Loop EXCEPT !.wait = "verifyDelivery", !.code = inputBuffer]
       ELSE currentState' = "STATE_IDLE" /\ UNCHANGED task
    /\ UNCHANGED <<network, syncData, logQueue, spent>>

EnterPickupOnline ==
    /\ Reading("STATE_PICKUP_INPUT")
    /\ wifi
    /\ inputBuffer' = "empty"
    /\ currentState' = "STATE_BOX_OPENING"
    /\ task' = [Loop EXCEPT !.wait = "verifyPickupOnline", !.code = inputBuffer]
    /\ UNCHANGED <<network, syncData, logQueue, spent>>

\* Seeded fault: the entries shifted down start one too late.
RemoveEntry_Off(i) ==
    IF i < Len(syncData) THEN RemoveAt(syncData, i + 1) ELSE Front(syncData)

\* The loop that closes the gap in the cache.
RemoveEntry(i) == RemoveAt(syncData, i)

\* verifyPickup without WiFi: the first cached entry with the code opens its
\* box and is logged, unless the queue is full.
EnterPickupOffline ==
    LET matches == {i \in DOMAIN syncData : syncData[i].otpCode = inputBuffer}
    IN
    /\ Reading("STATE_PICKUP_INPUT")
    /\ ~wifi
    /\ inputBuffer' = "empty"
    /\ \/ /\ matches = {}
          /\ currentState' = "STATE_IDLE"
          /\ UNCHANGED <<syncData, logQueue, task, spent>>
       \/ \E i \in matches :
             /\ \A j \in matches : i <= j
             /\ currentState' = "STATE_BOX_OPENING"
             /\ syncData' = RemoveEntry(i)
             /\ logQueue' = IF Len(logQueue) < MAX_LOG_QUEUE
                            THEN Append(logQueue, syncData[i].cabinetPin)
                            ELSE logQueue
             /\ OpenBoxByPin(syncData[i].cabinetPin, <<"syncLogsToServer">>)
             /\ spent' = spent \cup {inputBuffer}
    /\ UNCHANGED network

-----------------------------------------------------------------------------
(* HTTP answers.  No answer within the timeout, a refusal and an answer that *)
(* is not JSON end a verification alike.                                     *)

VerifyFailed ==
    /\ Waiting("verifyDelivery") \/ Waiting("verifyPickupOnline")
    /\ currentState' = "STATE_IDLE"
    /\ task' = Loop
    /\ UNCHANGED <<network, inputBuffer, syncData, logQueue, spent>>

\* success, with the pin of the box, or without a pin and a box number that the
\* sketch can use (Null): then no box is opened, and nothing sets the state back
\* to STATE_IDLE.
DeliveryVerified(pin) ==
    /\ Waiting("verifyDelivery")
    /\ IF pin # Null THEN OpenBoxByPin(pin, <<"syncDataFromServer">>)
                     ELSE Call(<<"syncDataFromServer">>)
    /\ UNCHANGED <<network, currentState, inputBuffer, syncData, logQueue, spent>>

\* Seeded fault: the box is not opened.
PickupVerified_NoDoor(pin) ==
    /\ Waiting("verifyPickupOnline")
    /\ currentState' = "STATE_IDLE"
    /\ task' = Loop
    /\ UNCHANGED <<network, inputBuffer, syncData, logQueue, spent>>

PickupVerified(pin) ==
    /\ Waiting("verifyPickupOnline")
    /\ IF pin # Null THEN OpenBoxByPin(pin, <<>>) ELSE task' = Loop
    /\ UNCHANGED <<network, currentState, inputBuffer, syncData, logQueue, spent>>

SyncDataFailed ==
    /\ Waiting("syncDataFromServer")
    /\ Call(task.next)
    /\ UNCHANGED <<network, currentState, inputBuffer, syncData, logQueue, spent>>

\* Seeded fault: the check for a full array comes one entry late.
Cached_Late(entries) ==
    SubSeq(entries, 1, IF Len(entries) <= MAX_SYNC_ENTRIES
                       THEN Len(entries) ELSE MAX_SYNC_ENTRIES + 1)

\* The entries that fit into the array.
Cached(entries) ==
    SubSeq(entries, 1, IF Len(entries) < MAX_SYNC_ENTRIES
                       THEN Len(entries) ELSE MAX_SYNC_ENTRIES)

\* The entries of the answer; an error object has none, and empties the cache.
SyncDataReceived(entries) ==
    /\ Waiting("syncDataFromServer")
    /\ syncData' = Cached(entries)
    /\ spent' = {}
    /\ Call(task.next)
    /\ UNCHANGED <<network, currentState, inputBuffer, logQueue>>

\* Seeded fault: the loop does not advance.
LogPosted_Same ==
    /\ Waiting("syncLogsToServer")
    /\ IF task.entry < Len(logQueue)
       THEN UNCHANGED <<task, logQueue>>
       ELSE logQueue' = <<>> /\ Call(task.next)
    /\ UNCHANGED <<network, currentState, inputBuffer, syncData, spent>>

\* One entry of the queue has been posted, with or without success; after the
\* last one the queue is emptied.
LogPosted ==
    /\ Waiting("syncLogsToServer")
    /\ IF task.entry < Len(logQueue)
       THEN task' = [task EXCEPT !.entry = @ + 1] /\ UNCHANGED logQueue
       ELSE logQueue' = <<>> /\ Call(task.next)
    /\ UNCHANGED <<network, currentState, inputBuffer, syncData, spent>>

-----------------------------------------------------------------------------
(* WebSocket events, delivered by webSocket.loop() *)

\* Seeded fault: the queue is not sent after a reconnection.
WsConnect_NoLogs ==
    /\ Waiting("nothing")
    /\ wsBegun /\ wifi /\ ~wsConnected
    /\ wsConnected' = TRUE
    /\ Call(<<"syncDataFromServer">>)
    /\ UNCHANGED <<wifi, wsBegun, currentState, inputBuffer, syncData, logQueue,
                   spent>>

WsConnect ==
    /\ Waiting("nothing")
    /\ wsBegun /\ wifi /\ ~wsConnected
    /\ wsConnected' = TRUE
    /\ Call(<<"syncDataFromServer", "syncLogsToServer">>)
    /\ UNCHANGED <<wifi, wsBegun, currentState, inputBuffer, syncData, logQueue,
                   spent>>

WsDisconnect ==
    /\ Waiting("nothing")
    /\ wsConnected
    /\ wsConnected' = FALSE
    /\ UNCHANGED <<wifi, wsBegun, currentState, inputBuffer, syncData, logQueue,
                   task, spent>>

\* A message with a cabinetPin, whatever is being typed.
OpenCabinet(pin) ==
    /\ Waiting("nothing")
    /\ wsConnected
    /\ OpenBoxByPin(pin, <<>>)
    /\ UNCHANGED <<network, currentState, inputBuffer, syncData, logQueue, spent>>

SyncRequest ==
    /\ Waiting("nothing")
    /\ wsConnected
    /\ Call(<<"syncDataFromServer">>)
    /\ UNCHANGED <<network, currentState, inputBuffer, syncData, logQueue, spent>>

-----------------------------------------------------------------------------
(* The environment *)

WifiChange ==
    /\ wifi' = ~wifi
    /\ UNCHANGED <<wsBegun, wsConnected, currentState, inputBuffer, syncData,
                   logQueue, task, spent>>

\* Power is lost and setup() runs: nothing is kept, the WebSocket is only begun
\* when WiFi comes up within ten seconds.
Restart ==
    /\ wifi' \in BOOLEAN
    /\ wsBegun' = wifi'
    /\ wsConnected' = FALSE
    /\ currentState' = "STATE_IDLE"
    /\ inputBuffer' = "empty"
    /\ syncData' = <<>>
    /\ logQueue' = <<>>
    /\ task' = IF wifi' THEN [Loop EXCEPT !.wait = "syncDataFromServer"] ELSE Loop
    /\ spent' = {}

\* What sync-data can answer: the delivered orders, whose codes differ.
Answers == {entries \in SeqOf(SyncEntries, MaxAnswer) :
                \A i, j \in DOMAIN entries :
                    i # j => entries[i].otpCode # entries[j].otpCode}

Key == \/ \E input \in Inputs : ChooseInput(input)
       \/ Digit \/ Erase \/ Leave
       \/ EnterDelivery \/ EnterPickupOnline \/ EnterPickupOffline

Answer == \/ VerifyFailed
          \/ \E pin \in Pins \cup {Null} : DeliveryVerified(pin) \/ PickupVerified(pin)
          \/ SyncDataFailed
          \/ \E entries \in Answers : SyncDataReceived(entries)
          \/ LogPosted

WsEvent == \/ WsConnect \/ WsDisconnect \/ SyncRequest
           \/ \E pin \in Pins : OpenCabinet(pin)

Next == Key \/ Answer \/ BoxClosed \/ WsEvent \/ WifiChange \/ Restart

\* HTTPClient gives up after its timeout and the delays of a door end; nobody
\* has to press a key, and the network may stay away.
Fairness == WF_vars(Answer) /\ WF_vars(BoxClosed)

Spec == Init /\ [][Next]_vars

FairSpec == Spec /\ Fairness

-----------------------------------------------------------------------------
(* Correctness *)

\* Every variable has its type, the two arrays keep to their length, and the
\* entry being sent is one of the queue.
TypeOK ==
    /\ wifi \in BOOLEAN /\ wsBegun \in BOOLEAN /\ wsConnected \in BOOLEAN
    /\ currentState \in States
    /\ inputBuffer \in Codes \cup {"empty", "partial"}
    /\ syncData \in SeqOf(SyncEntries, MAX_SYNC_ENTRIES)
    /\ logQueue \in SeqOf(Pins, MAX_LOG_QUEUE)
    /\ task \in Tasks
    /\ spent \subseteq Codes
    /\ Waiting("syncLogsToServer") => task.entry \in DOMAIN logQueue

\* A code accepted without network is not accepted again before the next
\* answer of the server: it has left the cache.
OfflineOnce == \A i \in DOMAIN syncData : syncData[i].otpCode \notin spent

\* The sketch returns to loop() from everything it does.
ReturnsToLoop == ~Waiting("nothing") ~> Waiting("nothing")

\* While the network stays, a WebSocket that keeps reconnecting drains the queue
\* of offline pickups time and again.
LogsDrained ==
    (<>[]wifi /\ []<>wsConnected /\ []<>~wsConnected) => []<>(logQueue = <<>>)
=============================================================================
