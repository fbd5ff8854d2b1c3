------------------------ MODULE LockerFirmwareProofs ------------------------
(***************************************************************************)
(* Theorems about LockerFirmware, for every set of doors and codes and     *)
(* every size of the cache and the queue.                                  *)
(***************************************************************************)
EXTENDS LockerFirmware, SequenceTheorems, TLAPS

-----------------------------------------------------------------------------
(* Bounded sequences *)

\* A sequence is in SeqOf(S, n) when its elements are in S and it is short enough.
LEMMA SeqOfIntro ==
    ASSUME NEW S, NEW n \in Nat, NEW s \in Seq(S), Len(s) <= n
    PROVE  s \in SeqOf(S, n)
<1>1. s \in [1 .. Len(s) -> S] /\ Len(s) \in 0 .. n
  OBVIOUS
<1>2. QED
  BY <1>1 DEF SeqOf

LEMMA SeqOfElim ==
    ASSUME NEW S, NEW n \in Nat, NEW s \in SeqOf(S, n)
    PROVE  /\ s \in Seq(S)
           /\ Len(s) \in 0 .. n
           /\ DOMAIN s = 1 .. Len(s)
           /\ \A i \in DOMAIN s : s[i] \in S
<1>1. PICK m \in 0 .. n : s \in [1 .. m -> S]
  BY DEF SeqOf
<1>2. s \in Seq(S) /\ Len(s) = m
  BY <1>1
<1>3. QED
  BY <1>1, <1>2

LEMMA EmptySeqOf ==
    ASSUME NEW S, NEW n \in Nat
    PROVE  <<>> \in SeqOf(S, n)
<1>1. <<>> \in Seq(S) /\ Len(<<>>) <= n
  BY EmptySeq
<1>2. QED
  BY <1>1, SeqOfIntro

\* Removing an element leaves the others, in their order.
LEMMA RemoveAtElements ==
    ASSUME NEW S, NEW s \in Seq(S), NEW i \in DOMAIN s
    PROVE  /\ RemoveAt(s, i) \in Seq(S)
           /\ Len(RemoveAt(s, i)) = Len(s) - 1
           /\ \A k \in 1 .. (Len(s) - 1) :
                RemoveAt(s, i)[k] = IF k < i THEN s[k] ELSE s[k + 1]
<1> DEFINE a == SubSeq(s, 1, i - 1)
           b == SubSeq(s, i + 1, Len(s))
<1>1. i \in 1 .. Len(s) /\ Len(s) \in Nat
  OBVIOUS
<1>2. a \in Seq(S) /\ Len(a) = i - 1 /\ \A k \in 1 .. (i - 1) : a[k] = s[k]
  BY <1>1
<1>3. b \in Seq(S) /\ Len(b) = Len(s) - i
      /\ \A k \in 1 .. (Len(s) - i) : b[k] = s[i + k]
  BY <1>1
<1> HIDE DEF a, b
<1>4. a \o b \in Seq(S) /\ Len(a \o b) = Len(s) - 1
  BY <1>1, <1>2, <1>3, ConcatProperties
<1>5. \A k \in 1 .. (Len(s) - 1) :
         (a \o b)[k] = IF k < i THEN s[k] ELSE s[k + 1]
  <2> TAKE k \in 1 .. (Len(s) - 1)
  <2>1. CASE k < i
    BY <1>1, <1>2, <1>3, <2>1
  <2>2. CASE ~(k < i)
    <3>1. k - (i - 1) \in 1 .. (Len(s) - i)
      BY <1>1, <2>2
    <3>2. (a \o b)[k] = b[k - (i - 1)]
      BY <1>1, <1>2, <1>3, <2>2
    <3>3. b[k - (i - 1)] = s[i + (k - (i - 1))]
      BY <1>3, <3>1
    <3>4. i + (k - (i - 1)) = k + 1
      BY <1>1
    <3>5. QED
      BY <2>2, <3>2, <3>3, <3>4
  <2>3. QED
    BY <2>1, <2>2
<1>6. QED
  BY <1>4, <1>5 DEF RemoveAt, a, b

-----------------------------------------------------------------------------
(* The calls a task still has to make *)

\* What task.next can hold.
Plans == {<<>>, <<"syncDataFromServer">>, <<"syncLogsToServer">>}

\* The functions still to call are a plan; none follows syncLogsToServer.
Planned ==
    /\ task.next \in Plans
    /\ Waiting("syncLogsToServer") => task.next = <<>>

\* While a door opens or a code is verified, and at no other time, the state
\* may be STATE_BOX_OPENING.  No part of FirmwareInv: a success answer without a
\* pin breaks it (StepSettled).
Settled ==
    currentState = "STATE_BOX_OPENING" =>
        task.wait \in {"verifyDelivery", "verifyPickupOnline", "door"}

\* Cached codes differ.
Distinct ==
    \A i, j \in DOMAIN syncData :
        i # j => syncData[i].otpCode # syncData[j].otpCode

FirmwareInv == TypeOK /\ Planned /\ Distinct /\ OfflineOnce

\* The task after a call: loop(), or a wait of one of the two functions.
CalledTask ==
    \/ task' = Loop
    \/ \E next \in Plans :
          task' = [Loop EXCEPT !.wait = "syncDataFromServer", !.entry = 1,
                               !.next = next]
    \/ /\ logQueue # <<>>
       /\ task' = [Loop EXCEPT !.wait = "syncLogsToServer", !.entry = 1,
                               !.next = <<>>]

LEMMA CallNothing == Call(<<>>) => task' = Loop
  BY DEF Call

LEMMA CallOne ==
    ASSUME NEW f \in Functions, Call(<<f>>)
    PROVE  CalledTask
<1> DEFINE one == <<f>>
<1>1. DOMAIN one = {1} /\ one[1] = f /\ Len(one) = 1
  OBVIOUS
<1>2. SubSeq(one, 2, 1) = <<>>
  BY SubSeqEmpty
<1>3. Call(one)
  OBVIOUS
<1> HIDE DEF one
<1>4. CASE task' = Loop
  BY <1>4 DEF CalledTask
<1>5. CASE task' # Loop
  <2>1. PICK i \in DOMAIN one :
          /\ Starts(one[i])
          /\ task' = [Loop EXCEPT !.wait = one[i], !.entry = 1,
                                  !.next = SubSeq(one, i + 1, Len(one))]
    BY <1>3, <1>5 DEF Call
  <2>2. i = 1 /\ one[i] = f /\ i + 1 = 2
    BY <1>1
  <2>3. SubSeq(one, i + 1, Len(one)) = <<>>
    BY <1>1, <1>2, <2>2
  <2>4. Starts(f) /\ task' = [Loop EXCEPT !.wait = f, !.entry = 1, !.next = <<>>]
    BY <2>1, <2>2, <2>3
  <2>5. QED
    BY <2>4 DEF CalledTask, Starts, Functions, Plans
<1>6. QED
  BY <1>4, <1>5

LEMMA CallPlan ==
    ASSUME NEW functions \in Plans, Call(functions)
    PROVE  CalledTask
  BY CallNothing, CallOne DEF Plans, CalledTask, Functions

\* The two calls of a new WebSocket connection.
LEMMA CallBoth ==
    ASSUME Call(<<"syncDataFromServer", "syncLogsToServer">>)
    PROVE  CalledTask
<1> DEFINE both == <<"syncDataFromServer", "syncLogsToServer">>
<1>1. /\ DOMAIN both = {1, 2} /\ Len(both) = 2
      /\ both[1] = "syncDataFromServer" /\ both[2] = "syncLogsToServer"
  OBVIOUS
<1>2. SubSeq(both, 3, 2) = <<>>
  BY SubSeqEmpty
<1>3. SubSeq(both, 2, 2) = <<"syncLogsToServer">>
  <2>1. /\ SubSeq(both, 2, 2) \in Seq(Functions)
        /\ Len(SubSeq(both, 2, 2)) = 1
        /\ SubSeq(both, 2, 2)[1] = "syncLogsToServer"
    <3>1. \A i \in 2 .. 2 : both[i] \in Functions
      BY DEF Functions
    <3> HIDE DEF both
    <3>2. /\ SubSeq(both, 2, 2) \in Seq(Functions)
          /\ Len(SubSeq(both, 2, 2)) = 1
          /\ \A i \in 1 .. 1 : SubSeq(both, 2, 2)[i] = both[i + 1]
      BY <3>1, SubSeqProperties
    <3>3. QED
      BY <1>1, <3>2
  <2>2. <<"syncLogsToServer">> \in Seq(Functions)
        /\ Len(<<"syncLogsToServer">>) = 1
        /\ <<"syncLogsToServer">>[1] = "syncLogsToServer"
    BY DEF Functions
  <2> DEFINE rest == SubSeq(both, 2, 2)
             logs == <<"syncLogsToServer">>
  <2>3. /\ rest \in Seq(Functions) /\ logs \in Seq(Functions)
        /\ Len(rest) = Len(logs)
        /\ \A i \in 1 .. Len(rest) : rest[i] = logs[i]
    <3> HIDE DEF rest, logs
    <3>1. rest \in Seq(Functions) /\ Len(rest) = 1 /\ rest[1] = "syncLogsToServer"
      BY <2>1 DEF rest
    <3>2. logs \in Seq(Functions) /\ Len(logs) = 1 /\ logs[1] = "syncLogsToServer"
      BY <2>2 DEF logs
    <3>3. QED
      BY <3>1, <3>2
  <2> HIDE DEF rest, logs
  <2>4. rest = logs
    BY <2>3, SeqEqual
  <2>5. QED
    BY <2>4 DEF rest, logs
<1>4. Call(both)
  OBVIOUS
<1> HIDE DEF both
<1>5. CASE task' = Loop
  BY <1>5 DEF CalledTask
<1>6. CASE task' # Loop
  <2>1. PICK i \in DOMAIN both :
          /\ Starts(both[i])
          /\ task' = [Loop EXCEPT !.wait = both[i], !.entry = 1,
                                  !.next = SubSeq(both, i + 1, Len(both))]
    BY <1>4, <1>6 DEF Call
  <2>2. CASE i = 1
    <3>1. both[i] = "syncDataFromServer" /\ i + 1 = 2
      BY <1>1, <2>2
    <3>2. SubSeq(both, i + 1, Len(both)) = <<"syncLogsToServer">>
      BY <1>1, <1>3, <3>1
    <3>3. task' = [Loop EXCEPT !.wait = "syncDataFromServer", !.entry = 1,
                               !.next = <<"syncLogsToServer">>]
      BY <2>1, <3>1, <3>2
    <3>4. QED
      BY <3>3 DEF CalledTask, Plans
  <2>3. CASE i = 2
    <3>1. both[i] = "syncLogsToServer" /\ i + 1 = 3
      BY <1>1, <2>3
    <3>2. SubSeq(both, i + 1, Len(both)) = <<>>
      BY <1>1, <1>2, <3>1
    <3>3. /\ Starts("syncLogsToServer")
          /\ task' = [Loop EXCEPT !.wait = "syncLogsToServer", !.entry = 1,
                                  !.next = <<>>]
      BY <2>1, <3>1, <3>2
    <3>4. QED
      BY <3>3 DEF CalledTask, Starts
  <2>4. QED
    BY <1>1, <2>2, <2>3
<1>7. QED
  BY <1>5, <1>6

-----------------------------------------------------------------------------
(* The invariant *)

\* FirmwareInv in two parts: what concerns the task ...
TaskOK ==
    /\ task \in Tasks
    /\ Waiting("syncLogsToServer") => task.entry \in DOMAIN logQueue
    /\ Planned

\* ... and what does not.
DataOK ==
    /\ wifi \in BOOLEAN /\ wsBegun \in BOOLEAN /\ wsConnected \in BOOLEAN
    /\ currentState \in States
    /\ inputBuffer \in Codes \cup {"empty", "partial"}
    /\ syncData \in SeqOf(SyncEntries, MAX_SYNC_ENTRIES)
    /\ logQueue \in SeqOf(Pins, MAX_LOG_QUEUE)
    /\ spent \subseteq Codes
    /\ Distinct
    /\ OfflineOnce

LEMMA Parts == FirmwareInv <=> TaskOK /\ DataOK
  BY DEF FirmwareInv, TypeOK, TaskOK, DataOK

LEMMA PartsPrimed ==
    ASSUME TaskOK', DataOK'
    PROVE  FirmwareInv'
  BY DEF FirmwareInv, TypeOK, TaskOK, DataOK

LEMMA PlansType ==
    /\ Plans \subseteq SeqOf(Functions, 2)
    /\ <<>> \in Plans /\ <<"syncDataFromServer">> \in Plans
    /\ <<"syncLogsToServer">> \in Plans
<1>1. <<>> \in SeqOf(Functions, 2)
  BY EmptySeqOf
<1>2. ASSUME NEW f \in Functions PROVE <<f>> \in SeqOf(Functions, 2)
  <2>1. <<f>> \in Seq(Functions) /\ Len(<<f>>) <= 2
    OBVIOUS
  <2>2. QED
    BY <2>1, SeqOfIntro
<1>3. QED
  BY <1>1, <1>2 DEF Plans, Functions

\* A task made of these parts is one, whatever it waits for.
LEMMA TaskType ==
    ASSUME NEW wait \in Waits, NEW code \in Codes \cup {"empty", "partial", Null},
           NEW pin \in Pins \cup {Null}, NEW entry \in {0, 1}, NEW next \in Plans
    PROVE  [wait |-> wait, code |-> code, pin |-> pin, entry |-> entry,
            next |-> next] \in Tasks
<1>1. entry \in 0 .. MAX_LOG_QUEUE
  BY FirmwareAssumption
<1>2. next \in SeqOf(Functions, 2)
  BY PlansType
<1>3. QED
  BY <1>1, <1>2 DEF Tasks

LEMMA LoopType ==
    /\ Loop \in Tasks
    /\ Loop.wait = "nothing" /\ Loop.next = <<>>
  BY TaskType, PlansType DEF Loop, Waits

\* After a call the sketch is in loop() or in one of the two functions.
LEMMA CalledType ==
    ASSUME DataOK, CalledTask, logQueue' = logQueue
    PROVE  TaskOK'
<1>1. CASE task' = Loop
  BY <1>1, LoopType, PlansType DEF TaskOK, Planned, Waiting
<1>2. ASSUME NEW next \in Plans,
             task' = [Loop EXCEPT !.wait = "syncDataFromServer", !.entry = 1,
                                  !.next = next]
      PROVE  TaskOK'
  <2>0. task' = [wait |-> "syncDataFromServer", code |-> Null, pin |-> Null,
                 entry |-> 1, next |-> next]
    BY <1>2 DEF Loop
  <2>1. task' \in Tasks
    BY <2>0, TaskType DEF Waits, Functions
  <2>2. task'.wait = "syncDataFromServer" /\ task'.next = next
    BY <2>0
  <2>3. QED
    BY <2>1, <2>2 DEF TaskOK, Planned, Waiting
<1>3. ASSUME logQueue # <<>>,
             task' = [Loop EXCEPT !.wait = "syncLogsToServer", !.entry = 1,
                                  !.next = <<>>]
      PROVE  TaskOK'
  <2>0. task' = [wait |-> "syncLogsToServer", code |-> Null, pin |-> Null,
                 entry |-> 1, next |-> <<>>]
    BY <1>3 DEF Loop
  <2>1. task' \in Tasks
    BY <2>0, TaskType, PlansType DEF Waits, Functions
  <2>2. task'.wait = "syncLogsToServer" /\ task'.next = <<>> /\ task'.entry = 1
    BY <2>0
  <2>3. 1 \in DOMAIN logQueue
    <3>1. /\ logQueue \in Seq(Pins) /\ Len(logQueue) \in Nat \ {0}
          /\ DOMAIN logQueue = 1 .. Len(logQueue)
      <4>1. logQueue \in Seq(Pins) /\ DOMAIN logQueue = 1 .. Len(logQueue)
        BY SeqOfElim, FirmwareAssumption DEF DataOK
      <4>2. QED
        BY <1>3, <4>1, EmptySeq
    <3>2. QED
      BY <3>1
  <2>4. QED
    BY <1>3, <2>1, <2>2, <2>3, PlansType DEF TaskOK, Planned, Waiting
<1>4. QED
  BY <1>1, <1>2, <1>3 DEF CalledTask

\* A door opens.
LEMMA OpenedType ==
    ASSUME NEW pin \in Pins, NEW functions \in Plans, OpenBoxByPin(pin, functions)
    PROVE  TaskOK'
<1>1. task' = [wait |-> "door", code |-> Null, pin |-> pin, entry |-> 0,
               next |-> functions]
  BY DEF OpenBoxByPin, Loop
<1>2. task' \in Tasks
  BY <1>1, TaskType DEF Waits
<1>3. QED
  BY <1>1, <1>2 DEF TaskOK, Planned, Waiting

\* Nothing of the task and the queue changes.
LEMMA SameTask ==
    ASSUME TaskOK, UNCHANGED <<task, logQueue>>
    PROVE  TaskOK'
  BY DEF TaskOK, Planned, Waiting

LEMMA Idling ==
    ASSUME task' = Loop
    PROVE  TaskOK'
  BY LoopType, PlansType DEF TaskOK, Planned, Waiting

\* Cache, queue and history stay as they are.
LEMMA SameData ==
    ASSUME DataOK, network' = network, syncData' = syncData,
           logQueue' = logQueue, spent' = spent, currentState' \in States,
           inputBuffer' \in Codes \cup {"empty", "partial"}
    PROVE  DataOK'
  BY DEF DataOK, Distinct, OfflineOnce, network

-----------------------------------------------------------------------------
(* The cache of codes *)

\* Part of an array of cached entries is one.
LEMMA CachedType ==
    ASSUME NEW entries \in Answers
    PROVE  /\ Cached(entries) \in SeqOf(SyncEntries, MAX_SYNC_ENTRIES)
           /\ \A i, j \in DOMAIN Cached(entries) :
                i # j => Cached(entries)[i].otpCode # Cached(entries)[j].otpCode
<1> DEFINE n == IF Len(entries) < MAX_SYNC_ENTRIES THEN Len(entries)
                                                   ELSE MAX_SYNC_ENTRIES
           c == SubSeq(entries, 1, n)
<1>1. /\ entries \in Seq(SyncEntries) /\ Len(entries) \in Nat
      /\ DOMAIN entries = 1 .. Len(entries)
      /\ \A i \in DOMAIN entries : entries[i] \in SyncEntries
      /\ \A i, j \in DOMAIN entries :
            i # j => entries[i].otpCode # entries[j].otpCode
  BY SeqOfElim, FirmwareAssumption DEF Answers
<1>2. n \in Nat /\ n <= Len(entries) /\ n <= MAX_SYNC_ENTRIES
      /\ MAX_SYNC_ENTRIES \in Nat
  BY <1>1, FirmwareAssumption
<1> HIDE DEF n
<1>3. \A i \in 1 .. n : entries[i] \in SyncEntries
  BY <1>1, <1>2
<1>4. c \in Seq(SyncEntries) /\ Len(c) = n
      /\ \A i \in 1 .. n : c[i] = entries[i]
  BY <1>2, <1>3, SubSeqProperties
<1> HIDE DEF c
<1>5. c \in SeqOf(SyncEntries, MAX_SYNC_ENTRIES) /\ DOMAIN c = 1 .. n
  BY <1>2, <1>4, SeqOfIntro, LenProperties
<1>6. \A i, j \in DOMAIN c : i # j => c[i].otpCode # c[j].otpCode
  BY <1>1, <1>2, <1>4, <1>5
<1>7. Cached(entries) = c
  BY DEF Cached, c, n
<1>8. QED
  BY <1>5, <1>6, <1>7

\* After the entry with the typed code has been removed, the cache holds neither
\* this code nor one used before.
LEMMA RemovedType ==
    ASSUME DataOK, NEW i \in DOMAIN syncData, syncData' = RemoveEntry(i),
           spent' = spent \cup {syncData[i].otpCode}
    PROVE  /\ syncData' \in SeqOf(SyncEntries, MAX_SYNC_ENTRIES)
           /\ Distinct'
           /\ OfflineOnce'
<1>1. /\ syncData \in Seq(SyncEntries) /\ Len(syncData) \in 0 .. MAX_SYNC_ENTRIES
      /\ DOMAIN syncData = 1 .. Len(syncData)
      /\ MAX_SYNC_ENTRIES \in Nat
  BY SeqOfElim, FirmwareAssumption DEF DataOK
<1>2. /\ syncData' \in Seq(SyncEntries)
      /\ Len(syncData') = Len(syncData) - 1
      /\ \A k \in 1 .. (Len(syncData) - 1) :
            syncData'[k] = IF k < i THEN syncData[k] ELSE syncData[k + 1]
  BY <1>1, RemoveAtElements DEF RemoveEntry
<1>3. DOMAIN syncData' = 1 .. (Len(syncData) - 1)
  BY <1>2, LenProperties
<1>4. syncData' \in SeqOf(SyncEntries, MAX_SYNC_ENTRIES)
  BY <1>1, <1>2, SeqOfIntro
\* Where the k-th entry was before.
<1> DEFINE was(k) == IF k < i THEN k ELSE k + 1
<1>5. \A k \in DOMAIN syncData' :
         /\ was(k) \in DOMAIN syncData
         /\ was(k) # i
         /\ syncData'[k] = syncData[was(k)]
  BY <1>1, <1>2, <1>3
<1>6. \A k, l \in DOMAIN syncData' : k # l => was(k) # was(l)
  BY <1>1, <1>3
<1> HIDE DEF was
<1>7. Distinct'
  BY <1>5, <1>6 DEF DataOK, Distinct
<1>8. OfflineOnce'
  BY <1>5 DEF DataOK, Distinct, OfflineOnce
<1>9. QED
  BY <1>4, <1>7, <1>8

-----------------------------------------------------------------------------
(* One lemma per kind of step *)

LEMMA InitInv == Init => FirmwareInv
<1> SUFFICES ASSUME Init PROVE FirmwareInv
  OBVIOUS
<1>1. syncData \in SeqOf(SyncEntries, MAX_SYNC_ENTRIES)
      /\ logQueue \in SeqOf(Pins, MAX_LOG_QUEUE)
  BY EmptySeqOf, FirmwareAssumption DEF Init
<1>2. Distinct /\ OfflineOnce
  BY DEF Init, Distinct, OfflineOnce
<1>3. DataOK
  BY <1>1, <1>2 DEF Init, DataOK, States
<1>4. TaskOK
  <2>1. CASE task = Loop
    BY <2>1, LoopType, PlansType DEF TaskOK, Planned, Waiting, Init
  <2>2. CASE task = [Loop EXCEPT !.wait = "syncDataFromServer"]
    <3>1. task = [wait |-> "syncDataFromServer", code |-> Null, pin |-> Null,
                  entry |-> 0, next |-> <<>>]
      BY <2>2 DEF Loop
    <3>2. task \in Tasks
      BY <3>1, TaskType, PlansType DEF Waits, Functions
    <3>3. QED
      BY <3>1, <3>2, PlansType DEF TaskOK, Planned, Waiting, Init
  <2>3. QED
    BY <2>1, <2>2 DEF Init
<1>5. QED
  BY <1>3, <1>4, Parts

\* Keys.
LEMMA KeyInv ==
    ASSUME FirmwareInv, Key
    PROVE  FirmwareInv'
<1>1. DataOK /\ TaskOK
  BY Parts
<1>2. ASSUME NEW input \in Inputs, ChooseInput(input) PROVE FirmwareInv'
  <2>1. DataOK'
    BY <1>1, <1>2, SameData
       DEF ChooseInput, DataOK, Inputs, States
  <2>2. TaskOK'
    BY <1>1, <1>2, SameTask DEF ChooseInput, Inputs
  <2>3. QED
    BY <2>1, <2>2, PartsPrimed
<1>3. CASE Digit
  <2>1. DataOK'
    BY <1>1, <1>3, SameData DEF Digit, DataOK
  <2>2. TaskOK'
    BY <1>1, <1>3, SameTask DEF Digit
  <2>3. QED
    BY <2>1, <2>2, PartsPrimed
<1>4. CASE Erase \/ Leave
  <2>1. DataOK'
    BY <1>1, <1>4, SameData DEF Erase, Leave, DataOK, States
  <2>2. TaskOK'
    BY <1>1, <1>4, SameTask DEF Erase, Leave
  <2>3. QED
    BY <2>1, <2>2, PartsPrimed
<1>5. ASSUME NEW wait \in {"verifyDelivery", "verifyPickupOnline"},
             task' = [Loop EXCEPT !.wait = wait, !.code = inputBuffer]
      PROVE  TaskOK'
  <2>1. task' = [wait |-> wait, code |-> inputBuffer, pin |-> Null,
                 entry |-> 0, next |-> <<>>]
    BY <1>5 DEF Loop
  <2>2. task' \in Tasks
    BY <1>1, <2>1, TaskType, PlansType DEF Waits, DataOK
  <2>3. QED
    BY <2>1, <2>2, PlansType DEF TaskOK, Planned, Waiting
<1>6. CASE EnterDelivery
  <2>1. DataOK'
    BY <1>1, <1>6, SameData DEF EnterDelivery, DataOK, States
  <2>2. TaskOK'
    BY <1>1, <1>5, <1>6, SameTask DEF EnterDelivery
  <2>3. QED
    BY <2>1, <2>2, PartsPrimed
<1>7. CASE EnterPickupOnline
  <2>1. DataOK'
    BY <1>1, <1>7, SameData DEF EnterPickupOnline, DataOK, States
  <2>2. TaskOK'
    BY <1>5, <1>7 DEF EnterPickupOnline
  <2>3. QED
    BY <2>1, <2>2, PartsPrimed
<1>8. CASE EnterPickupOffline
  <2> DEFINE matches == {i \in DOMAIN syncData : syncData[i].otpCode = inputBuffer}
  <2>1. CASE UNCHANGED <<syncData, logQueue, task, spent>>
             /\ currentState' = "STATE_IDLE"
    <3>1. DataOK'
      BY <1>1, <1>8, <2>1, SameData
         DEF EnterPickupOffline, DataOK, States
    <3>2. TaskOK'
      BY <1>1, <2>1, SameTask
    <3>3. QED
      BY <3>1, <3>2, PartsPrimed
  <2>2. ASSUME NEW i \in matches,
               currentState' = "STATE_BOX_OPENING",
               syncData' = RemoveEntry(i),
               logQueue' = IF Len(logQueue) < MAX_LOG_QUEUE
                           THEN Append(logQueue, syncData[i].cabinetPin)
                           ELSE logQueue,
               OpenBoxByPin(syncData[i].cabinetPin, <<"syncLogsToServer">>),
               spent' = spent \cup {inputBuffer}
        PROVE  FirmwareInv'
    <3>1. syncData[i] \in SyncEntries /\ syncData[i].otpCode = inputBuffer
      BY <1>1, SeqOfElim, FirmwareAssumption DEF DataOK
    <3>2. syncData[i].cabinetPin \in Pins /\ inputBuffer \in Codes
      BY <3>1 DEF SyncEntries
    <3>3. TaskOK'
      BY <2>2, <3>2, OpenedType, PlansType
    <3>4. /\ syncData' \in SeqOf(SyncEntries, MAX_SYNC_ENTRIES)
          /\ Distinct' /\ OfflineOnce'
      BY <1>1, <2>2, <3>1, RemovedType
    <3>5. logQueue' \in SeqOf(Pins, MAX_LOG_QUEUE)
      <4>1. logQueue \in Seq(Pins) /\ logQueue \in SeqOf(Pins, MAX_LOG_QUEUE)
            /\ Len(logQueue) \in Nat /\ MAX_LOG_QUEUE \in Nat
        BY <1>1, SeqOfElim, FirmwareAssumption DEF DataOK
      <4>2. CASE Len(logQueue) < MAX_LOG_QUEUE
        <5>1. /\ logQueue' \in Seq(Pins)
              /\ Len(logQueue') = Len(logQueue) + 1
          BY <2>2, <3>2, <4>1, <4>2, AppendProperties
        <5>2. QED
          BY <4>1, <4>2, <5>1, SeqOfIntro
      <4>3. QED
        BY <2>2, <4>1, <4>2
    <3>6. DataOK'
      BY <1>1, <1>8, <2>2, <3>2, <3>4, <3>5
         DEF EnterPickupOffline, network, DataOK, States
    <3>7. QED
      BY <3>3, <3>6, PartsPrimed
  <2>3. QED
    BY <1>8, <2>1, <2>2 DEF EnterPickupOffline
<1>9. QED
  BY <1>2, <1>3, <1>4, <1>6, <1>7, <1>8 DEF Key

\* Answers.
LEMMA AnswerInv ==
    ASSUME FirmwareInv, Answer
    PROVE  FirmwareInv'
<1>1. DataOK /\ TaskOK /\ currentState \in States
  BY Parts DEF DataOK
<1>2. CASE VerifyFailed
  <2>1. DataOK'
    BY <1>1, <1>2, SameData DEF VerifyFailed, DataOK, States
  <2>2. TaskOK'
    BY <1>2, Idling DEF VerifyFailed
  <2>3. QED
    BY <2>1, <2>2, PartsPrimed
<1>3. ASSUME NEW pin \in Pins \cup {Null},
             DeliveryVerified(pin) \/ PickupVerified(pin)
      PROVE  FirmwareInv'
  <2>1. DataOK'
    BY <1>1, <1>3, SameData DEF DeliveryVerified, PickupVerified, DataOK
  <2>2. CASE pin # Null
    <3>1. TaskOK'
      BY <1>3, <2>2, OpenedType, PlansType DEF DeliveryVerified, PickupVerified
    <3>2. QED
      BY <2>1, <3>1, PartsPrimed
  <2>3. CASE pin = Null
    <3>1. CalledTask /\ logQueue' = logQueue
      BY <1>3, <2>3, CallPlan, PlansType
         DEF DeliveryVerified, PickupVerified, CalledTask
    <3>2. TaskOK'
      BY <1>1, <3>1, CalledType
    <3>3. QED
      BY <2>1, <3>2, PartsPrimed
  <2>4. QED
    BY <2>2, <2>3
<1>4. CASE SyncDataFailed
  <2>1. DataOK'
    BY <1>1, <1>4, SameData DEF SyncDataFailed, DataOK
  <2>2. TaskOK'
    <3>1. CalledTask
      BY <1>1, <1>4, CallPlan DEF SyncDataFailed, TaskOK, Planned
    <3>2. QED
      BY <1>1, <1>4, <3>1, CalledType DEF SyncDataFailed
  <2>3. QED
    BY <2>1, <2>2, PartsPrimed
<1>5. ASSUME NEW entries \in Answers, SyncDataReceived(entries)
      PROVE  FirmwareInv'
  <2>1. /\ syncData' \in SeqOf(SyncEntries, MAX_SYNC_ENTRIES)
        /\ Distinct' /\ OfflineOnce'
    BY <1>5, CachedType DEF SyncDataReceived, Distinct, OfflineOnce
  <2>2. DataOK'
    BY <1>1, <1>5, <2>1 DEF SyncDataReceived, DataOK, network
  <2>3. TaskOK'
    <3>1. CalledTask
      BY <1>1, <1>5, CallPlan DEF SyncDataReceived, TaskOK, Planned
    <3>2. QED
      BY <1>1, <1>5, <3>1, CalledType DEF SyncDataReceived
  <2>4. QED
    BY <2>2, <2>3, PartsPrimed
<1>6. CASE LogPosted
  <2>1. CASE task.entry < Len(logQueue)
    <3>1. task' = [task EXCEPT !.entry = @ + 1] /\ logQueue' = logQueue
      BY <1>6, <2>1 DEF LogPosted
    <3>2. /\ Len(logQueue) \in 0 .. MAX_LOG_QUEUE
          /\ DOMAIN logQueue = 1 .. Len(logQueue)
          /\ MAX_LOG_QUEUE \in Nat
      BY <1>1, SeqOfElim, FirmwareAssumption DEF DataOK
    <3>3. task.entry \in DOMAIN logQueue /\ task \in Tasks
      BY <1>1, <1>6 DEF LogPosted, TaskOK
    <3>4. task.entry + 1 \in DOMAIN logQueue /\ task.entry + 1 \in 0 .. MAX_LOG_QUEUE
      BY <2>1, <3>2, <3>3
    <3>5. /\ task' \in Tasks /\ task'.entry = task.entry + 1
          /\ task'.wait = task.wait /\ task'.next = task.next
      BY <3>1, <3>3, <3>4 DEF Tasks
    <3>6. TaskOK'
      BY <1>1, <3>1, <3>4, <3>5 DEF TaskOK, Planned, Waiting
    <3>7. DataOK'
      BY <1>1, <1>6, <3>1, SameData DEF LogPosted, DataOK
    <3>8. QED
      BY <3>6, <3>7, PartsPrimed
  <2>2. CASE ~(task.entry < Len(logQueue))
    <3>1. logQueue' = <<>> /\ Call(task.next)
      BY <1>6, <2>2 DEF LogPosted
    <3>2. task' = Loop
      BY <1>1, <1>6, <3>1, CallNothing DEF LogPosted, TaskOK, Planned
    <3>3. TaskOK'
      BY <3>2, Idling
    <3>4. <<>> \in SeqOf(Pins, MAX_LOG_QUEUE)
      BY EmptySeqOf, FirmwareAssumption
    <3>5. DataOK'
      BY <1>1, <1>6, <3>1, <3>4
         DEF LogPosted, DataOK, network, Distinct, OfflineOnce
    <3>6. QED
      BY <3>3, <3>5, PartsPrimed
  <2>3. QED
    BY <2>1, <2>2
<1>7. QED
  BY <1>2, <1>3, <1>4, <1>5, <1>6 DEF Answer

LEMMA BoxClosedInv ==
    ASSUME FirmwareInv, BoxClosed
    PROVE  FirmwareInv'
<1>1. DataOK /\ TaskOK
  BY Parts
<1>2. DataOK'
  BY <1>1, SameData DEF BoxClosed, DataOK, States
<1>3. CalledTask
  BY <1>1, CallPlan DEF BoxClosed, TaskOK, Planned
<1>4. TaskOK'
  BY <1>1, <1>3, CalledType DEF BoxClosed
<1>5. QED
  BY <1>2, <1>4, PartsPrimed

\* WebSocket events.
LEMMA WsEventInv ==
    ASSUME FirmwareInv, WsEvent
    PROVE  FirmwareInv'
<1>1. DataOK /\ TaskOK /\ currentState \in States
  BY Parts DEF DataOK
<1>2. CASE WsConnect
  <2>1. DataOK'
    BY <1>1, <1>2 DEF WsConnect, DataOK, Distinct, OfflineOnce
  <2>2. TaskOK'
    BY <1>1, <1>2, CallBoth, CalledType DEF WsConnect
  <2>3. QED
    BY <2>1, <2>2, PartsPrimed
<1>3. CASE WsDisconnect
  <2>1. DataOK'
    BY <1>1, <1>3 DEF WsDisconnect, DataOK, Distinct, OfflineOnce
  <2>2. TaskOK'
    BY <1>1, <1>3, SameTask DEF WsDisconnect
  <2>3. QED
    BY <2>1, <2>2, PartsPrimed
<1>4. CASE SyncRequest
  <2>1. DataOK'
    BY <1>1, <1>4, SameData DEF SyncRequest, DataOK
  <2>2. CalledTask
    BY <1>4, CallPlan, PlansType DEF SyncRequest
  <2>3. TaskOK'
    BY <1>1, <1>4, <2>2, CalledType DEF SyncRequest
  <2>4. QED
    BY <2>1, <2>3, PartsPrimed
<1>5. ASSUME NEW pin \in Pins, OpenCabinet(pin) PROVE FirmwareInv'
  <2>1. DataOK'
    BY <1>1, <1>5, SameData DEF OpenCabinet, DataOK
  <2>2. TaskOK'
    BY <1>5, OpenedType, PlansType DEF OpenCabinet
  <2>3. QED
    BY <2>1, <2>2, PartsPrimed
<1>6. QED
  BY <1>2, <1>3, <1>4, <1>5 DEF WsEvent

LEMMA WifiChangeInv ==
    ASSUME FirmwareInv, WifiChange
    PROVE  FirmwareInv'
<1>1. DataOK /\ TaskOK
  BY Parts
<1>2. wifi' \in BOOLEAN
  BY DEF WifiChange
<1>3. DataOK'
  BY <1>1, <1>2 DEF WifiChange, DataOK, Distinct, OfflineOnce
<1>4. TaskOK'
  BY <1>1, SameTask DEF WifiChange
<1>5. QED
  BY <1>3, <1>4, PartsPrimed

LEMMA RestartInv ==
    ASSUME Restart
    PROVE  FirmwareInv'
<1>1. syncData' \in SeqOf(SyncEntries, MAX_SYNC_ENTRIES)
      /\ logQueue' \in SeqOf(Pins, MAX_LOG_QUEUE)
  BY EmptySeqOf, FirmwareAssumption DEF Restart
<1>2. Distinct' /\ OfflineOnce'
  BY DEF Restart, Distinct, OfflineOnce
<1>3. DataOK'
  BY <1>1, <1>2 DEF Restart, DataOK, States
<1>4. TaskOK'
  <2>1. CASE task' = Loop
    BY <2>1, Idling DEF Restart
  <2>2. CASE task' = [Loop EXCEPT !.wait = "syncDataFromServer"]
    <3>1. task' = [wait |-> "syncDataFromServer", code |-> Null, pin |-> Null,
                   entry |-> 0, next |-> <<>>]
      BY <2>2 DEF Loop
    <3>2. task' \in Tasks
      BY <3>1, TaskType, PlansType DEF Waits, Functions
    <3>3. QED
      BY <3>1, <3>2, PlansType DEF TaskOK, Planned, Waiting, Restart
  <2>3. QED
    BY <2>1, <2>2 DEF Restart
<1>5. QED
  BY <1>3, <1>4, PartsPrimed

\* FirmwareInv is inductive.
LEMMA StepInv == FirmwareInv /\ [Next]_vars => FirmwareInv'
<1> SUFFICES ASSUME FirmwareInv, [Next]_vars PROVE FirmwareInv'
  OBVIOUS
<1>1. CASE Key
  BY <1>1, KeyInv
<1>2. CASE Answer
  BY <1>2, AnswerInv
<1>3. CASE BoxClosed
  BY <1>3, BoxClosedInv
<1>4. CASE WsEvent
  BY <1>4, WsEventInv
<1>5. CASE WifiChange
  BY <1>5, WifiChangeInv
<1>6. CASE Restart
  BY <1>6, RestartInv
<1>7. CASE UNCHANGED vars
  <2>1. DataOK /\ TaskOK
    BY Parts
  <2>2. DataOK'
    BY <1>7, <2>1, SameData DEF vars, DataOK
  <2>3. TaskOK'
    BY <1>7, <2>1, SameTask DEF vars
  <2>4. QED
    BY <2>2, <2>3, PartsPrimed
<1>8. QED
  BY <1>1, <1>2, <1>3, <1>4, <1>5, <1>6, <1>7 DEF Next

LEMMA InvAlways == Spec => []FirmwareInv
  BY InitInv, StepInv, PTL DEF Spec

-----------------------------------------------------------------------------
(* What a step does, for the modules that build on this one *)

\* The sketch is in loop() again or in one of the two functions.
Resumes == task'.wait \in Functions \cup {"nothing"}

LEMMA CalledResumes == CalledTask => Resumes
<1>1. CASE task' = Loop
  BY <1>1 DEF Resumes, Loop
<1>2. ASSUME NEW next \in Plans,
             task' = [Loop EXCEPT !.wait = "syncDataFromServer", !.entry = 1,
                                  !.next = next]
      PROVE  Resumes
  BY <1>2 DEF Resumes, Functions, Loop
<1>3. ASSUME task' = [Loop EXCEPT !.wait = "syncLogsToServer", !.entry = 1,
                                  !.next = <<>>]
      PROVE  Resumes
  BY <1>3 DEF Resumes, Functions, Loop
<1>4. QED
  BY <1>1, <1>2, <1>3 DEF CalledTask

\* No step but the opening of a door ends with a door open.
LEMMA StepResumes ==
    ASSUME FirmwareInv,
           \/ BoxClosed \/ VerifyFailed \/ SyncDataFailed \/ LogPosted
           \/ WsConnect \/ SyncRequest
           \/ \E entries \in Answers : SyncDataReceived(entries)
    PROVE  Resumes
<1>1. task.next \in Plans
  BY DEF FirmwareInv, Planned
<1>2. CASE BoxClosed \/ SyncDataFailed
           \/ \E entries \in Answers : SyncDataReceived(entries)
  BY <1>1, <1>2, CallPlan, CalledResumes
     DEF BoxClosed, SyncDataFailed, SyncDataReceived
<1>3. CASE VerifyFailed
  BY <1>3 DEF VerifyFailed, Resumes, Loop
<1>4. CASE LogPosted
  <2>1. CASE task' = [task EXCEPT !.entry = @ + 1]
    <3>1. task \in Tasks
      BY DEF FirmwareInv, TypeOK
    <3>2. task'.wait = task.wait
      BY <2>1, <3>1 DEF Tasks
    <3>3. QED
      BY <1>4, <3>2 DEF LogPosted, Waiting, Resumes, Functions
  <2>2. CASE Call(task.next)
    BY <1>1, <2>2, CallPlan, CalledResumes
  <2>3. QED
    BY <1>4, <2>1, <2>2 DEF LogPosted
<1>5. CASE WsConnect
  BY <1>5, CallBoth, CalledResumes DEF WsConnect
<1>6. CASE SyncRequest
  BY <1>6, CallPlan, PlansType, CalledResumes DEF SyncRequest
<1>7. QED
  BY <1>2, <1>3, <1>4, <1>5, <1>6

\* The cache is part of what the server answered.
LEMMA CachedElements ==
    ASSUME NEW entries \in Answers
    PROVE  \A k \in DOMAIN Cached(entries) :
              k \in DOMAIN entries /\ Cached(entries)[k] = entries[k]
<1> DEFINE n == IF Len(entries) < MAX_SYNC_ENTRIES THEN Len(entries)
                                                   ELSE MAX_SYNC_ENTRIES
           c == SubSeq(entries, 1, n)
<1>1. /\ entries \in Seq(SyncEntries) /\ Len(entries) \in Nat
      /\ DOMAIN entries = 1 .. Len(entries)
      /\ \A i \in DOMAIN entries : entries[i] \in SyncEntries
  BY SeqOfElim, FirmwareAssumption DEF Answers
<1>2. n \in Nat /\ n <= Len(entries)
  BY <1>1, FirmwareAssumption
<1> HIDE DEF n
<1>3. \A i \in 1 .. n : entries[i] \in SyncEntries
  BY <1>1, <1>2
<1>4. c \in Seq(SyncEntries) /\ Len(c) = n
      /\ \A i \in 1 .. n : c[i] = entries[i]
  BY <1>2, <1>3, SubSeqProperties
<1> HIDE DEF c
<1>5. DOMAIN c = 1 .. n
  BY <1>4, LenProperties
<1>6. \A k \in DOMAIN c : k \in DOMAIN entries /\ c[k] = entries[k]
  BY <1>1, <1>2, <1>4, <1>5
<1>7. Cached(entries) = c
  BY DEF Cached, c, n
<1>8. QED
  BY <1>6, <1>7

\* A key leaves the cache alone, or finds the typed code in it: then the door of
\* this entry opens, and no entry is new.
KeyEffect ==
    \/ task'.wait \in {"nothing", "verifyDelivery", "verifyPickupOnline"}
       /\ syncData' = syncData
    \/ \E i \in DOMAIN syncData :
          /\ syncData[i].otpCode = inputBuffer
          /\ task'.wait = "door" /\ task'.pin = syncData[i].cabinetPin
          /\ \A k \in DOMAIN syncData' :
                \E j \in DOMAIN syncData : syncData'[k] = syncData[j]

LEMMA KeyDoes ==
    ASSUME FirmwareInv, Key
    PROVE  Waiting("nothing") /\ KeyEffect
<1>1. ASSUME NEW input \in Inputs, ChooseInput(input)
      PROVE  Waiting("nothing") /\ KeyEffect
  BY <1>1 DEF ChooseInput, Reading, Waiting, KeyEffect
<1>2. CASE Digit \/ Erase \/ Leave
  BY <1>2 DEF Digit, Erase, Leave, Reading, Waiting, KeyEffect
<1>3. CASE EnterDelivery \/ EnterPickupOnline
  BY <1>3 DEF EnterDelivery, EnterPickupOnline, Reading, Waiting, Loop, KeyEffect
<1>4. CASE EnterPickupOffline
  <2>1. Waiting("nothing")
    BY <1>4 DEF EnterPickupOffline, Reading
  <2>2. CASE syncData' = syncData /\ task' = task
    BY <2>1, <2>2 DEF Waiting, KeyEffect
  <2>3. ASSUME NEW i \in DOMAIN syncData, syncData[i].otpCode = inputBuffer,
               syncData' = RemoveEntry(i),
               OpenBoxByPin(syncData[i].cabinetPin, <<"syncLogsToServer">>)
        PROVE  KeyEffect
    <3>1. syncData \in Seq(SyncEntries) /\ DOMAIN syncData = 1 .. Len(syncData)
      BY SeqOfElim, FirmwareAssumption DEF FirmwareInv, TypeOK
    <3>2. /\ syncData' \in Seq(SyncEntries)
          /\ Len(syncData') = Len(syncData) - 1
          /\ \A k \in 1 .. (Len(syncData) - 1) :
                syncData'[k] = IF k < i THEN syncData[k] ELSE syncData[k + 1]
      BY <2>3, <3>1, RemoveAtElements DEF RemoveEntry
    <3>3. DOMAIN syncData' = 1 .. (Len(syncData) - 1)
      BY <3>2, LenProperties
    <3>4. ASSUME NEW k \in DOMAIN syncData'
          PROVE  \E j \in DOMAIN syncData : syncData'[k] = syncData[j]
      <4>1. k \in DOMAIN syncData /\ k + 1 \in DOMAIN syncData
        BY <3>1, <3>3
      <4>2. syncData'[k] = syncData[k] \/ syncData'[k] = syncData[k + 1]
        BY <3>2, <3>3
      <4>3. QED
        BY <4>1, <4>2
    <3>5. task'.wait = "door" /\ task'.pin = syncData[i].cabinetPin
      BY <2>3 DEF OpenBoxByPin, Loop
    <3>6. QED
      BY <2>3, <3>4, <3>5 DEF KeyEffect
  <2>4. QED
    BY <1>4, <2>1, <2>2, <2>3 DEF EnterPickupOffline
<1>5. QED
  BY <1>1, <1>2, <1>3, <1>4 DEF Key

\* Settled survives every step but a success answer that opens no box.
LEMMA StepSettled ==
    ASSUME Settled,
           \/ Key \/ VerifyFailed \/ SyncDataFailed \/ LogPosted \/ BoxClosed
           \/ \E pin \in Pins :
                 DeliveryVerified(pin) \/ PickupVerified(pin) \/ OpenCabinet(pin)
           \/ \E entries \in Answers : SyncDataReceived(entries)
           \/ WsConnect \/ SyncRequest \/ WsDisconnect \/ WifiChange \/ Restart
    PROVE  Settled'
<1>1. CASE Key
  <2>1. ASSUME NEW input \in Inputs, ChooseInput(input) PROVE Settled'
    BY <2>1 DEF ChooseInput, Inputs, Settled
  <2>2. CASE Digit \/ Erase \/ Leave
    BY <2>2 DEF Digit, Erase, Leave, Settled
  <2>3. CASE EnterDelivery \/ EnterPickupOnline
    BY <2>3 DEF EnterDelivery, EnterPickupOnline, Loop, Settled
  <2>4. CASE EnterPickupOffline
    BY <2>4 DEF EnterPickupOffline, OpenBoxByPin, Loop, Settled
  <2>5. QED
    BY <1>1, <2>1, <2>2, <2>3, <2>4 DEF Key
\* The state is reset, ...
<1>2. CASE VerifyFailed \/ BoxClosed \/ Restart
  BY <1>2 DEF VerifyFailed, BoxClosed, Restart, Settled
\* ... a door opens, ...
<1>3. ASSUME NEW pin \in Pins,
             DeliveryVerified(pin) \/ PickupVerified(pin) \/ OpenCabinet(pin)
      PROVE  Settled'
  <2>1. pin # Null
    BY FirmwareAssumption
  <2>2. task'.wait = "door"
    BY <1>3, <2>1
       DEF DeliveryVerified, PickupVerified, OpenCabinet, OpenBoxByPin, Loop
  <2>3. QED
    BY <2>2 DEF Settled
\* ... or the state was not STATE_BOX_OPENING and stays as it is.
<1>4. CASE \/ SyncDataFailed \/ LogPosted \/ WsConnect \/ SyncRequest
           \/ \E entries \in Answers : SyncDataReceived(entries)
  <2>1. task.wait \in Functions \cup {"nothing"} /\ currentState' = currentState
    BY <1>4 DEF SyncDataFailed, LogPosted, WsConnect, SyncRequest,
                SyncDataReceived, Waiting, Functions
  <2>2. QED
    BY <2>1 DEF Settled, Functions
<1>5. CASE WsDisconnect \/ WifiChange
  BY <1>5 DEF WsDisconnect, WifiChange, Settled
<1>6. QED
  BY <1>1, <1>2, <1>3, <1>4, <1>5

-----------------------------------------------------------------------------
(* The theorems *)

\* The arrays of the sketch keep to their length and the entry being sent is one
\* of the queue, whatever the sizes and whatever the server answers.
THEOREM StationTypes == Spec => []TypeOK
<1>1. FirmwareInv => TypeOK
  BY DEF FirmwareInv
<1>2. QED
  BY <1>1, InvAlways, PTL

\* A code accepted offline is not accepted again before the next sync.
THEOREM OfflineCodesOnce == Spec => []OfflineOnce
<1>1. FirmwareInv => OfflineOnce
  BY DEF FirmwareInv
<1>2. QED
  BY <1>1, InvAlways, PTL
=============================================================================
