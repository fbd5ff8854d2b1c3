--------------------------- MODULE PresenceProofs ---------------------------
(***************************************************************************)
(* Proofs about Presence, for any number of stations, tabs, users and      *)
(* connections: types, who is in the registries, that a station which has  *)
(* registered is reached, and when isOnline is right.                      *)
(***************************************************************************)
EXTENDS Presence, TLAPS

\* What StationReachable rests on: a client uses a socket of its own, and a
\* station whose registration is not under way was the last to register with it.
Present ==
    /\ \A c \in Clients : current[c] # NoSocket => owner[current[c]] = c
    /\ \A m \in Macs : current[m] \notin hello \cup {NoSocket} =>
          current[m] \in live /\ last[m] = current[m]

\* What LastRegistrationWins rests on: the socket that registered last for a
\* station is one of that station's, so a socket has one entry at most.  A
\* registration under way comes from the socket its client uses.
Registered ==
    /\ TypeOK
    /\ LastRegistrationWins
    /\ \A m \in Macs : last[m] # NoSocket => owner[last[m]] = m
    /\ \A s \in hello : current[owner[s]] = s
    /\ Present

Right == isOnline <=> macAddress # Null /\ espDevices[macAddress] # NoSocket

\* What the handler under way knows, as long as handlers do not overlap.
Undisturbed ==
    /\ tasks = {} => Right
    /\ \A t \in tasks :
        /\ tasks = {t}
        /\ t.kind = "register" => /\ espDevices[t.mac] # NoSocket
                                  /\ t.step = "flag" => macAddress = t.mac
        /\ t.kind = "leave" => /\ t.step = "flag"
                               /\ espDevices[t.mac] = NoSocket
                               /\ macAddress # t.mac => Right
        /\ t.kind = "verify" => t.step \in {"load", "save"} /\ Right
        /\ t.step = "load" => macAddress # t.mac
        /\ t.step = "save" => t.seen # t.mac

OnlineInv == ~disturbed => Undisturbed

-----------------------------------------------------------------------------

\* A handler that begins or proceeds is a task.
LEMMA TaskTypes ==
    ASSUME TypeOK, NEW t \in Tasks, NEW step \in {"find", "load", "save", "flag"}
    PROVE  /\ [t EXCEPT !.step = step] \in Tasks
           /\ [t EXCEPT !.step = step, !.seen = macAddress] \in Tasks
  BY DEF TypeOK, Tasks

\* Proceeding keeps the type of tasks.
LEMMA LinkedTypes ==
    ASSUME TypeOK, NEW t \in tasks, Linked(t)
    PROVE  tasks' \subseteq Tasks
  <1>1. t \in Tasks
    BY DEF TypeOK
  <1>2. [t EXCEPT !.step = "flag"] \in Tasks
    BY <1>1 DEF Tasks
  <1> QED
    BY <1>2 DEF Linked, Proceed, TypeOK

\* Connections: who is registered does not change.
LEMMA ConnectStep ==
    ASSUME Registered, PresenceAssumption, NEW c \in Clients, Connect(c)
    PROVE  Registered'
  <1> USE DEF Registered, NoSocket, Sockets
  <1>1. opened + 1 \in Sockets /\ opened \in Nat
    BY DEF Connect, TypeOK, PresenceAssumption
  <1>2. \A k \in Macs \cup Users : last[k] # opened + 1 /\ last[k] \in Nat
    BY <1>1 DEF TypeOK
  <1>3. TypeOK'
    <2>1. live' \subseteq 1 .. opened' /\ hello' \subseteq live'
      BY <1>1 DEF Connect, TypeOK
    <2>2. espDevices' \in [Macs -> live' \cup {0}] /\ webClients' \in [Users -> live' \cup {0}]
      BY DEF Connect, TypeOK, registries
    <2>3. owner' \in [Sockets -> Clients \cup {Null}] /\ current' \in [Clients -> 0 .. opened']
      BY <1>1 DEF Connect, TypeOK
    <2>4. opened' \in 0 .. MaxSockets /\ last' \in [Macs \cup Users -> 0 .. opened']
      BY <1>1 DEF Connect, TypeOK, registries, PresenceAssumption
    <2> QED
      BY <2>1, <2>2, <2>3, <2>4 DEF Connect, TypeOK, device
  <1>4. LastRegistrationWins'
    BY <1>2 DEF Connect, LastRegistrationWins, registries
  <1>5. \A m \in Macs : last'[m] # 0 => owner'[last'[m]] = m
    <2> TAKE m \in Macs
    <2>1. last[m] \in 0 .. opened /\ last'[m] = last[m]
      BY DEF Connect, TypeOK, registries
    <2>2. last[m] # 0 => last[m] \in Sockets
      BY <1>1, <2>1
    <2> QED
      BY <1>2, <2>1, <2>2 DEF Connect, TypeOK
  <1>6. \A s \in hello' : current'[owner'[s]] = s
    <2>1. \A s \in hello : s # opened + 1 /\ s \in Sockets /\ s # 0
      BY <1>1 DEF TypeOK
    <2>2. \A s \in hello : owner'[s] = owner[s] /\ owner[s] # c
      BY <2>1 DEF Connect, TypeOK
    <2>3. \A s \in hello : current'[owner'[s]] = s
      BY <2>2 DEF Connect, TypeOK
    <2>4. current'[owner'[opened + 1]] = opened + 1
      BY <1>1 DEF Connect, TypeOK
    <2> QED
      BY <2>3, <2>4 DEF Connect
  <1>7. Present'
    <2>1. \A d \in Clients : current[d] \in 0 .. opened
      BY DEF TypeOK
    <2>2. \A d \in Clients : current[d] # opened + 1
      BY <1>1, <2>1
    <2>3. \A d \in Clients : current[d] # 0 => current[d] \in Sockets
      BY <1>1, <2>1
    <2>4. /\ \A d \in Clients \ {c} : current'[d] = current[d]
          /\ current'[c] = opened + 1 /\ owner'[opened + 1] = c
          /\ \A r \in Sockets : r # opened + 1 => owner'[r] = owner[r]
      BY <1>1 DEF Connect, TypeOK
    <2>5. \A d \in Clients : current'[d] # 0 => owner'[current'[d]] = d
      BY <2>2, <2>3, <2>4 DEF Present
    <2>6. ASSUME NEW m \in Macs, current'[m] \notin hello' \cup {0}
          PROVE  current'[m] \in live' /\ last'[m] = current'[m]
      BY <2>4, <2>6 DEF Connect, Present, registries, Clients
    <2> QED
      BY <2>5, <2>6 DEF Present
  <1> QED
    BY <1>3, <1>4, <1>5, <1>6, <1>7

\* Losing a connection only concerns the client.
LEMMA LoseStep ==
    ASSUME Registered, PresenceAssumption, NEW c \in Clients, Lose(c)
    PROVE  Registered'
  <1>1. TypeOK'
    <2>1. 0 \in 0 .. opened
      BY DEF Registered, TypeOK, PresenceAssumption
    <2>2. current' \in [Clients -> 0 .. opened] /\ hello' \subseteq live
      BY <2>1 DEF Registered, Lose, TypeOK, NoSocket
    <2> QED
      BY <2>2 DEF Registered, Lose, TypeOK, registries, device
  <1>2. LastRegistrationWins'
    BY DEF Registered, Lose, LastRegistrationWins, registries
  <1>3. \A s \in hello' : current'[owner'[s]] = s
    BY DEF Registered, Lose, TypeOK
  <1>4. Present'
    <2>1. /\ current'[c] = NoSocket
          /\ \A d \in Clients \ {c} : current'[d] = current[d]
          /\ hello' = hello \ {current[c]} /\ current[c] # NoSocket
          /\ owner' = owner /\ live' = live /\ last' = last
      BY DEF Registered, Lose, TypeOK, registries
    <2>2. \A d \in Clients \ {c} : current[d] # current[c]
      BY <2>1 DEF Registered, Present
    <2>3. \A d \in Clients : current'[d] # NoSocket => owner'[current'[d]] = d
      BY <2>1 DEF Registered, Present
    <2>4. ASSUME NEW m \in Macs, current'[m] \notin hello' \cup {NoSocket}
          PROVE  current'[m] \in live' /\ last'[m] = current'[m]
      BY <2>1, <2>2, <2>4 DEF Registered, Present, Clients
    <2> QED
      BY <2>3, <2>4 DEF Present
  <1> QED
    BY <1>1, <1>2, <1>3, <1>4 DEF Registered, Lose, registries

\* A station registers.
LEMMA RegisterDeviceStep ==
    ASSUME Registered, PresenceAssumption, NEW s \in Sockets, RegisterDevice(s)
    PROVE  Registered'
  <1> DEFINE m == owner[s]
  <1> USE DEF Registered, NoSocket
  <1>1. s \in live /\ m \in Macs /\ s # 0 /\ s \in 0 .. opened
    BY DEF RegisterDevice, TypeOK, Sockets
  <1>2. tasks' \subseteq Tasks /\ disturbed' \in BOOLEAN
    BY <1>1 DEF RegisterDevice, Begin, Tasks, TypeOK
  <1>3. TypeOK'
    BY <1>1, <1>2 DEF RegisterDevice, TypeOK, device
  <1>4. /\ espDevices' = [espDevices EXCEPT ![m] = s]
        /\ last' = [last EXCEPT ![m] = s]
        /\ live' = live /\ webClients' = webClients /\ owner' = owner
    BY DEF RegisterDevice
  <1> HIDE DEF m
  <1>5. LastRegistrationWins'
    BY <1>1, <1>4 DEF LastRegistrationWins, TypeOK, PresenceAssumption
  <1>6. \A n \in Macs : last'[n] # 0 => owner'[last'[n]] = n
    BY <1>1, <1>4 DEF m, TypeOK
  <1>7. \A r \in hello' : current'[owner'[r]] = r
    BY DEF RegisterDevice
  <1>8. Present'
    <2>1. current' = current /\ hello' = hello \ {s} /\ s \in hello
      BY DEF RegisterDevice
    <2>2. last'[m] = s /\ \A n \in Macs \ {m} : last'[n] = last[n]
      BY <1>1, <1>4 DEF TypeOK
    <2>3. \A n \in Macs : current[n] = s => n = m
      BY <1>1 DEF Present, Clients, m
    <2>4. ASSUME NEW n \in Macs, current'[n] \notin hello' \cup {0}
          PROVE  current'[n] \in live' /\ last'[n] = current'[n]
      <3>1. CASE current[n] = s
        BY <1>1, <1>4, <2>1, <2>2, <2>3, <3>1
      <3>2. CASE current[n] # s
        <4>1. n # m
          BY <2>1, <3>2 DEF m
        <4> QED
          BY <1>4, <2>1, <2>2, <2>4, <3>2, <4>1 DEF Present
      <3> QED
        BY <3>1, <3>2
    <2> QED
      BY <1>4, <2>1, <2>4 DEF Present
  <1> QED
    BY <1>3, <1>5, <1>6, <1>7, <1>8

\* A tab registers.
LEMMA RegisterUserStep ==
    ASSUME Registered, PresenceAssumption, NEW s \in Sockets, RegisterUser(s)
    PROVE  Registered'
  <1> DEFINE u == Account[owner[s]]
  <1> USE DEF Registered, NoSocket
  <1>1. s \in live /\ u \in Users /\ s # 0 /\ s \in 0 .. opened
    BY DEF RegisterUser, TypeOK, Sockets, PresenceAssumption
  <1>2. TypeOK'
    BY <1>1 DEF RegisterUser, TypeOK, device
  <1>3. /\ webClients' = [webClients EXCEPT ![u] = s]
        /\ last' = [last EXCEPT ![u] = s]
        /\ live' = live /\ espDevices' = espDevices /\ owner' = owner
    BY DEF RegisterUser
  <1> HIDE DEF u
  <1>4. LastRegistrationWins'
    BY <1>1, <1>3 DEF LastRegistrationWins, TypeOK, PresenceAssumption
  <1>5. \A n \in Macs : last'[n] # 0 => owner'[last'[n]] = n
    BY <1>1, <1>3 DEF TypeOK, PresenceAssumption
  <1>6. \A r \in hello' : current'[owner'[r]] = r
    BY DEF RegisterUser
  <1>7. Present'
    <2>1. current' = current /\ hello' = hello \ {s} /\ owner[s] \in Tabs
      BY DEF RegisterUser
    <2>2. \A n \in Macs : last'[n] = last[n]
      BY <1>1, <1>3 DEF TypeOK, PresenceAssumption
    <2>3. \A n \in Macs : current[n] # s
      BY <1>1, <2>1 DEF Present, Clients, PresenceAssumption
    <2> QED
      BY <1>3, <2>1, <2>2, <2>3 DEF Present
  <1> QED
    BY <1>2, <1>4, <1>5, <1>6, <1>7

\* The server notices a disconnect: the entry that goes is the socket's own.
LEMMA DisconnectStep ==
    ASSUME Registered, PresenceAssumption, NEW s \in Sockets, Disconnect(s)
    PROVE  Registered'
  <1> USE DEF Registered, NoSocket
  <1>1. /\ live' = live \ {s} /\ last' = last /\ owner' = owner
        /\ webClients' = [u \in Users |-> IF webClients[u] = s THEN 0 ELSE webClients[u]]
        /\ s \in live /\ s # 0
    BY DEF Disconnect, Sockets
  <1>2. /\ espDevices' = [m \in Macs |-> IF espDevices[m] = s THEN 0 ELSE espDevices[m]]
        /\ tasks' \subseteq Tasks /\ disturbed' \in BOOLEAN
    <2>1. CASE \E m \in Macs : /\ espDevices[m] = s
                               /\ espDevices' = [espDevices EXCEPT ![m] = NoSocket]
                               /\ Begin("leave", s, m, "flag")
      <3>1. PICK m \in Macs : /\ espDevices[m] = s
                              /\ espDevices' = [espDevices EXCEPT ![m] = NoSocket]
                              /\ Begin("leave", s, m, "flag")
        BY <2>1
      <3>2. \A n \in Macs : espDevices[n] = s => n = m
        BY <1>1, <3>1 DEF LastRegistrationWins
      <3>3. espDevices' = [n \in Macs |-> IF espDevices[n] = s THEN 0 ELSE espDevices[n]]
        BY <3>1, <3>2 DEF TypeOK
      <3>4. tasks' \subseteq Tasks /\ disturbed' \in BOOLEAN
        BY <3>1 DEF Begin, Tasks, TypeOK
      <3> QED
        BY <3>3, <3>4
    <2>2. CASE /\ \A m \in Macs : espDevices[m] # s
               /\ UNCHANGED <<espDevices, tasks, disturbed>>
      BY <2>2 DEF TypeOK
    <2> QED
      BY <2>1, <2>2 DEF Disconnect
  <1>3. TypeOK'
    <2>1. hello' \subseteq live'
      BY <1>1 DEF Disconnect, TypeOK
    <2> QED
      BY <1>1, <1>2, <2>1 DEF Disconnect, TypeOK, device
  <1>4. LastRegistrationWins'
    BY <1>1, <1>2 DEF LastRegistrationWins
  <1>5. \A r \in hello' : current'[owner'[r]] = r
    BY <1>1 DEF Disconnect
  <1>6. Present'
    <2>1. current' = current /\ hello' = hello /\ current[owner[s]] # s
      BY DEF Disconnect
    <2>2. \A n \in Macs : current[n] # s
      BY <1>1, <2>1 DEF Present, Clients
    <2> QED
      BY <1>1, <2>1, <2>2 DEF Present
  <1> QED
    BY <1>1, <1>3, <1>4, <1>5, <1>6

\* The database steps of handlers and a verify call leave connections and
\* registries alone.
LEMMA HandlerStep ==
    ASSUME Registered, UNCHANGED <<sockets, registries>>,
           tasks' \subseteq Tasks, macAddress' \in Macs \cup {Null},
           isOnline' \in BOOLEAN, disturbed' \in BOOLEAN
    PROVE  Registered'
  <1>1. TypeOK'
    BY DEF Registered, TypeOK, sockets, registries
  <1>2. LastRegistrationWins'
    BY DEF Registered, LastRegistrationWins, sockets, registries
  <1> QED
    BY <1>1, <1>2 DEF Registered, Present, sockets, registries

LEMMA ResumeStep ==
    ASSUME Registered, NEW t \in tasks, Resume(t)
    PROVE  Registered'
  <1> USE DEF Registered
  <1>1. t \in Tasks /\ t.mac \in Macs
    BY DEF TypeOK, Tasks
  <1>2. CASE FindDevice(t)
    <2>1. tasks' \subseteq Tasks
      <3>1. CASE Linked(t)
        BY <3>1, LinkedTypes
      <3>2. CASE Proceed(t, "load")
        BY <1>1, <3>2, TaskTypes DEF Proceed, TypeOK
      <3> QED
        BY <1>2, <3>1, <3>2 DEF FindDevice
    <2> QED
      BY <1>2, <2>1, HandlerStep DEF FindDevice, device, TypeOK
  <1>3. CASE LoadDevice(t)
    <2>1. tasks' \subseteq Tasks
      BY <1>1, <1>3, TaskTypes DEF LoadDevice, TypeOK
    <2> QED
      BY <1>3, <2>1, HandlerStep DEF LoadDevice, device, TypeOK
  <1>4. CASE SaveDevice(t)
    <2>1. tasks' \subseteq Tasks
      BY <1>4, LinkedTypes DEF SaveDevice
    <2>2. macAddress' \in Macs \cup {Null} /\ disturbed' \in BOOLEAN
      BY <1>1, <1>4 DEF SaveDevice, TypeOK
    <2> QED
      BY <1>4, <2>1, <2>2, HandlerStep DEF SaveDevice, TypeOK
  <1>5. CASE UpdateOnline(t)
    BY <1>1, <1>5, HandlerStep DEF UpdateOnline, TypeOK
  <1> QED
    BY <1>2, <1>3, <1>4, <1>5 DEF Resume

LEMMA VerifyStep ==
    ASSUME Registered, NEW m \in Macs, Verify(m)
    PROVE  Registered'
  <1>1. tasks' \subseteq Tasks /\ disturbed' \in BOOLEAN
    BY DEF Registered, TypeOK, Verify, Begin, Tasks
  <1> QED
    BY <1>1, HandlerStep DEF Registered, TypeOK, Verify, device

LEMMA InitRegistered ==
    ASSUME Init, PresenceAssumption
    PROVE  Registered
  <1>1. TypeOK
    <2>1. 0 \in 0 .. MaxSockets /\ 0 \in 0 .. 0 /\ {} \subseteq 1 .. 0
      BY DEF PresenceAssumption
    <2>2. /\ opened \in 0 .. MaxSockets
          /\ current \in [Clients -> 0 .. opened]
          /\ last \in [Macs \cup Users -> 0 .. opened]
          /\ live \subseteq 1 .. opened
      BY <2>1 DEF Init, NoSocket
    <2> QED
      BY <2>2 DEF Init, TypeOK
  <1>2. LastRegistrationWins
    BY DEF Init, LastRegistrationWins, NoSocket
  <1>3. Present
    BY DEF Init, Present, NoSocket, Clients
  <1> QED
    BY <1>1, <1>2, <1>3 DEF Init, Registered

LEMMA RestartStep ==
    ASSUME Registered, PresenceAssumption, Restart
    PROVE  Registered'
  <1>1. TypeOK'
    <2>1. 0 \in 0 .. opened
      BY DEF Registered, TypeOK, PresenceAssumption
    <2>2. /\ current' \in [Clients -> 0 .. opened]
          /\ last' \in [Macs \cup Users -> 0 .. opened]
          /\ live' \subseteq 1 .. opened
      BY <2>1 DEF Restart, NoSocket
    <2> QED
      BY <2>2 DEF Registered, Restart, TypeOK
  <1>2. LastRegistrationWins'
    BY DEF Restart, LastRegistrationWins, NoSocket
  <1>3. Present'
    BY DEF Restart, Present, NoSocket, Clients
  <1> QED
    BY <1>1, <1>2, <1>3 DEF Restart, Registered

LEMMA RegisteredInductive ==
    ASSUME Registered, [Next]_vars
    PROVE  Registered'
  <1> USE PresenceAssumption
  <1>1. CASE \E c \in Clients : Connect(c) \/ Lose(c)
    BY <1>1, ConnectStep, LoseStep
  <1>2. CASE \E s \in Sockets : RegisterDevice(s) \/ RegisterUser(s) \/ Disconnect(s)
    BY <1>2, RegisterDeviceStep, RegisterUserStep, DisconnectStep
  <1>3. CASE \E m \in Verifiers : Verify(m)
    BY <1>3, VerifyStep DEF PresenceAssumption
  <1>4. CASE \E t \in tasks : Resume(t)
    BY <1>4, ResumeStep
  <1>5. CASE Restart
    BY <1>5, RestartStep
  <1>6. CASE UNCHANGED vars
    BY <1>6 DEF vars, sockets, registries, device, Registered, TypeOK,
                LastRegistrationWins, Present
  <1> QED
    BY <1>1, <1>2, <1>3, <1>4, <1>5, <1>6 DEF Next

LEMMA AlwaysRegistered == Spec => []Registered
  <1>1. Init => Registered
    BY InitRegistered, PresenceAssumption
  <1>2. Registered /\ [Next]_vars => Registered'
    BY RegisteredInductive
  <1> QED
    BY <1>1, <1>2, PTL DEF Spec

\* Types of the sockets, the registries, the Device and the handlers; a
\* registered socket is one the server has not seen disconnect.
THEOREM PresenceTypes == Spec => []TypeOK
  <1>1. Registered => TypeOK
    BY DEF Registered
  <1> QED
    BY <1>1, AlwaysRegistered, PTL

\* However connections, registrations and late disconnects (index.js:577-611)
\* interleave, pushes go to the socket that registered last, or to nobody when
\* that one is gone.
THEOREM LastOneWins == Spec => []LastRegistrationWins
  <1>1. Registered => LastRegistrationWins
    BY DEF Registered
  <1> QED
    BY <1>1, AlwaysRegistered, PTL

\* A station that has registered on its present connection is reached by pushes
\* until that connection goes, however late the server learns of its former ones
\* (index.js:579, 599).
THEOREM StationsReached == Spec => []StationReachable
  <1>1. Registered => StationReachable
    BY DEF Registered, Present, LastRegistrationWins, StationReachable
  <1> QED
    BY <1>1, AlwaysRegistered, PTL

-----------------------------------------------------------------------------
(* isOnline *)

\* A step that leaves registrations, Device and handlers alone.
LEMMA OnlineFrame ==
    ASSUME OnlineInv, UNCHANGED <<espDevices, device, tasks, disturbed>>
    PROVE  OnlineInv'
  BY DEF OnlineInv, Undisturbed, Right, device

\* An undisturbed handler has begun alone.
LEMMA BeginAlone ==
    ASSUME OnlineInv, disturbed \in BOOLEAN, NEW kind, NEW s, NEW m, NEW step,
           Begin(kind, s, m, step), ~disturbed'
    PROVE  /\ Right
           /\ tasks' = {[kind |-> kind, sock |-> s, mac |-> m, step |-> step,
                         seen |-> Null]}
  BY DEF OnlineInv, Undisturbed, Begin

LEMMA RegisterOnline ==
    ASSUME OnlineInv, Registered, NEW s \in Sockets, RegisterDevice(s)
    PROVE  OnlineInv'
  <1> SUFFICES ASSUME ~disturbed' PROVE Undisturbed'
    BY DEF OnlineInv
  <1> DEFINE t == [kind |-> "register", sock |-> s, mac |-> owner[s],
                   step |-> "find", seen |-> Null]
  <1>1. tasks' = {t}
    BY BeginAlone DEF RegisterDevice, Registered, TypeOK
  <1>2. espDevices'[owner[s]] # NoSocket
    BY DEF RegisterDevice, Registered, TypeOK, NoSocket, Sockets
  <1>3. t.kind = "register" /\ t.step = "find" /\ t.mac = owner[s]
    OBVIOUS
  <1> HIDE DEF t
  <1> QED
    BY <1>1, <1>2, <1>3 DEF Undisturbed

LEMMA DisconnectOnline ==
    ASSUME OnlineInv, Registered, NEW s \in Sockets, Disconnect(s)
    PROVE  OnlineInv'
  <1>1. CASE UNCHANGED <<espDevices, tasks, disturbed>>
    BY <1>1, OnlineFrame DEF Disconnect, device
  <1>2. ASSUME NEW m \in Macs, Begin("leave", s, m, "flag"),
               espDevices' = [espDevices EXCEPT ![m] = NoSocket]
        PROVE  OnlineInv'
    <2> SUFFICES ASSUME ~disturbed' PROVE Undisturbed'
      BY DEF OnlineInv
    <2> DEFINE t == [kind |-> "leave", sock |-> s, mac |-> m, step |-> "flag",
                     seen |-> Null]
    <2>1. Right /\ tasks' = {t}
      BY <1>2, BeginAlone DEF Registered, TypeOK
    <2>2. espDevices'[m] = NoSocket
      BY <1>2 DEF Registered, TypeOK
    <2>3. macAddress' # m => Right'
      BY <1>2, <2>1 DEF Disconnect, device, Right, Registered, TypeOK
    <2>4. t.kind = "leave" /\ t.step = "flag" /\ t.mac = m
      OBVIOUS
    <2> HIDE DEF t
    <2> QED
      BY <2>1, <2>2, <2>3, <2>4 DEF Undisturbed
  <1> QED
    BY <1>1, <1>2 DEF Disconnect

LEMMA VerifyOnline ==
    ASSUME OnlineInv, Registered, NEW m \in Macs, Verify(m)
    PROVE  OnlineInv'
  <1> SUFFICES ASSUME ~disturbed' PROVE Undisturbed'
    BY DEF OnlineInv
  <1> DEFINE t == [kind |-> "verify", sock |-> NoSocket, mac |-> m,
                   step |-> "load", seen |-> Null]
  <1>1. Right /\ tasks' = {t}
    BY BeginAlone DEF Verify, Registered, TypeOK
  <1>2. macAddress' # m /\ Right'
    BY <1>1 DEF Verify, registries, device, Right
  <1> QED
    BY <1>1, <1>2 DEF Undisturbed

\* An undisturbed handler proceeds: it stays the only one, and what it knows
\* follows from what it knew.
LEMMA ResumeOnline ==
    ASSUME OnlineInv, Registered, NEW t \in tasks, Resume(t)
    PROVE  OnlineInv'
  <1> SUFFICES ASSUME ~disturbed' PROVE Undisturbed'
    BY DEF OnlineInv
  <1>1. ~disturbed
    BY DEF Resume, FindDevice, LoadDevice, SaveDevice, UpdateOnline,
           Registered, TypeOK
  <1>2. Undisturbed /\ tasks = {t} /\ t \in Tasks
    BY <1>1 DEF OnlineInv, Undisturbed, Registered, TypeOK
  <1>3. espDevices' = espDevices
    BY DEF Resume, FindDevice, LoadDevice, SaveDevice, UpdateOnline, registries
  <1>4. CASE FindDevice(t)
    <2>1. device' = device /\ t.step = "find" /\ t.kind = "register"
      BY <1>2, <1>4 DEF FindDevice, Undisturbed, Tasks
    <2>2. CASE macAddress = t.mac
      <3> DEFINE n == [t EXCEPT !.step = "flag"]
      <3>1. tasks' = {n}
        BY <1>2, <1>4, <2>1, <2>2 DEF FindDevice, Linked, Proceed
      <3>2. n.step = "flag" /\ n.kind = "register" /\ n.mac = t.mac
        BY <1>2, <2>1 DEF Tasks
      <3> HIDE DEF n
      <3> QED
        BY <1>2, <1>3, <2>1, <2>2, <3>1, <3>2 DEF Undisturbed, device
    <2>3. CASE macAddress # t.mac
      <3> DEFINE n == [t EXCEPT !.step = "load"]
      <3>1. tasks' = {n}
        BY <1>2, <1>4, <2>3 DEF FindDevice, Proceed
      <3>2. n.step = "load" /\ n.kind = "register" /\ n.mac = t.mac
        BY <1>2, <2>1 DEF Tasks
      <3> HIDE DEF n
      <3> QED
        BY <1>2, <1>3, <2>1, <2>3, <3>1, <3>2 DEF Undisturbed, device
    <2> QED
      BY <2>2, <2>3
  <1>5. CASE LoadDevice(t)
    <2> DEFINE n == [t EXCEPT !.step = "save", !.seen = macAddress]
    <2>1. tasks' = {n} /\ device' = device /\ t.step = "load"
      BY <1>2, <1>5 DEF LoadDevice
    <2>2. n.step = "save" /\ n.kind = t.kind /\ n.mac = t.mac /\ n.seen = macAddress
      BY <1>2 DEF Tasks
    <2>3. Right' <=> Right
      BY <1>3, <2>1 DEF Right, device
    <2> HIDE DEF n
    <2> QED
      BY <1>2, <1>3, <2>1, <2>2, <2>3 DEF Undisturbed, device
  <1>6. CASE SaveDevice(t)
    <2> DEFINE n == [t EXCEPT !.step = "flag"]
    <2>1. t.kind = "register" /\ t.step = "save"
      BY <1>2, <1>6 DEF SaveDevice, Undisturbed, Tasks, Registered, TypeOK
    <2>2. tasks' = {n} /\ macAddress' = t.mac
      BY <1>2, <1>6, <2>1 DEF SaveDevice, Linked, Proceed, Undisturbed
    <2>3. n.step = "flag" /\ n.kind = "register" /\ n.mac = t.mac
      BY <1>2, <2>1 DEF Tasks
    <2> HIDE DEF n
    <2> QED
      BY <1>2, <1>3, <2>1, <2>2, <2>3 DEF Undisturbed
  <1>7. CASE UpdateOnline(t)
    <2>1. tasks' = {} /\ macAddress' = macAddress /\ t.step = "flag"
      BY <1>2, <1>7 DEF UpdateOnline
    <2>2. Right'
      <3>1. t.mac \in Macs /\ t.mac # Null
        BY <1>2, PresenceAssumption DEF Tasks, PresenceAssumption, Clients
      <3>2. CASE t.kind = "register"
        BY <1>2, <1>3, <1>7, <2>1, <3>1, <3>2 DEF UpdateOnline, Undisturbed, Right
      <3>3. CASE t.kind = "leave"
        BY <1>2, <1>3, <1>7, <2>1, <3>1, <3>3 DEF UpdateOnline, Undisturbed, Right
      <3> QED
        BY <1>2, <2>1, <3>2, <3>3 DEF Undisturbed, Tasks
    <2> QED
      BY <2>1, <2>2 DEF Undisturbed
  <1> QED
    BY <1>4, <1>5, <1>6, <1>7 DEF Resume

LEMMA OnlineInductive ==
    ASSUME OnlineInv, Registered, [Next]_vars
    PROVE  OnlineInv'
  <1>1. CASE \E c \in Clients : Connect(c) \/ Lose(c)
    BY <1>1, OnlineFrame DEF Connect, Lose, registries
  <1>2. CASE \E s \in Sockets : RegisterDevice(s) \/ RegisterUser(s) \/ Disconnect(s)
    BY <1>2, RegisterOnline, DisconnectOnline, OnlineFrame DEF RegisterUser
  <1>3. CASE \E m \in Verifiers : Verify(m)
    BY <1>3, VerifyOnline, PresenceAssumption DEF PresenceAssumption
  <1>4. CASE \E t \in tasks : Resume(t)
    BY <1>4, ResumeOnline
  <1>5. CASE Restart
    BY <1>5 DEF Restart, OnlineInv, Undisturbed, Right
  <1>6. CASE UNCHANGED vars
    BY <1>6, OnlineFrame DEF vars, registries
  <1> QED
    BY <1>1, <1>2, <1>3, <1>4, <1>5, <1>6 DEF Next

\* When no handler is under way and none have overlapped, isOnline is whether the
\* station that is the locker has a registered socket, however often stations
\* have connected, left, and taken the Device from one another (index.js:577-605).
THEOREM OnlineIsRight == Spec => []OnlineIsTrue
  <1>1. Init => OnlineInv
    BY DEF Init, OnlineInv, Undisturbed, Right
  <1>2. OnlineInv /\ Registered /\ [Next]_vars => OnlineInv'
    BY OnlineInductive
  <1>3. OnlineInv => OnlineIsTrue
    BY DEF OnlineInv, Undisturbed, Right, OnlineIsTrue
  <1> QED
    BY <1>1, <1>2, <1>3, AlwaysRegistered, PTL DEF Spec
=============================================================================
