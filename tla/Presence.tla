------------------------------ MODULE Presence ------------------------------
(***************************************************************************)
(* Who can be reached: the Socket.IO connections of stations and browser   *)
(* tabs, the two registries of server/index.js (espDevices, webClients)    *)
(* and the Device document that says which station is the locker and       *)
(* whether it is online.                                                   *)
(*                                                                         *)
(* A client knows at once that its connection is lost and opens another;   *)
(* the server learns of it later, when it times out.  The handlers of      *)
(* register_device and disconnect, and autoLinkDevice as called by the     *)
(* verify endpoints, are processes with one action per database call.      *)
(***************************************************************************)
EXTENDS Naturals, FiniteSets

CONSTANTS
    Macs,           \* stations, by MAC address
    Verifiers,      \* those at whose keypad somebody types codes
    Tabs,           \* browser tabs
    Users,          \* accounts
    Account,        \* the account a tab is logged in to
    MaxSockets,     \* bound on connections; ids are never used again
    MaxTasks,       \* bound on handlers that overlap
    Null            \* no client; as a MAC address, the one of the seed data

NoSocket == 0
Sockets  == 1 .. MaxSockets
Clients  == Macs \cup Tabs

ASSUME PresenceAssumption ==
    /\ Verifiers \subseteq Macs
    /\ MaxSockets \in Nat
    /\ MaxTasks \in Nat
    /\ Account \in [Tabs -> Users]
    /\ Macs \cap Tabs = {}
    /\ Macs \cap Users = {}
    /\ Null \notin Clients

VARIABLES
    opened,         \* number of connections made so far
    owner,          \* the client a socket belongs to
    current,        \* the socket a client uses
    live,           \* sockets the server has not seen disconnect
    hello,          \* sockets whose registration message is under way, or has
                    \* arrived and not been understood
    espDevices, webClients,     \* the registries: MAC or user to socket
    macAddress, isOnline,       \* the Device document
    tasks,          \* handlers waiting for the database
    last,           \* history: the socket that registered last for a key
    disturbed       \* history: handlers overlapped, or a station without a
                    \* registration has been made the locker

registries == <<espDevices, webClients, last>>
device     == <<macAddress, isOnline>>
sockets    == <<opened, owner, current, live, hello>>
vars       == <<sockets, registries, device, tasks, disturbed>>

\* A handler: of which event, for which MAC, its next database call, and the
\* address it has loaded.
Tasks == [kind : {"register", "leave", "verify"}, sock : Sockets \cup {NoSocket},
          mac : Macs, step : {"find", "load", "save", "flag"},
          seen : Macs \cup {Null}]

Key(c) == IF c \in Macs THEN c ELSE Account[c]

Init == /\ opened = 0
        /\ owner = [s \in Sockets |-> Null]
        /\ current = [c \in Clients |-> NoSocket]
        /\ live = {}
        /\ hello = {}
        /\ espDevices = [m \in Macs |-> NoSocket]
        /\ webClients = [u \in Users |-> NoSocket]
        /\ last = [k \in Macs \cup Users |-> NoSocket]
        /\ macAddress = Null
        /\ isOnline = FALSE
        /\ tasks = {}
        /\ disturbed = FALSE

-----------------------------------------------------------------------------
(* Clients *)

\* A client connects and sends its registration.
Connect(c) ==
    /\ current[c] = NoSocket
    /\ opened < MaxSockets
    /\ opened'  = opened + 1
    /\ owner'   = [owner EXCEPT ![opened + 1] = c]
    /\ current' = [current EXCEPT ![c] = opened + 1]
    /\ live'    = live \cup {opened + 1}
    /\ hello'   = hello \cup {opened + 1}
    /\ UNCHANGED <<registries, device, tasks, disturbed>>

\* A client loses its connection or closes its tab.  A registration message still
\* under way is lost with it, or has got through just before: it does not
\* outlive the wait before the next connection (setReconnectInterval).
Lose(c) ==
    /\ current[c] # NoSocket
    /\ current' = [current EXCEPT ![c] = NoSocket]
    /\ hello'   = hello \ {current[c]}
    /\ UNCHANGED <<opened, owner, live, registries, device, tasks, disturbed>>

-----------------------------------------------------------------------------
(* Handlers *)

\* A handler runs up to its first database call.
Begin(kind, s, m, step) ==
    /\ tasks' = tasks \cup {[kind |-> kind, sock |-> s, mac |-> m,
                             step |-> step, seen |-> Null]}
    /\ disturbed' = (disturbed \/ tasks # {})

Proceed(t, step) == tasks' = (tasks \ {t}) \cup {[t EXCEPT !.step = step]}

\* Seeded fault: an existing registration is kept.
RegisterDevice_KeepFirst(s) ==
    LET m == owner[s] IN
    /\ s \in hello
    /\ m \in Macs
    /\ hello' = hello \ {s}
    /\ espDevices' = [espDevices EXCEPT
                        ![m] = IF espDevices[m] = NoSocket THEN s ELSE @]
    /\ last' = [last EXCEPT ![m] = s]
    /\ Begin("register", s, m, "find")
    /\ UNCHANGED <<opened, owner, current, live, webClients, device>>

RegisterDevice(s) ==
    LET m == owner[s] IN
    /\ s \in hello
    /\ m \in Macs
    /\ hello' = hello \ {s}
    /\ espDevices' = [espDevices EXCEPT ![m] = s]
    /\ last' = [last EXCEPT ![m] = s]
    /\ Begin("register", s, m, "find")
    /\ UNCHANGED <<opened, owner, current, live, webClients, device>>

RegisterUser(s) ==
    LET u == Account[owner[s]] IN
    /\ s \in hello
    /\ owner[s] \in Tabs
    /\ hello' = hello \ {s}
    /\ webClients' = [webClients EXCEPT ![u] = s]
    /\ last' = [last EXCEPT ![u] = s]
    /\ UNCHANGED <<opened, owner, current, live, espDevices, device, tasks, disturbed>>

\* A verify endpoint calls autoLinkDevice and has found that this station is not
\* the locker (it goes on without a change if it is).
Verify(m) ==
    /\ Cardinality(tasks) < MaxTasks
    /\ macAddress # m
    /\ Begin("verify", NoSocket, m, "load")
    /\ UNCHANGED <<sockets, registries, device>>

\* Seeded fault: entries are found by the client, not by the socket.
Disconnect_ByClient(s) ==
    LET c == owner[s] IN
    /\ s \in live
    /\ current[c] # s
    /\ live' = live \ {s}
    /\ IF c \in Macs
       THEN /\ espDevices' = [espDevices EXCEPT ![c] = NoSocket]
            /\ Begin("leave", s, c, "flag")
       ELSE UNCHANGED <<espDevices, tasks, disturbed>>
    /\ webClients' = [u \in Users |-> IF webClients[u] = s THEN NoSocket
                                                           ELSE webClients[u]]
    /\ UNCHANGED <<opened, owner, current, hello, last, device>>

\* Seeded fault: the second loop is missing.
Disconnect_EspOnly(s) ==
    /\ s \in live
    /\ current[owner[s]] # s
    /\ live' = live \ {s}
    /\ \/ \E m \in Macs :
            /\ espDevices[m] = s
            /\ espDevices' = [espDevices EXCEPT ![m] = NoSocket]
            /\ Begin("leave", s, m, "flag")
       \/ /\ \A m \in Macs : espDevices[m] # s
          /\ UNCHANGED <<espDevices, tasks, disturbed>>
    /\ UNCHANGED <<opened, owner, current, hello, webClients, last, device>>

\* The server notices that a socket is gone.  A socket has an entry in one of
\* the registries, which holds it once at most; what follows the await for an
\* entry in espDevices has nothing left to do.
Disconnect(s) ==
    /\ s \in live
    /\ current[owner[s]] # s
    /\ live' = live \ {s}
    /\ \/ \E m \in Macs :
            /\ espDevices[m] = s
            /\ espDevices' = [espDevices EXCEPT ![m] = NoSocket]
            /\ Begin("leave", s, m, "flag")
       \/ /\ \A m \in Macs : espDevices[m] # s
          /\ UNCHANGED <<espDevices, tasks, disturbed>>
    /\ webClients' = [u \in Users |-> IF webClients[u] = s THEN NoSocket
                                                           ELSE webClients[u]]
    /\ UNCHANGED <<opened, owner, current, hello, last, device>>

\* autoLinkDevice's first query: a station that is the locker already is done
\* with it; register_device goes on to set isOnline.
Linked(t) == IF t.kind = "register" THEN Proceed(t, "flag") ELSE tasks' = tasks \ {t}

FindDevice(t) ==
    /\ t.step = "find"
    /\ IF macAddress = t.mac THEN Linked(t) ELSE Proceed(t, "load")
    /\ UNCHANGED <<sockets, registries, device, disturbed>>

\* Its other queries: both yield the only Device.
LoadDevice(t) ==
    /\ t.step = "load"
    /\ tasks' = (tasks \ {t}) \cup {[t EXCEPT !.step = "save", !.seen = macAddress]}
    /\ UNCHANGED <<sockets, registries, device, disturbed>>

\* save(), which writes nothing when the address is the one that was loaded.
SaveDevice(t) ==
    /\ t.step = "save"
    /\ macAddress' = IF t.seen = t.mac THEN macAddress ELSE t.mac
    /\ disturbed' = (disturbed \/ t.kind = "verify")
    /\ Linked(t)
    /\ UNCHANGED <<sockets, registries, isOnline>>

\* Seeded fault: the update is not restricted to the MAC address.
UpdateOnline_AnyDevice(t) ==
    /\ t.step = "flag"
    /\ isOnline' = (t.kind = "register")
    /\ tasks' = tasks \ {t}
    /\ UNCHANGED <<sockets, registries, macAddress, disturbed>>

\* Device.updateOne({ macAddress }, { isOnline }).
UpdateOnline(t) ==
    /\ t.step = "flag"
    /\ isOnline' = IF macAddress = t.mac THEN t.kind = "register" ELSE isOnline
    /\ tasks' = tasks \ {t}
    /\ UNCHANGED <<sockets, registries, macAddress, disturbed>>

Resume(t) == FindDevice(t) \/ LoadDevice(t) \/ SaveDevice(t) \/ UpdateOnline(t)

\* The server restarts with new seed data.
Restart ==
    /\ current' = [c \in Clients |-> NoSocket]
    /\ live' = {}
    /\ hello' = {}
    /\ espDevices' = [m \in Macs |-> NoSocket]
    /\ webClients' = [u \in Users |-> NoSocket]
    /\ last' = [k \in Macs \cup Users |-> NoSocket]
    /\ macAddress' = Null
    /\ isOnline' = FALSE
    /\ tasks' = {}
    /\ disturbed' = FALSE
    /\ UNCHANGED <<opened, owner>>

Next == \/ \E c \in Clients : Connect(c) \/ Lose(c)
        \/ \E s \in Sockets : RegisterDevice(s) \/ RegisterUser(s) \/ Disconnect(s)
        \/ \E m \in Verifiers : Verify(m)
        \/ \E t \in tasks : Resume(t)
        \/ Restart

Spec == Init /\ [][Next]_vars

-----------------------------------------------------------------------------
(* Correctness *)

\* Types; a registered socket is one the server has not seen disconnect.
TypeOK ==
    /\ opened \in 0 .. MaxSockets
    /\ owner \in [Sockets -> Clients \cup {Null}]
    /\ current \in [Clients -> 0 .. opened]
    /\ live \subseteq 1 .. opened
    /\ hello \subseteq live
    /\ espDevices \in [Macs -> live \cup {NoSocket}]
    /\ webClients \in [Users -> live \cup {NoSocket}]
    /\ last \in [Macs \cup Users -> 0 .. opened]
    /\ macAddress \in Macs \cup {Null}
    /\ isOnline \in BOOLEAN
    /\ tasks \subseteq Tasks
    /\ disturbed \in BOOLEAN

\* Pushes go to the socket that registered last for a station or a user, for as
\* long as the server takes it to be connected, and then to nobody: the late
\* disconnect of an older socket never removes the entry of a newer one
\* (index.js:599, 607), nor does an entry outlive its socket.
LastRegistrationWins ==
    LET reachable(k) == IF last[k] \in live THEN last[k] ELSE NoSocket
    IN  /\ \A m \in Macs  : espDevices[m] = reachable(m)
        /\ \A u \in Users : webClients[u] = reachable(u)

\* Once no handler is under way, isOnline says whether the station that is the
\* locker has a registered socket, provided that handlers have not overlapped
\* (index.js:581, 600) and no verify call has made another station the locker.
OnlineIsTrue ==
    tasks = {} /\ ~disturbed =>
        (isOnline <=> macAddress # Null /\ espDevices[macAddress] # NoSocket)

\* A station that has registered on its present connection is reached by pushes
\* until that connection goes, whatever its former sockets and their handlers
\* still do (index.js:579, 599).  That the server ever understands a registration
\* is not assumed: hello may keep it.
StationReachable ==
    \A m \in Macs :
        current[m] \notin hello \cup {NoSocket} => espDevices[m] = current[m]
=============================================================================
