----------------------------- MODULE WebClient ------------------------------
(***************************************************************************)
(* One browser tab of the web app (web-app/src), in a production build,    *)
(* and what it sees of the server: the session that AuthContext restores,  *)
(* validates and ends, axios' default Authorization header, the socket of  *)
(* SocketContext, and the Dashboard's list of orders.                      *)
(*                                                                         *)
(* An action is an event of the tab together with the React commit and the *)
(* effects that follow it; requests are answered, and answers arrive, in   *)
(* actions of their own.  React runs the effects of a commit from the      *)
(* leaves to the root: a Dashboard mounted by the commit that restores the *)
(* session fetches before AuthProvider has set the header.                 *)
(*                                                                         *)
(* The state of a user's orders is a version number.  user and token are   *)
(* always set together and are one variable, session; storage is the pair  *)
(* in localStorage.                                                        *)
(***************************************************************************)
EXTENDS Naturals

CONSTANTS
    Users,          \* ids of accounts
    Accounts,       \* those in the database at first
    MaxChanges,     \* bound on the changes to a user's orders
    FetchSlots,     \* slots of fetches under way: how many may overlap
    MaxPushes,      \* bound on the pushes under way
    Null

ASSUME ClientAssumption ==
    /\ Accounts \subseteq Users
    /\ MaxChanges \in Nat
    /\ FetchSlots # {}
    /\ MaxPushes \in Nat
    /\ Null \notin Users

VARIABLES
    accounts,       \* accounts in the server's database
    version,        \* state of each user's orders
    listener,       \* the user whose pushes come to this tab (webClients)
    pushes,         \* order_updated events on their way to it, or about to be
    storage, session, header,
    loading,        \* the spinner of ProtectedRoute
    page,           \* the route
    validation,     \* GET /api/auth/me of validateSession
    loginCall,      \* POST /api/auth/login
    acting,         \* POST of handleCancel or handlePickup
    fetches,        \* GET /api/orders under way
    list,           \* Dashboard's orders, and whose they are
    hasty,          \* history: a login was submitted during the validation
    missed          \* history: the list may have missed a change (see below)

serverVars == <<accounts, version>>
authVars   == <<storage, session, header, loading, validation, loginCall>>
vars       == <<serverVars, listener, pushes, authVars, page, acting, fetches,
                list, hasty, missed>>

Versions == 0 .. MaxChanges

\* A request about a user: not sent, sent, answered positively or not.
NoCall == [stage |-> "none", user |-> Null]
Calls  == [stage : {"sent", "ok", "refused"}, user : Users] \cup {NoCall}

\* A fetch: whose token it carries, the answer, and whether it was sent by the
\* commit that restored the session.
Fetches == [stage : {"none", "sent", "answered"}, as : Users \cup {Null},
            got : Versions, atRestore : BOOLEAN]

Fetch(h, atRestore) ==
    [stage |-> "sent", as |-> h, got |-> 0, atRestore |-> atRestore]

NoFetch == [stage |-> "none", as |-> Null, got |-> 0, atRestore |-> FALSE]

NoFetches == [i \in FetchSlots |-> NoFetch]

\* What becomes of a call when the server goes down.
Lost(call)  == IF call.stage = "sent" THEN [call EXCEPT !.stage = "refused"] ELSE call
Answered(i) == fetches[i].stage = "answered"

Empty == [user |-> Null, version |-> 0]

\* ProtectedRoute shows the Dashboard.
Mounted == page = "dashboard" /\ ~loading /\ session # Null

Init == /\ accounts = Accounts
        /\ version = [u \in Users |-> 0]
        /\ listener = Null
        /\ pushes = 0
        /\ storage = Null /\ session = Null /\ header = Null
        /\ loading = FALSE
        /\ page = "login"
        /\ validation = NoCall
        /\ loginCall = NoCall
        /\ acting = NoCall
        /\ fetches = NoFetches
        /\ list = Empty
        /\ hasty = FALSE
        /\ missed = FALSE

-----------------------------------------------------------------------------
(* Effects *)

\* Seeded fault: the effect of SocketProvider has no cleanup.
CloseSocket_NoCleanup == UNCHANGED <<listener, pushes>>

\* SocketProvider's effect on [user, token]: the old socket is closed, and with
\* it go the events that were on their way.
CloseSocket == listener' = Null /\ pushes' = 0

\* AuthProvider's effect on [token].
SetHeader(s) == header' = s

\* The Dashboard appears: an empty list and a first fetch.
Mount(h, atRestore) ==
    /\ list' = Empty
    /\ \E i \in FetchSlots :
          fetches' = [NoFetches EXCEPT ![i] = Fetch(h, atRestore)]
    /\ acting' = NoCall
    /\ missed' = FALSE

\* The Dashboard is gone; answers to it change nothing any more.
Unmount == /\ list' = Empty
           /\ fetches' = NoFetches
           /\ acting' = NoCall
           /\ missed' = FALSE

\* fetchOrders; alone under way, it will see every change made so far.
FetchOrders ==
    /\ \E i \in FetchSlots :
          /\ fetches[i] = NoFetch
          /\ fetches' = [fetches EXCEPT ![i] = Fetch(header, FALSE)]
    /\ missed' = (missed /\ fetches # NoFetches)

-----------------------------------------------------------------------------
(* Session *)

\* The page is loaded: the first effects of AuthProvider.
Load(p) ==
    /\ session' = Null /\ header' = Null
    /\ listener' = Null /\ pushes' = 0
    /\ loginCall' = NoCall
    /\ hasty' = FALSE
    /\ Unmount
    /\ IF storage = Null
       THEN loading' = FALSE /\ validation' = NoCall /\ page' = "login"
       ELSE /\ loading' = TRUE
            /\ validation' = [stage |-> "sent", user |-> storage]
            /\ page' = p
    /\ UNCHANGED <<serverVars, storage>>

\* GET /api/auth/me: the token is good for as long as the account exists; or the
\* request fails.
AnswerValidation ==
    /\ validation.stage = "sent"
    /\ \E stage \in {"ok", "refused"} :
          /\ stage = "ok" => validation.user \in accounts
          /\ validation' = [validation EXCEPT !.stage = stage]
    /\ UNCHANGED <<serverVars, listener, pushes, storage, session, header, loading,
                   loginCall, page, acting, fetches, list, hasty, missed>>

\* Seeded fault: a session that could not be validated is kept.
ValidateSession_KeepStorage ==
    LET s == IF validation.stage = "ok" THEN validation.user ELSE session IN
    /\ validation.stage \in {"ok", "refused"}
    /\ validation' = NoCall
    /\ session' = s
    /\ loading' = FALSE
    /\ IF validation.stage = "ok" THEN CloseSocket ELSE UNCHANGED <<listener, pushes>>
    /\ SetHeader(s)
    /\ page' = IF s = Null THEN "login"
               ELSE IF page = "login" THEN "dashboard" ELSE page
    /\ IF page' = "dashboard"
       THEN Mount(IF page = "login" THEN s ELSE header, page # "login")
       ELSE UNCHANGED <<list, fetches, acting, missed>>
    /\ UNCHANGED <<serverVars, storage, loginCall, hasty>>

\* The rest of validateSession.  On the login page the new session makes Login
\* navigate, and the Dashboard comes with a later commit.
ValidateSession ==
    LET s == IF validation.stage = "ok" THEN validation.user ELSE session IN
    /\ validation.stage \in {"ok", "refused"}
    /\ validation' = NoCall
    /\ storage' = IF validation.stage = "ok" THEN storage ELSE Null
    /\ session' = s
    /\ loading' = FALSE
    /\ IF validation.stage = "ok" THEN CloseSocket ELSE UNCHANGED <<listener, pushes>>
    /\ SetHeader(s)
    /\ page' = IF s = Null THEN "login"
               ELSE IF page = "login" THEN "dashboard" ELSE page
    /\ IF page' = "dashboard"
       THEN Mount(IF page = "login" THEN s ELSE header, page # "login")
       ELSE UNCHANGED <<list, fetches, acting, missed>>
    /\ UNCHANGED <<serverVars, loginCall, hasty>>

\* The form of Login, with a password the server will accept.
SubmitLogin(u) ==
    /\ page = "login" /\ session = Null
    /\ loginCall = NoCall
    /\ u \in accounts
    /\ loginCall' = [stage |-> "sent", user |-> u]
    /\ hasty' = (hasty \/ loading)
    /\ UNCHANGED <<serverVars, listener, pushes, storage, session, header, loading,
                   validation, page, acting, fetches, list, missed>>

AnswerLogin ==
    /\ loginCall.stage = "sent"
    /\ \E stage \in {"ok", "refused"} :
          /\ stage = "ok" => loginCall.user \in accounts
          /\ loginCall' = [loginCall EXCEPT !.stage = stage]
    /\ UNCHANGED <<serverVars, listener, pushes, storage, session, header, loading,
                   validation, page, acting, fetches, list, hasty, missed>>

\* Seeded fault: the effect sets the header when the page is loaded only.
Login_NoHeader ==
    LET u == loginCall.user IN
    /\ loginCall.stage = "ok"
    /\ loginCall' = NoCall
    /\ session' = u /\ storage' = u
    /\ CloseSocket
    /\ page' = "dashboard"
    /\ IF loading \/ Mounted THEN UNCHANGED <<list, fetches, acting, missed>>
                             ELSE Mount(header, FALSE)
    /\ UNCHANGED <<serverVars, header, loading, validation, hasty>>

\* The rest of login() and of handleSubmit; the spinner stays while a validation
\* is under way.
Login ==
    LET u == loginCall.user IN
    /\ loginCall.stage = "ok"
    /\ loginCall' = NoCall
    /\ session' = u /\ storage' = u
    /\ CloseSocket
    /\ SetHeader(u)
    /\ page' = "dashboard"
    /\ IF loading \/ Mounted THEN UNCHANGED <<list, fetches, acting, missed>>
                             ELSE Mount(u, FALSE)
    /\ UNCHANGED <<serverVars, loading, validation, hasty>>

LoginFailed ==
    /\ loginCall.stage = "refused"
    /\ loginCall' = NoCall
    /\ UNCHANGED <<serverVars, listener, pushes, storage, session, header, loading,
                   validation, page, acting, fetches, list, hasty, missed>>

\* Seeded fault: the saved session is left behind.
Logout_KeepStorage ==
    /\ session # Null
    /\ session' = Null /\ header' = Null
    /\ CloseSocket
    /\ page' = "login"
    /\ Unmount
    /\ UNCHANGED <<serverVars, storage, loading, validation, loginCall, hasty>>

Logout ==
    /\ session # Null
    /\ session' = Null /\ storage' = Null /\ header' = Null
    /\ CloseSocket
    /\ page' = "login"
    /\ Unmount
    /\ UNCHANGED <<serverVars, loading, validation, loginCall, hasty>>

\* The user follows a link or the browser's history.  (Back on the login page, a
\* logged-in user sees nothing: the navigate() of a first render is ignored.)
Navigate(p) ==
    /\ session # Null
    /\ page # p
    /\ page' = p
    /\ IF p = "dashboard" /\ ~loading THEN Mount(header, FALSE) ELSE Unmount
    /\ UNCHANGED <<serverVars, listener, pushes, authVars, hasty>>

-----------------------------------------------------------------------------
(* Orders *)

\* A user's orders change; notifyWebClient tells the tab if it listens for them.
Changed(u, pushed) ==
    /\ version[u] < MaxChanges
    /\ version' = [version EXCEPT ![u] = version[u] + 1]
    /\ IF pushed /\ listener = u /\ pushes < MaxPushes
       THEN pushes' = pushes + 1 /\ UNCHANGED missed
       ELSE UNCHANGED pushes /\ missed' = (missed \/ Mounted)

\* By the station, with a push; or by an order created in Checkout or in another
\* tab, without one.
Elsewhere(u, pushed) ==
    /\ Changed(u, pushed)
    /\ UNCHANGED <<accounts, listener, authVars, page, acting, fetches, list, hasty>>

\* handleCancel, handlePickup: the request is served ...
Act == /\ Mounted
       /\ acting = NoCall
       /\ header # Null
       /\ Changed(header, TRUE)
       /\ \E stage \in {"ok", "refused"} :
             acting' = [stage |-> stage, user |-> header]
       /\ UNCHANGED <<accounts, listener, authVars, page, fetches, list, hasty>>

\* ... and its answer makes the Dashboard fetch, unless it is lost.
ActDone ==
    /\ acting # NoCall
    /\ acting' = NoCall
    /\ IF acting.stage = "ok" THEN FetchOrders ELSE UNCHANGED <<fetches, missed>>
    /\ UNCHANGED <<serverVars, listener, pushes, authVars, page, list, hasty>>

\* The refresh button.
Refresh ==
    /\ Mounted
    /\ FetchOrders
    /\ UNCHANGED <<serverVars, listener, pushes, authVars, page, acting, list, hasty>>

\* SocketContext's socket connects (again) and registers the user.
RegisterUser ==
    /\ session # Null
    /\ listener = Null
    /\ listener' = session
    /\ UNCHANGED <<serverVars, pushes, authVars, page, acting, fetches, list, hasty,
                   missed>>

SocketLost ==
    /\ listener # Null
    /\ listener' = Null
    /\ pushes' = 0
    /\ missed' = (missed \/ (Mounted /\ pushes > 0))
    /\ UNCHANGED <<serverVars, authVars, page, acting, fetches, list, hasty>>

\* Seeded fault: the Dashboard does not listen for the event.
OrderUpdated_Ignored ==
    /\ pushes > 0
    /\ pushes' = pushes - 1
    /\ UNCHANGED <<serverVars, listener, authVars, page, acting, fetches, list, hasty,
                   missed>>

\* order_updated arrives; the Dashboard, if there is one, fetches.
OrderUpdated ==
    /\ pushes > 0
    /\ pushes' = pushes - 1
    /\ IF Mounted THEN FetchOrders ELSE UNCHANGED <<fetches, missed>>
    /\ UNCHANGED <<serverVars, listener, authVars, page, acting, list, hasty>>

\* Seeded fault: the query leaves out the user.
GetOrders_AnyUser(i) ==
    /\ fetches[i].stage = "sent"
    /\ fetches[i].as # Null
    /\ \E u \in Users :
          fetches' = [fetches EXCEPT ![i].stage = "answered", ![i].as = u,
                                     ![i].got = version[u]]
    /\ UNCHANGED <<serverVars, listener, pushes, authVars, page, acting, list, hasty,
                   missed>>

\* GET /api/orders is served with the orders of the token's user.  An answer may
\* be passed by a newer one from here on.
GetOrders(i) ==
    /\ fetches[i].stage = "sent"
    /\ fetches[i].as # Null
    /\ fetches' = [fetches EXCEPT ![i].stage = "answered",
                                  ![i].got = version[fetches[i].as]]
    /\ missed' = (missed \/ \E j \in FetchSlots :
                               Answered(j) /\ fetches[j].got # fetches'[i].got)
    /\ UNCHANGED <<serverVars, listener, pushes, authVars, page, acting, list, hasty>>

\* Its answer arrives.
SetOrders(i) ==
    /\ Answered(i)
    /\ list' = [user |-> fetches[i].as, version |-> fetches[i].got]
    /\ fetches' = [fetches EXCEPT ![i] = NoFetch]
    /\ UNCHANGED <<serverVars, listener, pushes, authVars, page, acting, hasty, missed>>

\* The fetch fails: without a token in any case, or on the way.
FetchFailed(i) ==
    /\ fetches[i] # NoFetch
    /\ fetches' = [fetches EXCEPT ![i] = NoFetch]
    /\ missed' = TRUE
    /\ UNCHANGED <<serverVars, listener, pushes, authVars, page, acting, list, hasty>>

\* The server restarts with other accounts (the sample ones get new ids), no
\* orders and the same secret for the tokens; the calls it had not answered fail.
ServerRestart ==
    /\ accounts = Accounts
    /\ accounts' = Users \ Accounts
    /\ \A u \in Users : version[u] < MaxChanges
    /\ version' = [u \in Users |-> version[u] + 1]
    /\ listener' = Null
    /\ pushes' = 0
    /\ missed' = (missed \/ Mounted)
    /\ validation' = Lost(validation)
    /\ loginCall' = Lost(loginCall)
    /\ fetches' = [i \in FetchSlots |-> IF Answered(i) THEN fetches[i] ELSE NoFetch]
    /\ UNCHANGED <<storage, session, header, loading, page, acting, list, hasty>>

Next == \/ \E p \in {"login", "dashboard", "checkout"} : Load(p) \/ Navigate(p)
        \/ AnswerValidation \/ ValidateSession
        \/ \E u \in Users : SubmitLogin(u)
        \/ AnswerLogin \/ Login \/ LoginFailed \/ Logout
        \/ \E u \in Users, pushed \in BOOLEAN : Elsewhere(u, pushed)
        \/ Act \/ ActDone \/ Refresh
        \/ RegisterUser \/ SocketLost \/ OrderUpdated
        \/ \E i \in FetchSlots : GetOrders(i) \/ SetOrders(i) \/ FetchFailed(i)
        \/ ServerRestart

Spec == Init /\ [][Next]_vars

-----------------------------------------------------------------------------
(* Correctness *)

TypeOK == /\ accounts \in SUBSET Users
          /\ version \in [Users -> Versions]
          /\ listener \in {session, Null}
          /\ pushes \in 0 .. MaxPushes
          /\ {storage, session, header} \subseteq Users \cup {Null}
          /\ loading = (validation # NoCall)
          /\ page \in {"login", "dashboard", "checkout"}
          /\ page # "login" => loading \/ session # Null
          /\ {validation, loginCall, acting} \subseteq Calls
          /\ fetches \in [FetchSlots -> Fetches]
          /\ list \in [user : Users \cup {Null}, version : Versions]
          /\ {hasty, missed} \subseteq BOOLEAN
          /\ ~Mounted => list = Empty /\ fetches = NoFetches /\ acting = NoCall

\* A page load finds the session the tab had: once the saved session has been
\* validated, what is in localStorage is the session of the tab (logout and a
\* failed validation clear both, login() sets both).  A login submitted while the
\* validation is under way breaks this (AuthContext.jsx:23 and :27).
StorageIsSession == ~loading /\ ~hasty => storage = session

\* The list shown is that of the user who is logged in, through logouts, logins
\* as another user and answers that come late, unless a login was submitted while
\* the saved session was being validated.  In that case the code does show a user
\* the orders of another: the validation restores the saved session, the Dashboard
\* fetches, and the login's answer replaces the user without a new fetch
\* (AuthContext.jsx:23, 46-53).
ShownIsOwn == ~hasty /\ list # Empty => list.user = session

\* Requests for the orders carry the token of the user who is logged in, but for
\* the one sent by the commit that restores the session, before AuthProvider's
\* effect has set the header (AuthContext.jsx:38, Dashboard.jsx:33), and unless a
\* login was submitted while the saved session was being validated.
RequestsCarryToken ==
    \A i \in FetchSlots : fetches[i] # NoFetch =>
        fetches[i].as = session \/ fetches[i].atRestore \/ hasty

\* When nothing is under way the list is the server's, although changes, pushes,
\* the tab's own requests and the refresh button all start fetches of their own;
\* unless a change was not pushed to this tab, a fetch failed, the answer of a
\* fetch could be passed by another one (Dashboard.jsx:24), or a login was
\* submitted while the saved session was being validated.
ListIsServers ==
    Mounted /\ fetches = NoFetches /\ pushes = 0 /\ acting = NoCall /\ ~missed /\ ~hasty
        => list = [user |-> session, version |-> version[session]]

=============================================================================
