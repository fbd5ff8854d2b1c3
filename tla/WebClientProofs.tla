--------------------------- MODULE WebClientProofs ---------------------------
(***************************************************************************)
(* Theorems about WebClient, for any number of users, changes, fetches and *)
(* pushes under way.                                                       *)
(***************************************************************************)
EXTENDS WebClient, TLAPS

-----------------------------------------------------------------------------
(* The invariant *)

\* What localStorage, header and session have to do with each other, before and
\* after the saved session has been validated.
SessionInv ==
    ~hasty =>
        /\ loading => /\ session = Null /\ header = Null
                      /\ storage = validation.user
                      /\ loginCall = NoCall
        /\ ~loading => /\ storage = session /\ header = session
                       /\ loginCall # NoCall => session = Null

\* A fetch carries the user's token, or none; only the former is answered.
FetchInv ==
    /\ \A i \in FetchSlots : fetches[i].stage = "none" => fetches[i] = NoFetch
    /\ ~hasty => \A i \in FetchSlots :
          /\ Answered(i) => fetches[i].as = session /\ session # Null
          /\ fetches[i].stage = "sent" =>
                \/ fetches[i].as = session
                \/ fetches[i].as = Null /\ fetches[i].atRestore

Sent(i) == fetches[i].stage = "sent"

\* All answers under way are the same.
SameAnswers ==
    \A i, j \in FetchSlots :
        Answered(i) /\ Answered(j) => fetches[i].got = fetches[j].got

\* The list is the server's, or will be.
Covered ==
    \/ pushes > 0
    \/ \E i \in FetchSlots : Sent(i)
    \/ /\ \A i \in FetchSlots :
             Answered(i) => fetches[i].got = version[session]
       /\ \/ \E i \in FetchSlots : Answered(i)
          \/ list = [user |-> session, version |-> version[session]]

ListInv == Mounted /\ ~missed /\ ~hasty => SameAnswers /\ Covered

ClientInv == TypeOK /\ SessionInv /\ FetchInv /\ ShownIsOwn /\ ListInv

-----------------------------------------------------------------------------
(* Types *)

\* Each variable has its type ...
DataOK ==
    /\ accounts \in SUBSET Users
    /\ version \in [Users -> Versions]
    /\ pushes \in 0 .. MaxPushes
    /\ storage \in Users \cup {Null} /\ session \in Users \cup {Null}
    /\ header \in Users \cup {Null}
    /\ page \in {"login", "dashboard", "checkout"}
    /\ validation \in Calls /\ loginCall \in Calls /\ acting \in Calls
    /\ fetches \in [FetchSlots -> Fetches]
    /\ list \in [user : Users \cup {Null}, version : Versions]
    /\ hasty \in BOOLEAN /\ missed \in BOOLEAN /\ loading \in BOOLEAN

\* ... and what is shown, listened to and waited for goes together.
ViewOK ==
    /\ listener \in {session, Null}
    /\ loading <=> validation # NoCall
    /\ page # "login" => loading \/ session # Null
    /\ ~Mounted => list = Empty /\ fetches = NoFetches /\ acting = NoCall

LEMMA Parts == TypeOK <=> DataOK /\ ViewOK
  BY DEF TypeOK, DataOK, ViewOK

LEMMA PartsPrimed ==
    ASSUME DataOK', ViewOK'
    PROVE  TypeOK'
  BY DEF TypeOK, DataOK, ViewOK

LEMMA Constants ==
    /\ NoCall \in Calls
    /\ Empty \in [user : Users \cup {Null}, version : Versions]
    /\ NoFetches \in [FetchSlots -> Fetches]
    /\ NoFetch \in Fetches
    /\ 0 \in Versions /\ 0 \in 0 .. MaxPushes
    /\ \A n \in 0 .. MaxPushes : (n < MaxPushes => n + 1 \in 0 .. MaxPushes)
                                /\ (n > 0 => n - 1 \in 0 .. MaxPushes)
    /\ \A n \in Versions : n < MaxChanges => n + 1 \in Versions
    /\ \A h \in Users \cup {Null}, b \in BOOLEAN : Fetch(h, b) \in Fetches
    /\ \A c \in Calls : Lost(c) \in Calls
  BY ClientAssumption
     DEF NoCall, Calls, Empty, NoFetches, NoFetch, Fetches, Fetch, Lost,
     Versions

LEMMA InitType == Init => TypeOK
<1> SUFFICES ASSUME Init PROVE DataOK /\ ViewOK
  BY Parts
<1>1. DataOK
  BY Constants, ClientAssumption DEF Init, DataOK
<1>2. ViewOK
  BY DEF Init, ViewOK, Mounted
<1> QED
  BY <1>1, <1>2

\* The answer to a call.
LEMMA CallStage ==
    ASSUME NEW call \in Calls, call.stage # "none",
           NEW stage \in {"sent", "ok", "refused"}
    PROVE  /\ [call EXCEPT !.stage = stage] \in Calls
           /\ [call EXCEPT !.stage = stage] # NoCall
  BY DEF Calls, NoCall

LEMMA CallType ==
    ASSUME NEW u \in Users, NEW stage \in {"sent", "ok", "refused"}
    PROVE  /\ [stage |-> stage, user |-> u] \in Calls
           /\ [stage |-> stage, user |-> u] # NoCall
  BY DEF Calls, NoCall

LEMMA CallUser ==
    ASSUME NEW call \in Calls
    PROVE  /\ call.user \in Users \cup {Null}
           /\ call.stage # "none" => call # NoCall /\ call.user \in Users
           /\ Lost(call) = NoCall <=> call = NoCall
  BY DEF Calls, NoCall, Lost

\* A new Dashboard, no Dashboard, and one more fetch.
LEMMA MountType ==
    ASSUME NEW h \in Users \cup {Null}, NEW b \in BOOLEAN, Mount(h, b)
    PROVE  /\ fetches' \in [FetchSlots -> Fetches]
           /\ list' = Empty /\ acting' = NoCall /\ missed' = FALSE
  BY Constants DEF Mount

LEMMA FetchOrdersType ==
    ASSUME DataOK, FetchOrders
    PROVE  fetches' \in [FetchSlots -> Fetches] /\ missed' \in BOOLEAN
  BY Constants DEF DataOK, FetchOrders

\* Only the Dashboard fetches.
LEMMA SlotInUse ==
    ASSUME ViewOK, NEW i \in FetchSlots, fetches[i] # NoFetch
    PROVE  Mounted
  BY DEF ViewOK, NoFetches

LEMMA NextType == TypeOK /\ [Next]_vars => TypeOK'
<1> SUFFICES ASSUME DataOK, ViewOK, [Next]_vars PROVE DataOK' /\ ViewOK'
  BY Parts, PartsPrimed
<1> USE DEF vars, serverVars, authVars
<1>1. ASSUME NEW p \in {"login", "dashboard", "checkout"}, Load(p)
      PROVE  DataOK' /\ ViewOK'
  <2>1. DataOK'
    BY <1>1, Constants, CallType DEF DataOK, Load, Unmount
  <2>2. ViewOK'
    BY <1>1, CallType DEF DataOK, ViewOK, Mounted, Load, Unmount
  <2> QED
    BY <2>1, <2>2
<1>2. ASSUME AnswerValidation
      PROVE  DataOK' /\ ViewOK'
  <2>1. DataOK'
    BY <1>2, CallStage DEF DataOK, AnswerValidation
  <2>2. ViewOK'
    BY <1>2, CallStage, CallUser DEF DataOK, ViewOK, Mounted, AnswerValidation
  <2> QED
    BY <2>1, <2>2
<1>3. ASSUME ValidateSession
      PROVE  DataOK' /\ ViewOK'
  <2>1. DataOK'
    BY <1>3, Constants, CallUser, MountType
       DEF DataOK, ValidateSession, CloseSocket, SetHeader
  <2>2. ViewOK'
    BY <1>3, CallUser, MountType
       DEF DataOK, ViewOK, Mounted, ValidateSession, CloseSocket, SetHeader
  <2> QED
    BY <2>1, <2>2
<1>4. ASSUME NEW u \in Users, SubmitLogin(u)
      PROVE  DataOK' /\ ViewOK'
  <2>1. DataOK'
    BY <1>4, CallType DEF DataOK, SubmitLogin
  <2>2. ViewOK'
    BY <1>4 DEF ViewOK, Mounted, SubmitLogin
  <2> QED
    BY <2>1, <2>2
<1>5. ASSUME AnswerLogin
      PROVE  DataOK' /\ ViewOK'
  <2>1. DataOK'
    BY <1>5, CallStage DEF DataOK, AnswerLogin
  <2>2. ViewOK'
    BY <1>5 DEF ViewOK, Mounted, AnswerLogin
  <2> QED
    BY <2>1, <2>2
<1>6. ASSUME Login
      PROVE  DataOK' /\ ViewOK'
  <2>1. DataOK'
    BY <1>6, Constants, CallUser, MountType DEF DataOK, Login, CloseSocket, SetHeader
  <2>2. ViewOK'
    BY <1>6, CallUser, MountType, ClientAssumption
       DEF DataOK, ViewOK, Mounted, Login, CloseSocket, SetHeader
  <2> QED
    BY <2>1, <2>2
<1>7. ASSUME LoginFailed
      PROVE  DataOK' /\ ViewOK'
  <2>1. DataOK'
    BY <1>7, Constants, ClientAssumption DEF DataOK, LoginFailed
  <2>2. ViewOK'
    BY <1>7 DEF DataOK, ViewOK, Mounted, LoginFailed
  <2> QED
    BY <2>1, <2>2
<1>8. ASSUME Logout
      PROVE  DataOK' /\ ViewOK'
  <2>1. DataOK'
    BY <1>8, Constants DEF DataOK, Logout, CloseSocket, Unmount
  <2>2. ViewOK'
    BY <1>8 DEF DataOK, ViewOK, Mounted, Logout, CloseSocket, Unmount
  <2> QED
    BY <2>1, <2>2
<1>9. ASSUME NEW p \in {"login", "dashboard", "checkout"}, Navigate(p)
      PROVE  DataOK' /\ ViewOK'
  <2>1. DataOK'
    BY <1>9, Constants, ClientAssumption DEF DataOK, Navigate, Mount, Unmount
  <2>2. ViewOK'
    BY <1>9 DEF DataOK, ViewOK, Mounted, Navigate, Mount, Unmount
  <2> QED
    BY <2>1, <2>2
<1>10. ASSUME NEW u \in Users, NEW pushed \in BOOLEAN, Elsewhere(u, pushed)
      PROVE  DataOK' /\ ViewOK'
  <2>1. DataOK'
    BY <1>10, Constants DEF DataOK, Elsewhere, Changed
  <2>2. ViewOK'
    BY <1>10 DEF DataOK, ViewOK, Mounted, Elsewhere, Changed, Versions
  <2> QED
    BY <2>1, <2>2
<1>11. ASSUME Act
      PROVE  DataOK' /\ ViewOK'
  <2>1. DataOK'
    BY <1>11, Constants, CallType DEF DataOK, Act, Changed
  <2>2. ViewOK'
    BY <1>11 DEF DataOK, ViewOK, Mounted, Act, Changed, Versions, Calls
  <2> QED
    BY <2>1, <2>2
<1>12. ASSUME ActDone
      PROVE  DataOK' /\ ViewOK'
  <2>1. DataOK'
    BY <1>12, Constants, ClientAssumption DEF DataOK, ActDone, FetchOrders
  <2>2. ViewOK'
    BY <1>12 DEF DataOK, ViewOK, Mounted, ActDone, FetchOrders
  <2> QED
    BY <2>1, <2>2
<1>13. ASSUME Refresh
      PROVE  DataOK' /\ ViewOK'
  <2>1. DataOK'
    BY <1>13, Constants, ClientAssumption DEF DataOK, Refresh, FetchOrders
  <2>2. ViewOK'
    BY <1>13 DEF DataOK, ViewOK, Mounted, Refresh, FetchOrders
  <2> QED
    BY <2>1, <2>2
<1>14. ASSUME RegisterUser
      PROVE  DataOK' /\ ViewOK'
  <2>1. DataOK'
    BY <1>14, Constants, ClientAssumption DEF DataOK, RegisterUser
  <2>2. ViewOK'
    BY <1>14 DEF DataOK, ViewOK, Mounted, RegisterUser
  <2> QED
    BY <2>1, <2>2
<1>15. ASSUME SocketLost
      PROVE  DataOK' /\ ViewOK'
  <2>1. DataOK'
    BY <1>15, Constants, ClientAssumption DEF DataOK, SocketLost
  <2>2. ViewOK'
    BY <1>15 DEF DataOK, ViewOK, Mounted, SocketLost
  <2> QED
    BY <2>1, <2>2
<1>16. ASSUME OrderUpdated
      PROVE  DataOK' /\ ViewOK'
  <2>1. DataOK'
    BY <1>16, Constants, FetchOrdersType DEF DataOK, OrderUpdated
  <2>2. ViewOK'
    BY <1>16 DEF DataOK, ViewOK, Mounted, OrderUpdated, FetchOrders
  <2> QED
    BY <2>1, <2>2
<1>17. ASSUME NEW i \in FetchSlots, GetOrders(i)
      PROVE  DataOK' /\ ViewOK'
  <2>1. DataOK'
    BY <1>17 DEF DataOK, GetOrders, Fetches
  <2>2. ViewOK'
    BY <1>17, SlotInUse DEF ViewOK, Mounted, GetOrders, NoFetch
  <2> QED
    BY <2>1, <2>2
<1>18. ASSUME NEW i \in FetchSlots, SetOrders(i)
      PROVE  DataOK' /\ ViewOK'
  <2>1. DataOK'
    BY <1>18, Constants, ClientAssumption DEF DataOK, SetOrders, Fetches, NoFetches
  <2>2. ViewOK'
    BY <1>18, SlotInUse DEF ViewOK, Mounted, SetOrders, Answered, NoFetch
  <2> QED
    BY <2>1, <2>2
<1>19. ASSUME NEW i \in FetchSlots, FetchFailed(i)
      PROVE  DataOK' /\ ViewOK'
  <2>1. DataOK'
    BY <1>19, Constants, ClientAssumption DEF DataOK, FetchFailed
  <2>2. ViewOK'
    BY <1>19, SlotInUse DEF ViewOK, Mounted, FetchFailed
  <2> QED
    BY <2>1, <2>2
<1>20. ASSUME ServerRestart
      PROVE  DataOK' /\ ViewOK'
  <2>1. DataOK'
    BY <1>20, Constants, ClientAssumption DEF DataOK, ServerRestart, Versions
  <2>2. ViewOK'
    BY <1>20, CallUser
       DEF DataOK, ViewOK, Mounted, ServerRestart, NoFetches, NoFetch, Answered
  <2> QED
    BY <2>1, <2>2
<1>21. CASE UNCHANGED vars
  BY <1>21 DEF DataOK, ViewOK, Mounted
<1> QED
  BY <1>1, <1>2, <1>3, <1>4, <1>5, <1>6, <1>7, <1>8, <1>9, <1>10, <1>11, <1>12, <1>13,
     <1>14, <1>15, <1>16, <1>17, <1>18, <1>19, <1>20, <1>21 DEF Next

-----------------------------------------------------------------------------
(* The session *)

\* The steps that do not concern the session.
LEMMA SessionSteps ==
    ASSUME [Next]_vars
    PROVE  \/ UNCHANGED <<authVars, hasty>>
           \/ \E p \in {"login", "dashboard", "checkout"} : Load(p)
           \/ AnswerValidation \/ ValidateSession
           \/ \E u \in Users : SubmitLogin(u)
           \/ AnswerLogin \/ Login \/ LoginFailed \/ Logout
           \/ ServerRestart
  BY DEF Next, vars, Navigate, Elsewhere, Act, ActDone, Refresh, RegisterUser,
     SocketLost,
     OrderUpdated, GetOrders, SetOrders, FetchFailed

LEMMA NextSession ==
    ASSUME DataOK, ViewOK, SessionInv, [Next]_vars
    PROVE  SessionInv'
<1> USE DEF authVars, SessionInv
<1>1. CASE UNCHANGED <<authVars, hasty>>
  BY <1>1
<1>2. ASSUME NEW p, Load(p)
      PROVE  SessionInv'
  BY <1>2, CallType DEF DataOK, Load
<1>3. CASE AnswerValidation
  BY <1>3, CallStage DEF DataOK, AnswerValidation
<1>4. CASE ValidateSession
  BY <1>4, CallUser DEF DataOK, ViewOK, ValidateSession, SetHeader
<1>5. ASSUME NEW u \in Users, SubmitLogin(u)
      PROVE  SessionInv'
  BY <1>5 DEF DataOK, SubmitLogin
<1>6. CASE AnswerLogin
  BY <1>6, CallUser DEF DataOK, AnswerLogin
<1>7. CASE Login
  BY <1>7, CallUser DEF DataOK, Login, SetHeader
<1>8. CASE LoginFailed
  BY <1>8 DEF LoginFailed
<1>9. CASE Logout
  BY <1>9 DEF Logout
<1>10. CASE ServerRestart
  BY <1>10, CallUser DEF DataOK, ServerRestart, Lost
<1> QED
  BY <1>1, <1>2, <1>3, <1>4, <1>5, <1>6, <1>7, <1>8, <1>9, <1>10, SessionSteps

-----------------------------------------------------------------------------
(* Fetches *)

\* The slots after the steps that all kinds of events have in common.
LEMMA MountSlots ==
    ASSUME NEW h, NEW b, Mount(h, b)
    PROVE  \E i \in FetchSlots :
              /\ fetches'[i] = Fetch(h, b)
              /\ \A j \in FetchSlots \ {i} : fetches'[j] = NoFetch
  BY DEF Mount, NoFetches

LEMMA FetchOrdersSlots ==
    ASSUME DataOK, FetchOrders
    PROVE  \E i \in FetchSlots :
              /\ fetches[i] = NoFetch
              /\ fetches'[i] = Fetch(header, FALSE)
              /\ \A j \in FetchSlots \ {i} : fetches'[j] = fetches[j]
  BY DEF DataOK, FetchOrders

LEMMA Stages ==
    /\ NoFetch.stage = "none"
    /\ \A h, b : /\ Fetch(h, b).stage = "sent"
                 /\ Fetch(h, b).as = h /\ Fetch(h, b).atRestore = b
  BY DEF NoFetch, Fetch

LEMMA MountFetchInv ==
    ASSUME NEW h, NEW b, Mount(h, b), ~hasty' => h = session' \/ (h = Null /\ b)
    PROVE  FetchInv'
  BY MountSlots, Stages DEF FetchInv, Answered

LEMMA NoFetchInv ==
    ASSUME fetches' = NoFetches
    PROVE  FetchInv'
  BY Stages DEF FetchInv, NoFetches, Answered

LEMMA FetchOrdersFetchInv ==
    ASSUME DataOK, SessionInv, FetchInv, Mounted, FetchOrders,
           UNCHANGED <<session, hasty>>
    PROVE  FetchInv'
<1>1. ~hasty => header = session
  BY DEF SessionInv, Mounted
<1>2. PICK i \in FetchSlots :
          /\ fetches'[i] = Fetch(header, FALSE)
          /\ \A j \in FetchSlots \ {i} : fetches'[j] = fetches[j]
  BY FetchOrdersSlots
<1>3. /\ fetches'[i].stage = "sent"
      /\ ~hasty => fetches'[i].as = session
  BY <1>1, <1>2 DEF Fetch
<1> QED
  BY <1>2, <1>3 DEF FetchInv, Answered

\* One slot is given another value.
LEMMA OneSlotFetchInv ==
    ASSUME DataOK, FetchInv, UNCHANGED <<session, hasty>>,
           NEW i \in FetchSlots, NEW f, fetches' = [fetches EXCEPT ![i] = f],
           f.stage = "none" => f = NoFetch,
           f.stage # "sent",
           ~hasty /\ f.stage = "answered" => f.as = session /\ session # Null
    PROVE  FetchInv'
<1>1. fetches'[i] = f /\ \A j \in FetchSlots \ {i} : fetches'[j] = fetches[j]
  BY DEF DataOK
<1> QED
  BY <1>1 DEF FetchInv, Answered

LEMMA NextFetch ==
    ASSUME DataOK, ViewOK, SessionInv, FetchInv, [Next]_vars
    PROVE  FetchInv'
<1>1. CASE UNCHANGED <<fetches, session>> /\ (hasty => hasty')
  BY <1>1 DEF FetchInv, Answered
<1>2. CASE fetches' = NoFetches
  BY <1>2, NoFetchInv
<1>3. CASE ValidateSession
  <2>1. CASE fetches' = fetches
    <3>1. fetches = NoFetches
      BY <1>3, CallUser DEF DataOK, ViewOK, Mounted, ValidateSession
    <3> QED
      BY <2>1, <3>1, NoFetchInv
  <2>2. CASE fetches' # fetches
    BY <1>3, <2>2, MountFetchInv, CallUser
       DEF DataOK, ViewOK, SessionInv, ValidateSession
  <2> QED
    BY <2>1, <2>2
<1>4. CASE Login
  <2>1. CASE loading \/ Mounted
    <3>1. hasty \/ (~loading /\ session = Null)
      BY <1>4, CallUser DEF DataOK, SessionInv, Login
    <3>2. hasty' /\ fetches' = fetches
      BY <1>4, <2>1, <3>1 DEF Login, Mounted, DataOK
    <3> QED
      BY <3>2 DEF FetchInv
  <2>2. CASE ~(loading \/ Mounted)
    BY <1>4, <2>2, MountFetchInv DEF Login
  <2> QED
    BY <2>1, <2>2
<1>5. ASSUME NEW p, Navigate(p), fetches' # NoFetches
      PROVE  FetchInv'
  BY <1>5, MountFetchInv DEF Navigate, Unmount, authVars, SessionInv
<1>6. CASE ActDone \/ Refresh \/ OrderUpdated
  <2>1. CASE FetchOrders /\ Mounted
    BY <1>6, <2>1, FetchOrdersFetchInv DEF ActDone, Refresh, OrderUpdated, authVars
  <2>2. CASE UNCHANGED fetches
    BY <1>1, <1>6, <2>2 DEF ActDone, Refresh, OrderUpdated, authVars
  <2> QED
    BY <1>6, <2>1, <2>2 DEF ActDone, Refresh, OrderUpdated, ViewOK
<1>7. ASSUME NEW i \in FetchSlots, GetOrders(i)
      PROVE  FetchInv'
  <2>1. PICK f : f = [fetches[i] EXCEPT !.stage = "answered",
                                        !.got = version[fetches[i].as]]
    OBVIOUS
  <2>2. fetches' = [fetches EXCEPT ![i] = f]
    BY <1>7, <2>1 DEF GetOrders, DataOK, Fetches
  <2>3. f.stage = "answered" /\ f.as = fetches[i].as /\ f.as # Null
    BY <1>7, <2>1 DEF GetOrders, DataOK, Fetches
  <2> QED
    BY <1>7, <2>2, <2>3, OneSlotFetchInv DEF GetOrders, authVars, FetchInv
<1>8. ASSUME NEW i \in FetchSlots, SetOrders(i) \/ FetchFailed(i)
      PROVE  FetchInv'
  BY <1>8, OneSlotFetchInv, Stages DEF SetOrders, FetchFailed, authVars
<1>9. CASE ServerRestart
  BY <1>9, Stages DEF ServerRestart, FetchInv, Answered
<1>10. ASSUME NEW p, Load(p) \/ Logout
      PROVE  FetchInv'
  BY <1>2, <1>10 DEF Load, Logout, Unmount
<1>11. ASSUME NEW u \in Users, SubmitLogin(u)
       PROVE  FetchInv'
  <2>1. UNCHANGED <<fetches, session>> /\ (hasty => hasty')
    BY <1>11 DEF SubmitLogin
  <2> QED
    BY <1>1, <2>1
<1>12. ASSUME NEW u \in Users, NEW pushed \in BOOLEAN, Elsewhere(u, pushed)
       PROVE  FetchInv'
  BY <1>1, <1>12 DEF Elsewhere, authVars
<1>13. CASE \/ AnswerValidation \/ AnswerLogin \/ LoginFailed
            \/ Act \/ RegisterUser \/ SocketLost \/ UNCHANGED vars
  <2>1. UNCHANGED <<fetches, session, hasty>>
    BY <1>13 DEF AnswerValidation, AnswerLogin, LoginFailed, Act, RegisterUser,
       SocketLost, authVars, vars
  <2> QED
    BY <1>1, <2>1
<1>14. ASSUME NEW p, Navigate(p)
       PROVE  FetchInv'
  BY <1>2, <1>5, <1>14
<1>15. ASSUME NEW i \in FetchSlots, GetOrders(i) \/ SetOrders(i) \/ FetchFailed(i)
       PROVE  FetchInv'
  BY <1>7, <1>8, <1>15
<1> QED
  BY <1>3, <1>4, <1>6, <1>9, <1>10, <1>11, <1>12, <1>13, <1>14, <1>15 DEF Next

-----------------------------------------------------------------------------
(* The list *)

LEMMA NextShown ==
    ASSUME DataOK, ViewOK, SessionInv, FetchInv, ShownIsOwn, [Next]_vars
    PROVE  ShownIsOwn'
<1> USE DEF authVars, ShownIsOwn
<1>1. CASE UNCHANGED <<list, session>> /\ (hasty => hasty')
  BY <1>1
<1>2. CASE list' = Empty
  BY <1>2
<1>3. CASE ValidateSession
  <2>1. list = Empty
    BY <1>3, CallUser DEF DataOK, ViewOK, Mounted, ValidateSession
  <2> QED
    BY <1>2, <1>3, <2>1 DEF ValidateSession, Mount
<1>4. CASE Login
  <2>1. CASE loading \/ Mounted
    <3>1. hasty \/ (~loading /\ session = Null)
      BY <1>4, CallUser DEF DataOK, SessionInv, Login
    <3>2. hasty'
      BY <1>4, <2>1, <3>1 DEF Login, Mounted, DataOK
    <3> QED
      BY <3>2
  <2>2. CASE ~(loading \/ Mounted)
    BY <1>2, <1>4, <2>2 DEF Login, Mount
  <2> QED
    BY <2>1, <2>2
<1>5. ASSUME NEW p, Load(p) \/ Logout \/ Navigate(p)
      PROVE  ShownIsOwn'
  BY <1>2, <1>5 DEF Load, Logout, Navigate, Mount, Unmount
<1>6. ASSUME NEW i \in FetchSlots, SetOrders(i)
      PROVE  ShownIsOwn'
  BY <1>6 DEF SetOrders, FetchInv
<1>7. ASSUME NEW u \in Users, SubmitLogin(u)
      PROVE  ShownIsOwn'
  <2>1. UNCHANGED <<list, session>> /\ (hasty => hasty')
    BY <1>7 DEF SubmitLogin
  <2> QED
    BY <1>1, <2>1
<1>8. ASSUME NEW u \in Users, NEW pushed \in BOOLEAN, Elsewhere(u, pushed)
      PROVE  ShownIsOwn'
  BY <1>1, <1>8 DEF Elsewhere
<1>9. ASSUME NEW i \in FetchSlots, GetOrders(i) \/ FetchFailed(i)
      PROVE  ShownIsOwn'
  BY <1>1, <1>9 DEF GetOrders, FetchFailed
<1>10. CASE \/ AnswerValidation \/ AnswerLogin \/ LoginFailed
            \/ Act \/ ActDone \/ Refresh \/ OrderUpdated
            \/ RegisterUser \/ SocketLost \/ ServerRestart \/ UNCHANGED vars
  BY <1>1, <1>10 DEF AnswerValidation, AnswerLogin, LoginFailed, Act, ActDone, Refresh,
     OrderUpdated, RegisterUser, SocketLost, ServerRestart, vars
<1> QED
  BY <1>3, <1>4, <1>5, <1>6, <1>7, <1>8, <1>9, <1>10 DEF Next

\* A Dashboard that has just appeared has one fetch under way.
LEMMA MountList ==
    ASSUME NEW h, NEW b, Mount(h, b)
    PROVE  ListInv'
<1>1. PICK i \in FetchSlots :
          /\ fetches'[i] = Fetch(h, b)
          /\ \A j \in FetchSlots \ {i} : fetches'[j] = NoFetch
  BY MountSlots
<1>2. Sent(i)' /\ \A j \in FetchSlots : ~Answered(j)'
  BY <1>1, Stages DEF Sent, Answered
<1> QED
  BY <1>2 DEF ListInv, SameAnswers, Covered

\* One more fetch, which will be answered with all the changes made so far.
LEMMA FetchOrdersList ==
    ASSUME DataOK, FetchInv, ListInv, Mounted, FetchOrders, hasty' = hasty
    PROVE  ListInv'
<1>1. PICK i \in FetchSlots :
          /\ fetches[i] = NoFetch
          /\ fetches'[i] = Fetch(header, FALSE)
          /\ \A j \in FetchSlots \ {i} : fetches'[j] = fetches[j]
  BY FetchOrdersSlots
<1>2. Sent(i)' /\ ~Answered(i)'
  BY <1>1 DEF Fetch, Sent, Answered
<1>3. \A j \in FetchSlots : Answered(j)' => Answered(j) /\ fetches'[j] = fetches[j]
  BY <1>1, <1>2 DEF Answered
<1>4. ASSUME ~missed', ~hasty'
      PROVE  SameAnswers'
  <2>1. CASE missed
    <3>1. \A j \in FetchSlots : ~Answered(j)
      BY <1>4, <2>1, Stages DEF FetchOrders, NoFetches, Answered
    <3> QED
      BY <1>3, <3>1 DEF SameAnswers
  <2>2. CASE ~missed
    BY <1>3, <1>4, <2>2 DEF ListInv, SameAnswers
  <2> QED
    BY <2>1, <2>2
<1> QED
  BY <1>2, <1>4 DEF ListInv, Covered

\* Nothing the list depends on changes, or more is known to be missed.
LEMMA SameList ==
    ASSUME ListInv, UNCHANGED <<fetches, list, version, pushes>>,
           Mounted' => Mounted /\ session' = session,
           missed => missed', hasty => hasty'
    PROVE  ListInv'
  BY DEF ListInv, SameAnswers, Covered, Sent, Answered

\* A change that the tab is told of, or that counts as missed.
LEMMA ChangedList ==
    ASSUME DataOK, ListInv, NEW u, NEW pushed, Changed(u, pushed), Mounted' <=> Mounted,
           UNCHANGED <<fetches, hasty>>
    PROVE  ListInv'
<1>1. CASE ~Mounted' \/ missed' \/ hasty'
  BY <1>1 DEF ListInv
<1>2. CASE Mounted' /\ ~missed' /\ ~hasty'
  <2>1. pushes' = pushes + 1 /\ UNCHANGED missed
    BY <1>2 DEF Changed
  <2>2. pushes' > 0
    BY <2>1, ClientAssumption DEF DataOK
  <2>3. SameAnswers'
    BY <1>2, <2>1 DEF ListInv, SameAnswers, Answered
  <2> QED
    BY <2>2, <2>3 DEF ListInv, Covered
<1> QED
  BY <1>1, <1>2

LEMMA GetOrdersList ==
    ASSUME DataOK, FetchInv, ListInv, NEW i \in FetchSlots, GetOrders(i)
    PROVE  ListInv'
<1> SUFFICES ASSUME Mounted', ~missed', ~hasty'
             PROVE  SameAnswers' /\ Covered'
  BY DEF ListInv
<1>1. Mounted /\ ~missed /\ ~hasty
  BY DEF GetOrders, Mounted, authVars
<1>2. fetches[i].as = session
  BY <1>1 DEF GetOrders, FetchInv
<1>3. /\ fetches'[i].stage = "answered" /\ fetches'[i].got = version[session]
      /\ \A j \in FetchSlots \ {i} : fetches'[j] = fetches[j]
  BY <1>2 DEF GetOrders, DataOK, Fetches
<1>4. \A j \in FetchSlots : Answered(j)' => fetches'[j].got = version[session]
  BY <1>3 DEF GetOrders, Answered
<1>5. Answered(i)' /\ UNCHANGED <<version, session>>
  BY <1>3 DEF GetOrders, Answered, serverVars, authVars
<1> QED
  BY <1>4, <1>5 DEF SameAnswers, Covered

LEMMA SetOrdersList ==
    ASSUME DataOK, FetchInv, ListInv, NEW i \in FetchSlots, SetOrders(i)
    PROVE  ListInv'
<1> SUFFICES ASSUME Mounted', ~missed', ~hasty'
             PROVE  SameAnswers' /\ Covered'
  BY DEF ListInv
<1>1. Mounted /\ ~missed /\ ~hasty /\ UNCHANGED <<version, session, pushes>>
  BY DEF SetOrders, Mounted, authVars, serverVars
<1>2. fetches'[i] = NoFetch /\ \A j \in FetchSlots \ {i} : fetches'[j] = fetches[j]
  BY DEF SetOrders, DataOK
<1>3. /\ \A j \in FetchSlots : Answered(j)' => Answered(j) /\ fetches'[j] = fetches[j]
      /\ \A j \in FetchSlots : Sent(j) => Sent(j)'
  BY <1>2, Stages DEF Answered, Sent, SetOrders
<1>4. SameAnswers'
  BY <1>1, <1>3 DEF ListInv, SameAnswers
<1>5. list' = [user |-> session, version |-> fetches[i].got]
  BY <1>1 DEF SetOrders, FetchInv
<1>6. Covered'
  BY <1>1, <1>3, <1>5 DEF ListInv, Covered, SetOrders
<1> QED
  BY <1>4, <1>6

LEMMA NextList ==
    ASSUME DataOK, ViewOK, SessionInv, FetchInv, ListInv, [Next]_vars
    PROVE  ListInv'
<1> USE DEF authVars, serverVars
<1>1. CASE ~Mounted' \/ missed' \/ hasty'
  BY <1>1 DEF ListInv
<1>2. CASE ValidateSession
  BY <1>2, <1>1, MountList DEF ValidateSession, Mounted
<1>3. CASE Login
  <2>1. CASE loading \/ Mounted
    <3>1. hasty \/ (~loading /\ session = Null)
      BY <1>3, CallUser DEF DataOK, SessionInv, Login
    <3>2. hasty'
      BY <1>3, <2>1, <3>1 DEF Login, Mounted, DataOK
    <3> QED
      BY <1>1, <3>2
  <2>2. CASE ~(loading \/ Mounted)
    BY <1>3, <2>2, MountList DEF Login
  <2> QED
    BY <2>1, <2>2
<1>4. ASSUME NEW p, Load(p) \/ Logout
      PROVE  ListInv'
  BY <1>1, <1>4 DEF Load, Logout, Mounted
<1>5. ASSUME NEW p, Navigate(p)
      PROVE  ListInv'
  BY <1>1, <1>5, MountList DEF Navigate, Mounted
<1>6. CASE ActDone \/ Refresh \/ OrderUpdated
  <2>1. CASE FetchOrders /\ Mounted
    BY <1>6, <2>1, FetchOrdersList DEF ActDone, Refresh, OrderUpdated
  <2>2. CASE ActDone /\ UNCHANGED <<fetches, missed>>
    BY <2>2, SameList DEF ActDone, Mounted
  <2>3. CASE OrderUpdated /\ ~Mounted
    BY <1>1, <2>3 DEF OrderUpdated, Mounted
  <2> QED
    BY <1>6, <2>1, <2>2, <2>3 DEF ActDone, Refresh, OrderUpdated, ViewOK
<1>7. ASSUME NEW u \in Users, NEW pushed \in BOOLEAN, Elsewhere(u, pushed)
      PROVE  ListInv'
  BY <1>7, ChangedList DEF Elsewhere, Mounted
<1>8. CASE Act
  BY <1>8, ChangedList DEF Act, Mounted
<1>9. CASE SocketLost
  <2>1. CASE missed' \/ ~Mounted'
    BY <1>1, <2>1
  <2>2. CASE ~missed' /\ Mounted'
    <3>1. /\ Mounted /\ ~missed
          /\ UNCHANGED <<fetches, list, version, session, hasty>>
      BY <1>9, <2>2 DEF SocketLost, Mounted
    <3>2. ~(pushes > 0) /\ pushes' = 0
      BY <1>9, <2>2, <3>1 DEF SocketLost
    <3>3. pushes' = pushes
      BY <3>2, ClientAssumption DEF DataOK
    <3> QED
      BY <3>1, <3>3, SameList
  <2> QED
    BY <2>1, <2>2
<1>10. ASSUME NEW i \in FetchSlots, GetOrders(i) \/ SetOrders(i) \/ FetchFailed(i)
       PROVE  ListInv'
  BY <1>1, <1>10, GetOrdersList, SetOrdersList DEF FetchFailed
<1>11. CASE ServerRestart
  BY <1>1, <1>11 DEF ServerRestart, Mounted
<1>12. ASSUME NEW u \in Users, SubmitLogin(u)
       PROVE  ListInv'
  BY <1>12, SameList DEF SubmitLogin, Mounted
<1>13. CASE \/ AnswerValidation \/ AnswerLogin \/ LoginFailed \/ RegisterUser
            \/ UNCHANGED vars
  BY <1>13, SameList DEF AnswerValidation, AnswerLogin, LoginFailed, RegisterUser,
     Mounted,
     vars
<1> QED
  BY <1>2, <1>3, <1>4, <1>5, <1>6, <1>7, <1>8, <1>9, <1>10, <1>11, <1>12, <1>13 DEF Next

-----------------------------------------------------------------------------
(* The theorems *)

LEMMA InitClient == Init => ClientInv
<1> SUFFICES ASSUME Init PROVE ClientInv
  OBVIOUS
<1>1. TypeOK
  BY InitType
<1>2. SessionInv /\ ShownIsOwn
  BY DEF Init, SessionInv, ShownIsOwn
<1>3. FetchInv
  BY Stages DEF Init, NoFetches, FetchInv, Answered
<1>4. ListInv
  BY DEF Init, ListInv, Mounted
<1> QED
  BY <1>1, <1>2, <1>3, <1>4 DEF ClientInv

LEMMA NextClient == ClientInv /\ [Next]_vars => ClientInv'
  BY Parts, NextType, NextSession, NextFetch, NextShown, NextList DEF ClientInv

LEMMA Client == Spec => []ClientInv
  BY InitClient, NextClient, PTL DEF Spec

\* Every variable of the tab has its type, only a session has a socket, and without
\* the Dashboard there is no list, no fetch and no action under way.
THEOREM ClientTypes == Spec => []TypeOK
<1>1. ClientInv => TypeOK
  BY DEF ClientInv
<1> QED
  BY <1>1, Client, PTL

\* Once the saved session has been validated, localStorage holds the session of the
\* tab, unless a login was submitted during the validation.
THEOREM StorageAgrees == Spec => []StorageIsSession
<1>1. ClientInv => StorageIsSession
  BY Parts DEF ClientInv, SessionInv, StorageIsSession
<1> QED
  BY <1>1, Client, PTL

\* No answer, however late, shows the orders of a user who is not logged in, as
\* long as no login is submitted while a saved session is being validated.  With
\* such a login the code does show them, and the theorem says nothing of it.
THEOREM OwnOrdersShown == Spec => []ShownIsOwn
<1>1. ClientInv => ShownIsOwn
  BY DEF ClientInv
<1> QED
  BY <1>1, Client, PTL

\* Requests for the orders carry the token of the user who is logged in, but for the
\* one that is sent before the header of a restored session has been set, and
\* unless a login was submitted while the saved session was being validated.
THEOREM TokenCarried == Spec => []RequestsCarryToken
<1>1. ClientInv => RequestsCarryToken
  <2> SUFFICES ASSUME ClientInv, NEW i \in FetchSlots, fetches[i] # NoFetch, ~hasty
               PROVE  fetches[i].as = session \/ fetches[i].atRestore
    BY DEF RequestsCarryToken
  <2>1. fetches[i].stage \in {"sent", "answered"}
    BY Parts DEF ClientInv, FetchInv, DataOK, Fetches
  <2> QED
    BY <2>1 DEF ClientInv, FetchInv, Answered
<1> QED
  BY <1>1, Client, PTL

\* With nothing under way, nothing missed and no hasty login, the list shown is the
\* list the server would answer, in whatever order changes, pushes, fetches and
\* answers have followed one another.
THEOREM ListAgrees == Spec => []ListIsServers
<1>1. ClientInv => ListIsServers
  BY Stages DEF ClientInv, ListInv, Covered, ListIsServers, NoFetches, Sent, Answered
<1> QED
  BY <1>1, Client, PTL
=============================================================================
