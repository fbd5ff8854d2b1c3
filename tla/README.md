# Smart Locker: a TLA+ model of the backend, the station firmware and the web client

The repository is a parcel locker: users order a compartment on the web, a
courier types a delivery code at the station's keypad and puts the parcel in,
the user types a pickup code, or presses a button on the web, and takes it out.
The station also works without network, from a cache of pickup codes.

This directory holds TLA+ modules that model that code, the TLC configurations
that check them on small instances, and TLAPS proofs. `PROJECT.json` lists the
runs, the source lines each definition stands for, one seeded fault per checked
property, the hazards of the code and the theorems.

    tlc -workers 2 -config <run>.cfg <module>     (runs and modules: table below)
    tlapm LockerServerProofs.tla
    tlapm LockerServerSerialProofs.tla
    tlapm LockerFirmwareProofs.tla
    tlapm LockerSystemProofs.tla
    tlapm LockerParcelProofs.tla
    tlapm PresenceProofs.tla
    tlapm WebClientProofs.tla

## 1. The system

| component | source | state | operations |
|---|---|---|---|
| Order service | `server/index.js`, `server/database.js` | `orders` (user, cabinet, status, code, expiry), `cabinets` (userId; null means free) | create, deliver (two endpoints), pickup by order id (web), pickup by code (keypad), cancel, report of an offline pickup |
| Sockets and presence | `server/index.js` 66-106, 575-613 | `espDevices`, `webClients`, `Device.isOnline`, `Device.macAddress` | register_device, register_user, disconnect, autoLinkDevice, push to a station, push to a user |
| Accounts | `server/index.js` 27-40, 108-179 | `users`, signed tokens | register, login, me |
| Read endpoints | `server/index.js` 181-202, 319-332 | none | devices, orders |
| Station firmware | `sketch_may21a/sketch_may21a.ino` | `currentState`, `inputBuffer`, `syncData`, `logQueue`, `wsConnected`, WiFi | keypad, HTTP verifications, offline pickup, sync of codes and of reports, WebSocket events |
| Web session | `web-app/src/contexts/AuthContext.jsx` | user, token, localStorage | restore and validate, login, logout |
| Live updates | `web-app/src/contexts/SocketContext.jsx` | socket, notifications | connect as user, forward `order_updated` |
| Dashboard, checkout | `web-app/src/pages/` | list of orders, result of a creation | fetch, cancel, pick up, create |
| Arduino libraries | `libraries/` | third-party code, not modelled | |

How they interact. The web app calls the order service over HTTP and gets
pushes over Socket.IO. The station calls `verify-delivery`, `verify-pickup`,
`sync-data` and `sync-from-esp` over HTTP, one call at a time, blocking; the
server pushes `open_cabinet` and `sync_request` to the station's socket when it
knows one. Server and station share nothing else: the station's cache is a copy
of the delivered orders, and nobody tells the server whether a door has opened.
A browser tab has a copy of its user's orders: it fetches them when the Dashboard
appears, on every `order_updated` push, after its own requests and by hand.

Where it is hard:

* **Server.** Node interleaves handlers at every `await`. Each handler reads a
  document, checks it, and saves it with a later database call, without a
  transaction and without a condition on the save. A call that throws leaves the
  calls before it done.
* **Station.** One thread; keys and WebSocket events are only served between the
  blocking waits, while network and server go on. WiFi goes and comes, answers
  get lost after the server has acted, power cuts clear cache and queue.
* **Connections.** A client knows at once that its connection is lost and makes
  another one; the server learns of the loss later. Handlers of `register_device`
  and `disconnect` await the database between what they do to the registries and
  what they write into the Device.
* **Browser.** Answers come late, or after a logout, or in another order; effects
  run after the commit that needs them; the session of localStorage is validated
  while the login form can already be used.
* **Together.** The order is saved before the door moves; the compartment is
  released before the parcel has been taken out; reports of offline pickups carry
  a pin and no order.

What makes each part correct: codes identify one active order; a compartment is
reserved for the user of its open order and for nobody else, and comes back into
use; orders keep to their life cycle; joined with this server the keypad never locks
up, a code works offline once, reports are sent; a door shows a customer nothing but the
customer's own parcel and a courier an empty compartment; a code opens its own
door; a delivered parcel gets in and a completed order's parcel gets out; pushes
go to the connection that registered last; a tab's requests are made as the user
it shows, and its list is the server's once nothing is under way.

## 2. Modules

| module | what it is |
|---|---|
| `CabinetBooking` | Abstract specification: every compartment is booked for a user, filled, and released. |
| `LockerServer` | The order service. One action per database call with the code that runs until the next `await`; a request is a record with its step and what it has loaded. |
| `LockerServerProofs` | Theorems about `LockerServer` with any number of overlapping requests. |
| `LockerServerSerialProofs` | Theorems about `LockerServer` with one request at a time, the refinement of `CabinetBooking` among them. |
| `LockerFirmware` | The sketch. One action per stretch of code between two blocking waits. |
| `LockerFirmwareProofs` | Theorems about `LockerFirmware` and their proofs. |
| `LockerSystem` | `LockerServer` and `LockerFirmware` joined (two `INSTANCE`s over shared variables), with HTTP calls, pushes, doors and parcels. |
| `LockerSystemProofs` | Theorems about `LockerSystem`; the proofs of its parts are used through instances. |
| `LockerParcelProofs` | Theorems about the parcels in `LockerSystem`; extends `LockerSystemProofs`. |
| `Presence` | Connections of stations and tabs, `espDevices`, `webClients`, and the Device document. One action per event or database call. |
| `PresenceProofs` | Theorems about `Presence` and their proofs. |
| `WebClient` | One browser tab: session, storage, header, socket, and the Dashboard's list of orders. |
| `WebClientProofs` | Theorems about `WebClient` and their proofs. |
| `MCLockerServer`, `MCLockerFirmware`, `MCLockerSystem`, `MCPresence`, `MCWebClient` | Workloads, values and symmetry sets for TLC. |

Operators whose name has an underscore and a comment *Seeded fault* are not part
of the model: each is the definition after it with a plausible mistake. Putting
it in the place of that definition makes TLC find the property named with it in
`PROJECT.json` violated.

### LockerServer

`orders[o]` is an order document, status `"none"` for an id not handed out yet;
`cabinets[c]` is `Cabinet.userId`; `reqs[r]` is a request in progress.

| handler | actions |
|---|---|
| POST /api/orders | `CreateOrder` (arrival and the code drawn), `FindCabinet`, `Reserve`, `InsertOrder` |
| POST /api/locker/verify-delivery, /api/orders/delivery | `VerifyDelivery`, `DrawPickupCode`, `SaveDelivery` |
| POST /api/orders/pickup | `Pickup`, `CloseOrder`, `LoadCabinet`, `FreeCabinet` |
| POST /api/locker/verify-pickup | `VerifyPickup`, then the same three |
| POST /api/orders/cancel | `CancelOrder`, then the same three |
| POST /api/sync-from-esp | `SyncFromEsp`, `FreeCabinet`, `FindDelivered`, `CloseOrder` |
| any catch block | `DbFailure` |
| the clock | `Expire` |

Three details of the code matter. A handler works on the document it loaded, so
the check of the status is not repeated when it saves. Mongoose sends only the
paths that differ from the loaded document (`Dirty`): saving `null` over a loaded
`null` writes nothing. A code is drawn against the active orders of that moment
and stored some awaits later.

A request that is answered 4xx before its first write changes nothing and is no
step. Requests for a device that is not there are left out (the database has one
device). The seeded sample order is completed, has no code and holds no cabinet;
no handler finds it.

### LockerFirmware

`task` says what the sketch is waiting for: nothing (it is in `loop()`), an HTTP
answer, or a door; `task.next` holds the functions still to call in the current
handler. `inputBuffer` tells an empty buffer, some digits, and a whole code apart.
The server is open: it may answer anything the endpoints can answer, or nothing.
An error object from `sync-data` is JSON without entries and empties the cache
like an empty answer. The codes of one answer are assumed to differ (`Answers`),
which is what the server's `OtpUnique` says; `LockerSystem` computes the answers
instead of assuming this. A success answer to a verification may come without a pin
or box number the sketch can use (`Null`): then no box opens and `currentState` stays
`STATE_BOX_OPENING`, in which `loop()` ignores every key (219-226, 304-308, 553).
So the sketch alone does not keep its keypad alive; that the server never answers
this way is `KeypadAlive` of `LockerSystem`. `spent` is a history variable: the codes accepted offline
since the last sync.

### LockerSystem

The server's request slots are split into slots for web users and slots for the
station; a configuration that uses one slot for both makes all requests serial.
`call` is the station's HTTP call: `Serve` hands it to a handler, `Refuse` answers
it at once, `ServerStep` answers it when the handler ends, `Receive` or `GiveUp`
ends it at the station; the handler of a call that was given up runs on.
`CabinetPin` is what the answer of a verification says of the box.
`registered` says whether `espDevices` has the station's live socket. `content`
is the order whose parcel lies in a compartment: a courier puts it in while the
door is open for a delivery, a customer takes out what is there. `issued` and
`visit` are history variables for the properties.

`ServerRestart` loses all orders, reservations and requests under way, and the
registration; the station keeps its cache, its queue and its doors. The ids of lost
orders are not used again (`forgotten`). The station's socket is closed in the same
step: nothing but `loop()` looks at it, which finds it closed before it can connect
again.

On registration: the sketch sends its registration as a plain text frame (lines
424-425), not in the framing Socket.IO expects, and the server's pushes arrive in
that framing, which `handleServerMessage` does not strip. The model does not
depend on how the libraries treat this: `RegisterDevice` may happen or not, and a
push that is not understood is one that is not sent. No fairness is assumed of it:
liveness over keypad work does not need pushes.

### Presence

A socket is a number, never used again. `current` is the socket a client uses,
`live` are those the server has not seen disconnect, `hello` those whose
registration is under way or has not been understood. `tasks` are handlers that wait for the database: of
`register_device` (`RegisterDevice`, `FindDevice`, `LoadDevice`, `SaveDevice`,
`UpdateOnline`), of `disconnect` (`Disconnect`, `UpdateOnline`) and of a verify
endpoint that calls `autoLinkDevice` (`Verify`, `LoadDevice`, `SaveDevice`). The
database has one Device; the two lookups that follow the first in `autoLinkDevice`
both find it.

It is assumed that a registration that has not been delivered when a connection is
lost does not arrive after the client's next connection: the sketch waits five
seconds before it connects again (line 514). Without this `LastRegistrationWins`
and `StationReachable` are about the wrong socket.

That a registration is understood is not assumed (see above for the sketch's framing):
a socket may stay in `hello` for ever. `StationReachable` is a safety property and
speaks of stations whose registration the server has handled.

`isOnline` is known to go wrong in these ways, which `disturbed` excludes from
`OnlineIsTrue`: a `disconnect` between the two awaits of `register_device` (581, 582)
sets false before true; the update of an old socket's disconnect is overtaken by
the new registration; a verify call moves the Device to a station that has no
socket. A second tab of a user takes the pushes of the first, and when it closes
the first gets none (591): `LastRegistrationWins` says exactly that.

### WebClient

The model is of a production build. (In development StrictMode runs the effects of
a new component twice.) An action is one event in the tab together with the React
commit and the effects it leads to. Effects run from the leaves to the root, so the
Dashboard of a restored session (`ValidateSession` with the page on `dashboard`)
fetches before AuthProvider's effect has set the header: `Mount` gets the header of
before. After `Login` the Dashboard comes with a later commit (react-router updates
the location in a transition), when the header has been set.

| code | actions |
|---|---|
| first effects of AuthProvider, `validateSession` | `Load`, `AnswerValidation`, `ValidateSession` |
| login form, `login()` | `SubmitLogin`, `AnswerLogin`, `Login`, `LoginFailed` |
| `logout()`, links, browser history | `Logout`, `Navigate` |
| SocketProvider | `RegisterUser`, `SocketLost`, `OrderUpdated`, `CloseSocket` |
| `fetchOrders`, GET /api/orders | `FetchOrders`, `GetOrders`, `SetOrders`, `FetchFailed`, `Refresh` |
| `handleCancel`, `handlePickup` | `Act`, `ActDone` (one at a time) |
| changes by the station, in Checkout or in other tabs | `Elsewhere` |
| restart of the server | `ServerRestart` |

A user's orders are a version number. `fetches[i]` is the fetch in slot `i`; which
slot a fetch takes says nothing about when it was sent, and answers come in any
order. `hasty` and `missed` are history variables and
name what the properties do not promise:

* `hasty`: a login was submitted while the saved session was being validated. Then
  the later of the two answers wins, and localStorage, header and session may belong
  to different users, or the saved session is deleted under a live one. If the login's
  answer is the later one, the Dashboard of the restored session has fetched and does
  not fetch again: the code then shows a user the orders of another
  (`AuthContext.jsx:23`, 46-53). `ShownIsOwn`, `RequestsCarryToken`, `ListIsServers`
  and `StorageIsSession` except this schedule.
* `missed`: a change was not pushed to this tab (the server does not push after
  `POST /api/orders`, nor to a socket that has not registered yet), a socket was lost
  with events under way, a fetch failed, or an answer could be overtaken by another
  one. A fetch sent while no other is under way ends it.

Two more things the code does: any failure of the validation, a network error too,
deletes the saved session (`AuthContext.jsx:25`); and a user who goes back to the
login page by the browser's history sees an empty page (`Login.jsx:18`, where
`navigate` is called during the first render and ignored).

## 3. Runs

| run (`.cfg`) | module | question |
|---|---|---|
| `serial_sync` | MCLockerServer | One request at a time, everything allowed, database calls fail: types, unique codes, codes of exactly the active orders, life cycle. |
| `serial_online` | MCLockerServer | The same without offline reports: compartments belong to the user of their open order; the server implements `CabinetBooking`. |
| `overlap` | MCLockerServer | Two overlapping requests: no reservation leaks, requests end, compartments come back into use. |
| `race_empty` | MCLockerServer | Violation: a compartment that counts as empty has an open order. |
| `race_cancel` | MCLockerServer | Violation: a delivered order gets cancelled. |
| `station` | MCLockerFirmware | The station against any server: bounds, offline codes, return to `loop()`, queue of reports. |
| `system_keypad` | MCLockerSystem | Creations on the web while the keypad works, reliable network: doors and parcels, with liveness. |
| `system_web` | MCLockerSystem | Serial web and keypad requests with cancellations and web pickups: parcels of cancelled orders, codes and doors. |
| `system_offline` | MCLockerSystem | Lost calls, WiFi loss, power cuts, restarts of the server, offline pickups: codes and doors, and the keypad never locks up. |
| `presence` | MCPresence | Two stations and two tabs that reconnect: registries, `isOnline`, and a station that has registered stays reachable. |
| `web` | MCWebClient | A tab, three accounts, a restart of the server: session and storage, whose orders are shown, whose token requests carry, and that the list is the server's, but for `hasty` and `missed`. |
| `web_pickup` | MCLockerSystem | Violation: a web pickup is completed and no door opens. |

What they show, beside the passing properties:

* `race_empty`: `POST /api/orders` finds a free cabinet (283) and reserves it (289)
  in two database calls. Two users get the same compartment; when one order ends,
  `userId` is null although `database.js:31` calls that empty.
* `race_cancel`: the handler of the message "only an order waiting for delivery can
  be cancelled" (550) does not look again when it saves; a delivery saved in
  between is overwritten.
* `web_pickup`: "the locker has been opened" (431) is answered without looking at
  what `sendToESP32` returned (416). The order is completed, its code gone, and
  the parcel still inside.

Properties that do not hold and are therefore stated for less: `ReservedForOwner`
and `RefinesBooking` fail with offline reports (`sync-from-esp` releases the
compartment before it looks for a delivered order, so a late report hits the next
user) and with overlapping requests; `NoLeakedReservation` fails when a database
call fails between two saves, and with reports; `OtpUnique`, `ActiveHasCode` and
`Lifecycle` fail with overlapping requests; `OwnParcelOnly`, `EmptyForCourier` and
the two liveness properties of `LockerSystem` fail on a network that loses answers
and with web pickups. `OwnParcelOnly` is about doors opened with a pickup code; a door
opened by a push of a web pickup is not covered. `KeypadAlive` holds of station and
server together and fails for the sketch with a server that answers success and names
no box.

### Bounds

* Orders: ids not used yet bound the number of creations. Two or three orders in
  one or two compartments let every compartment be used again after an order has
  ended, and let two orders compete for one compartment.
* Codes: one more than active orders can have, so a code can always be drawn; used
  codes come back. `RequestsFinish` says nothing of a server that has run out of codes.
* Requests: one (serial) or two (overlap). Two are enough for each of the races;
  `NoLeakedReservation` and the types are proved for any number.
* Station: arrays of 10 are modelled with 2 entries (1 report in the composition)
  and answers of up to 3 entries, so both arrays overflow. `MaxPushed` bounds the
  pushes under way; a push over the bound is lost like one to a dead socket.
* Connections: three (`MaxSockets`) are enough for a socket that registers while an
  older one of the same client has not been seen to go and a third belongs to
  somebody else. One verify call (`MaxTasks`) and one station that makes them
  (`Verifiers`); registrations and disconnects overlap without bound.
* Browser: three users of whom two have accounts before the restart and one after it;
  two changes per user (`MaxChanges`), two fetches (`FetchSlots`, which are
  interchangeable) and two pushes (`MaxPushes`) under way, which is what an overtaken
  answer needs. A push over the bound counts as missed; an event that would start a
  fetch with all slots taken waits. The theorems of `WebClientProofs` hold for any
  number of each.
* `CHECK_DEADLOCK FALSE` stands in the runs that can stop for good: in two server runs
  all order ids used, all orders closed, no reports; in `presence` all connections
  used; in `web` every change made.

### Fairness

* A handler goes on once its database call has answered (`WF` per request): Node
  resumes it, and no handler waits for another. Nobody has to send a request.
* The station: HTTPClient ends every call by its timeout and a door's delays end
  (`WF` of `Answer` and of `BoxClosed`). Nobody has to press a key; the network may
  stay away. `LogsDrained` assumes in its statement that WiFi stays and that the
  WebSocket reconnects again and again, which is when the sketch sends its queue.
* The composition on a reliable network: served calls, answers, pushes, doors and the
  reconnecting WebSocket are fair; the registration of the station, users, couriers
  and the clock are not.
* `Presence` has no fairness: its properties are safety properties.

## 4. Proofs

`LockerServerProofs`, for all values of the constants:

* `TypeCorrect`: `Spec => []TypeOK`. `TypeOK` is inductive. Beside the types it says
  that a request at a given step has what the step uses (`Supplied`), that stored
  orders have a cabinet, and that orders under work are stored. `DocsStep` is what
  a step does to the documents; with `SetRequest` each action reduces to the type of
  the one request it changes.
* `ReservationsKept`: `Spec => []NoLeakedReservation` when no offline reports are in
  the workload and database calls do not fail (`OnlineAndUp`). The property is not
  inductive as it stands. `ReservationInv` adds `TypeOK`, `NoSync` (no request is a
  report, so every closed order is followed by the release of its cabinet) and
  `CreationsFresh` (an order id a creation holds is not stored yet and is held by
  no other request: inserting never overwrites an open order that justifies a
  reservation, and a request that closes an order does not close one being
  inserted). The step lemmas follow the witnesses of the property: an open order
  stays one or is closed by a request that then releases its cabinet; a booking
  request becomes an order; a release either happens or, because of `Dirty`, writes
  nothing over a null it has loaded.

`LockerServerSerialProofs`, for all values of the constants with at most one request
at a time (`OneAtATime`). Runs `race_empty` and `race_cancel` show that overlapping
requests break compartments and life cycle, so the hypothesis is needed. Database
calls may fail after any step, and a failed handler undoes nothing.

* `CodesAreUnique`, `OpenOrdersHaveCodes`, `LifeCycleKept`: `Spec => []OtpUnique`,
  `Spec => []ActiveHasCode`, `Spec => Lifecycle`, with offline reports too. The
  inductive invariant `SerialInv` adds to `TypeOK` and the two properties what the
  request in progress knows (`Knowing`): the status its order still has when the
  handler saves it, that the loaded code is still the stored one (otherwise
  `Dirty` would keep it) and that the drawn code is still unused. Without `Knowing` a
  save could reopen a closed order or bring back a used code.
* `OwnersKeepCompartments`: `Spec => []ReservedForOwner` without offline reports
  (`NoReports`; a report frees the compartment before it closes the order).
  `OwnedInv` adds that open orders have different compartments (`OneEach`) and
  that the compartment a request is about to use has no open order (`Holds`).
* `ImplementsBooking`: `Spec => RefinesBooking` under the same hypotheses. Storing a
  new order is `Book`, the save of a delivery is `Deliver`, the save that closes an
  order is `Release`; every other step leaves the compartments' uses as they
  are (`SameBox`). Because of `OneEach` the use of a compartment is that of its
  only open order (`BoxOfOpen`).

`LockerFirmwareProofs`, for all values of the constants:

* `StationTypes`, `OfflineCodesOnce`: `Spec => []TypeOK` and `Spec => []OfflineOnce`,
  both from one inductive invariant, `FirmwareInv`. It adds to them `Planned` (the
  functions still to call are one of three lists, and none follows
  `syncLogsToServer`: otherwise emptying the queue could be followed by sending an
  entry that is not there) and `Distinct` (cached codes differ, so removing one entry
  removes the code).
* The lemma `StepSettled`: `Settled` (the state is `STATE_BOX_OPENING` only in a
  verification or while a door is open) is kept by every step but a success answer
  without a box. `LockerSystemProofs` uses it.

`FirmwareInv` is split into what concerns the task (`TaskOK`) and what does not
(`DataOK`); each action changes at most one of them in an interesting way.
`RemoveAtElements`, `CachedType` and the lemmas on `Call` say what the operators on
sequences return.

`PresenceProofs`, for all values of the constants:

* `PresenceTypes` and `LastOneWins`: `Spec => []TypeOK` and
  `Spec => []LastRegistrationWins`. `Registered` adds that the socket
  registered last for a station is that station's, and that a registration under way
  belongs to the socket its client uses: a late disconnect finds no entry but its own,
  and a registration never comes from a socket that is gone.
* `StationsReached`: `Spec => []StationReachable`. `Present`, the last part of
  `Registered`, says that a client uses a socket of its own and that a station whose
  registration is not under way was the last to register.
* `OnlineIsRight`: `Spec => []OnlineIsTrue`. `OnlineInv` says what `isOnline` will be
  once the one handler under way has ended, for each of its steps.

`WebClientProofs`, for all values of the constants:

* `ClientTypes`, `StorageAgrees`, `OwnOrdersShown`, `TokenCarried`, `ListAgrees`:
  all five invariants of the run `web`, with the exceptions `hasty` and `missed` they
  state, from one inductive invariant, `ClientInv`.
  `SessionInv` says what storage, header and session have to do with each other
  before and after the validation, which is what `StorageIsSession` needs of the
  states it says nothing about. `FetchInv` says that a fetch carries the user's token
  or, if it is the one of a restored session, none, and that only the former is
  answered: a fetch survives neither a logout nor another page, so an answer is always
  the session's. `ListInv` says why the list will be right: all answers under way are
  the same (`SameAnswers`), and one of a push, a fetch not answered yet, an up-to-date
  answer or an up-to-date list is there (`Covered`). With two different answers under
  way the later one could be the older; the model counts exactly that as missed.

`LockerSystemProofs`, for all values of the constants, so with any workload, web
requests that overlap without bound, a network that may fail, power cuts and
restarts of the server:

* `SystemTypes` and `PartsTypes`: `Spec => []TypeOK`, and the type invariants that
  server and station were proved to have with any environment hold of them joined.
  The proofs of the parts are not repeated: the module takes `LockerServerProofs` and
  `LockerFirmwareProofs` as instances (`SP`, `FP`) and shows that each action of the
  composition is a step of the part, or leaves it alone. For the provers an operator
  of `SP` and the one of the same name in `Server` are two; the first section of the
  module shows that they agree. `LinkInv` adds to the parts' invariants what joins
  them: an HTTP call under way belongs to a wait of the sketch and, while it is
  served, to a request of the server that works on a stored order (`CallHeld`), so
  that the pin of an answer is a compartment; a push to open a compartment names a
  stored order (`PushesOK`).
* `KeypadStaysAlive`: `Spec => []KeypadAlive`. `Settled` of the station is kept by every
  step of the composition: a success answer names a compartment (`AnswerOpens`, from
  `CallHeld`), and so does a push that opens a door. Nothing is assumed of the
  workload or the network.
* `CodesFitDoors`: `Spec => []CodeFitsDoor` if the requests of the station do not
  overlap (`OneStation`). `CodeInv` follows a code from the order to the door:
  the code of a delivered order is the one it was given (`Recorded`), an order is
  given a code at most once (`PendingNew`, `DeliveriesNew`, `CreationsNew`), and what
  fits stays so in the answer under way (`CallFits`), in the station's cache
  (`CacheFits`) and behind the open door (`DoorFits`), also when order and server
  are gone (`IssuedStay`). Without `OneStation` the handler of a call that was given
  up could deliver an order that a second call is delivering too, and the order
  gets a second code. The proof uses only that deliveries do not overlap
  (`OneDelivery`), which the next module gets from other hypotheses.

`LockerParcelProofs`, for any number of compartments, orders, codes and users:

* `CancelledLeavesNoParcel`: `Spec => []NoParcelOfCancelled` if the server has one
  request in hand at a time (`OneSlot`), with any workload, a network that may fail,
  power cuts with an open door and restarts of the server. `CancelInv` adds to
  `CodeInv` that a request finds its order as it left it (`StatusKnown`), and follows
  the order of a parcel from the answer (`CallPast`) through the open door
  (`VisitPast`) into the compartment (`ContentPast`): it has been delivered, or the
  server has forgotten it, and neither can be cancelled any more. With overlapping
  requests an order can be delivered between the load and the save of its
  cancellation (run `race_cancel`), so the hypothesis is needed.
* `CustomersFindTheirOwn` and `CouriersFindRoom`: `Spec => []OwnParcelOnly` and
  `Spec => []EmptyForCourier` if network, station and server do not fail, orders are
  created one after the other and deliveries and pickups are made at the keypad
  (`Orderly`); creation and keypad overlap in every way. `ParcelInv` has four parts
  beside `CodeInv`. `RequestsOrderly`: every open order, every creation that has
  reserved and every release under way has a compartment of its own (`Claims`), and
  the order of a request the expected status (`OrdersHeld`). `CallOrderly`: a delivery
  or pickup in the server is the one the station waits for, and the other way round.
  `DoorsOrderly`: a parcel lies in its order's compartment, and the order is delivered
  or its pickup is between completing the order and closing the door (`Parcels`); the
  compartment of a pickup has no other delivered order (`Pickups`), that of a delivery
  is empty (`Deliveries`). `Quiet`: no key and no push opens a door.
  `Orderly` is needed: two creations that overlap can take one compartment (run
  `race_empty`; the two properties fail in `system_keypad` with a second web slot), a
  lost answer to a pickup leaves the parcel of a completed order in a compartment that
  is free to be booked, and so does the dropped push of a web pickup.

The named assumptions on the constants (`ServerAssumption`, `FirmwareAssumption`,
`SystemAssumption`, `PresenceAssumption`, `ClientAssumption`) are all that is assumed.
`SystemAssumption` says of the constants of the composition what its parts assume of
theirs, and that the orders are finitely many (an answer lists them).

The hypotheses of the theorems (`OnlineAndUp`, `OneAtATime`, `NoReports`,
`OneStation`, `OneSlot`, `Orderly`) are stated in them. Every safety property a passing run
checks is stated by a theorem.

Only model-checked: the liveness properties (TLAPS has no liveness under fairness).

## 5. Not modelled

* `libraries/`: third-party Arduino libraries, which are most of the files of the
  repository. What the sketch uses of them (WebSocket, HTTP client, keypad) is
  modelled by its effect on the sketch. The map therefore covers a small share of all
  lines, but most of the program's own.
* Layout and wording of pages and of the station's display, toasts, the registration
  form, `GET /api/devices`, password hashing, the registration of accounts: no other
  state depends on them.
* A second station in `LockerSystem` (two stations are in `Presence`), and failing
  database calls there (they are in `LockerServer`).
* A proxy or a browser cache between tab and server; several tabs with one
  localStorage (`WebClient` is one tab, `Presence` has the sockets of several).

What could be added: a composition of two stations that compete for the one Device.
