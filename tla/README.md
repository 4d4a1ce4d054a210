# OBO: a TLA+ model of a ride-hailing system, with proofs

OBO is a small ride-hailing system: an Android app for drivers and passengers
(`OBO/`), a web server the apps talk to (`OBO_server_https/`), and a data server
the web server talks to (`OBO_server_data/`), which owns a Redis cache and a MySQL
database. This directory holds TLA+ modules translated from the C, C++ and Java
code, the TLC configurations that check them, and proofs checked by TLAPS.

    tlc -workers 2 -config OboServerBooking.cfg MCOboServer.tla
    tlapm OboServer_proofs.tla

Source paths below are relative to the repository.

## 1. The system

    driver app  --\                        /-- Redis: sessions, temporary orders,
                   >-- web server -- data <            geo set of listed drivers
    passenger app -/    (stateless)  server \-- MySQL: accounts, finished orders

| Component | State it keeps | Operations | Talks to |
|---|---|---|---|
| apps (`OBO/jni/*.cpp`, `*MapActivity.java`) | class `Data`: session id, status, order id, the passenger's position; `_autoSend`, open dialogs, searches under way | log in, register, book, report a position every two seconds, accept, pick up, finish | web server, HTTPS; a JNI call blocks the app's thread |
| web server handlers (`login.c`, `reg.c`, `set_order.c`, `location_changed.c`, `finish_order.c`) | locals of the running handler only | `/login`, `/reg`, `/startSetOrder`, `/locationChanged`, `/finishOrder` | `remote_store.c` |
| web server remote calls (`remote_store.c`) | none | one `curl_to_*` function per command | data server, HTTPS, one synchronous request per call |
| data server (`cache.c`, `deal_cache.c`, `redis_op.c`, `persistent.c`, `deal_persistent.c`, `dao_mysql.c`) | the connection of the running request | setHash, getHash, existKey, deleteKey, setLifecycle, addGeo, remZset, radiusGeo; INSERT user, INSERT order, login query | Redis, MySQL; a new connection for each request |
| Redis | a hash per session (`username`, `orderid`), a hash per open order (status, two session ids, positions), `ONLINE_DRIVER_GEO_ZSET` | single commands, pipelines, key expiry | |
| MySQL | `OBO_TABLE_USER`, `OBO_TABLE_ORDER` | INSERT, SELECT | |

The life of a ride:

1. `login_cb`/`reg_cb` create a session: a hash with `orderid = NONE`, then its
   expiry time (600 s) in a second call.
2. A driver's app in state *ready* reports; `location_changed.c` puts the session id
   into the geo set.
3. The passenger taps, two map searches run, the app orders. `set_order.c` takes the
   nearest listed driver, writes the order's hash (`INIT`, both session ids), then
   names the order in the driver's session, then in the passenger's. It does **not**
   take the driver out of the geo set, and it does not look whether the driver's
   session holds an order.
4. The driver's app is told the order id with its next report and opens a dialog; with
   every further report in state *ready* it opens another. *Accept* sets the status
   *catching*; the next report takes the driver out of the geo set.
5. The driver taps *picked up*: its next report says *driving* with `autosend = yes`,
   and the order its session holds becomes `ACTIVE`.
6. The driver taps *arrived*: `finish_order.c` reads the order's two session ids and
   the two user names, inserts the ride into MySQL, sets both sessions' `orderid`
   back to `NONE` and deletes the order's hash. The passenger's next report is told
   that it has no order, and a passenger that was *traveling* becomes *idle*.

### What is hard about it

* Nothing is transactional. A handler is a chain of up to seven remote calls; any
  call may fail, be executed without its answer arriving, or be executed in part
  (the HSETs of one setHash are a pipeline); both servers are restarted by `kill -9`
  (`start-up.sh`), and nobody resumes a handler.
* The data server's own exchange with Redis has the same problem one level down: the
  connection may break between any two replies, and several functions of `redis_op.c`
  then read the type of a reply that is not there.
* Sessions expire by themselves at any moment, also between two calls of a handler;
  a later HSET creates the key again, without a user name and without expiry.
* A driver stays listed after it was booked, so it can be booked twice; the second
  booking overwrites the first in its session, and finishing the first clears the
  second.
* A report names no order. The server works on whatever the session holds when it
  reads it; the app acts on what it was last told.
* An app does not look at the results of its requests: a finish that failed still sets
  the driver idle, and `autosend` is reset even when the report that carried it failed.
* A report whose session has no order writes positions to the Redis keys `NONE` and
  `""`, which all such reports share.

What is *not* hard: both servers are one `event_base_dispatch` loop whose handlers
block in their calls, so two handlers never interleave. The model relies on this: one
handler runs at a time, and only expiry, faults and what happens on the phones come
between its calls.

### What makes each component correct

* Accounts and sessions: a session belongs to an account of the role it acts in; no
  named session lives forever.
* Booking: a session names an order only if the order names that session; the two
  ends of a ride agree.
* Location reports: a driver who is busy, or who stopped, is not offered; only the
  order's own driver starts it.
* Finishing: an order is never deleted before it is stored, is stored once, under
  the names of its parties, and is then gone everywhere.
* The apps: they send only what the server assumes; a started ride is driven; an order
  is served in the end, and every wait and every travel ends.
* The data server: a command is executed at most once, in part only if its caller is
  told of a failure, and *ok* carries what Redis held; every request ends.
* The whole: each order is placed, perhaps started, and finished at most once.

## 2. Modules

| Module | What it is |
|---|---|
| `OboStore` | The two databases as the web server sees them. State: `hash`, `ttl`, `pool`, `users`, `rides`. One operator per data-server command, with the outcome of the call as a parameter. |
| `OboServer` | The web server, over `OboStore`. State: `web` (the running handler: the label of its next call and its locals), `reply` (what each session's app was last answered), `issued` (ids generated so far), `faults`. One action per remote call. |
| `OrderLife` | Abstract specification: the life of an order. `OboServer!OrdersLiveOnce` states that the server implements it under the mapping `StageOf`. |
| `OboRide` | The apps, composed with `OboServer`. State: `app` (class `Data` and the screens' own fields, per session), `client` (whose request the server works on). Its property `ServerRequests` states that the composition implements `OboServer`. |
| `OboRequests` | The requests that `remote_store.c` sends, and the `OboStore` action each stands for. |
| `OboCommands` | Abstract specification: what the data server promises to the web server. |
| `OboDataServer` | The data server: `process`, `link` (the connection to Redis), `job` (the request and how far it got). One action per reply. `ImplementsCommands` states that it implements `OboCommands`. |
| `MCOboServer`, `MCOboRide`, `MCOboDataServer` | Instances for TLC: accounts, symmetry, bounds. |
| `OboStore_proofs` | Lemmas about the commands of `OboStore`, which the two servers' proofs share. |
| `OboServer_proofs`, `OboAccounts_proofs`, `OboLife_proofs`, `OboQuiet_proofs`, `OboRide_proofs`, `OboApps_proofs`, `OboDataServer_proofs` | Theorems, for all values of the constants (section 4). The first six extend one another in this order. |

The three levels fit together by refinement:

    OboRide ==> OboServer ==> OrderLife
                    |
                    | uses the commands of OboStore with outcomes done / lost / cut
                    |
    OboDataServer ==> OboCommands

`OboCommands` is what entitles `OboServer` to treat a remote call as one step: its
`Perform` with *ok* is *done*; a failure before `Perform` is *lost*; a failure after it
is *cut*.

### How the code is read

* **Handlers.** `web.at` is the label of the next remote call; an action performs the
  call and moves on. `Chain` is the code's `if (ret == 0)` ladder: a failed call
  skips the rest. Calls whose result the handler ignores (most calls of
  `location_changed.c`) move on whatever their outcome. Calls that only read are
  joined with the step that uses their result when nothing can come between them
  that matters (`radiusGeo` with the creation of the order id, `get_orderd` with the
  start of `finish_order_cb`, the reads of an answer with the answer); reads whose
  values are used later are steps of their own (`GetOrderid`, `NamePassenger`,
  `NameDriver`), because the session may expire around them.
* **Outcomes of a call.** *done*: executed and answered; *lost*: not executed, the
  caller sees an error; *cut*: executed wholly or, for a pipeline of HSETs, up to
  some command, and the caller sees an error. `Abandon` is everything that stops a
  handler between two calls: a killed web server, a read that fails, an answer that
  never reaches the app.
* **Effect-free requests** (wrong password, no driver in the radius, unknown session,
  GET, bad URI) are stuttering steps of `OboServer`. In `OboRide` an app may still
  react to them: `ReportRefused`, `SearchEnds`.
* **Apps.** An app has one thread. A JNI call blocks it until curl returns, so `Free(s)`
  guards everything it does while the server works on its request. `AfterReport`,
  `DriverTold` and `PassengerTold` are what `onLocationChanged` and the JNI code make of
  an answer; `ClientFailed` is the same for an error or a silence. A driver's button
  always shows the status, so it is no variable. A dialog covers the button but not the
  reports: several can be open, and each sets the status whatever it is by then. The
  passenger's button stays active while its two chained searches run, so two searches
  may be under way. `NumberFormatException` in the location callback ends the app
  (status *gone*).
* **Sessions.** In `OboServer` a session is `reply[s]`, what its app was last answered;
  in `OboRide` it indexes the app. A process that logs in again is a new app.
* **Data server.** `Execute` is the moment Redis executes the commands it received (the
  first `n` of a pipeline) and the first `m` replies arrive; `ReadReply` is one
  `redisGetReply`; `MissReply` is what happens when no further reply comes, function by
  function; `Disconnect` is the `rop_disconnect` at the `END` label of each function of
  `deal_cache.c`, and `Respond` the answer that follows. That every exit of the eight
  modelled functions goes through `END` was read in the code; one action stands for all of
  them, so no property could see one that does not. `Kill`, `Restart` and a crash may come
  at any point.
* **Data.** Addresses, times, prices and passwords are abstracted. With positions goes
  the distance: the nearest driver is any listed driver, and none may be near enough.
  `ptemp` and `dtemp` stand for the two coordinates of the passenger's and of the
  driver's latest position in an order's hash: that they are there is kept, their values
  are not. A uuid is a member of `Sessions` or `Orders` that was not issued before.
* **Expiry** is untimed in `OboServer`: a key with an expiry time may vanish at any step.
  In `OboRide` it may only for a phone that is off the network or gone, since one that
  reports every two seconds never loses a session of ten minutes.
* **Missing values** are `Nil`, the empty string: HGET of a missing field arrives as an
  empty string, and a hash without fields does not exist.

Definitions whose comment begins with "Slip:" are faulty variants of the definition
that follows them; the checks use them to see that a property notices the fault.

## 3. What TLC checks

The numbers are distinct states. Symmetry of session and order ids, which are uuids
that the code only compares and copies, is used where no liveness is checked.

| Run | Instance | States | What it shows |
|---|---|---|---|
| `booking` | 3 sessions, 2 orders, no faults | 679,407 | `PairedUnlessDoubleBooked`: the two ends of a ride agree unless some other order named the driver. `BusyDriversUnlisted`: a driver whose report said catching or driving was answered is not offered. `StoredRidesAreOver`: a stored ride is gone from Redis and from every session. `OnlyItsDriverStarts`: a report starts no order but one that names its sender as the driver, with a second driver and with a driver booked twice. |
| `failures` | 2 sessions, 2 orders, 2 faults | 1,822,475 | `TypeOK`, `OrdersHeldByTheirParties`, `NoOrderLost`, `HalfFinishedForever`, `OrdersLiveOnce`: under any two failures an order keeps its parties, is not lost, and lives once; a finish that failed after its INSERT is never completed. |
| `expiry` | 2 sessions, 1 order, sessions expire freely, hashes `NONE` and `""` | 4,517,302 | `RideNamesItsParties`: whatever expires between the four calls, the row names the order's own parties or nobody. |
| `accounts` | 2 sessions, no orders, a name without an account, 1 fault | 63,207 | `NamedSessionsExpire`: every session with a name expires by itself or was never handed out. `SessionsMatchAccounts`. |
| `meeting` | 3 apps, 2 orders, 2 dialogs, 1 search, no faults | 749,734 | `ActiveRidesAreDriven`: without a fault the driver of a started ride drives until it is stored, although dialogs stack up. `StartsToldOrder`: what starts is the order the driver's app holds, also for a driver booked twice, if a *catching* or *driving* report of its ride was answered before. (Both also except a driver whose session expired, which needs a phone that is off the network.) |
| `ride_failures` | 1 passenger, 1 driver, 1 fault and phones that vanish, one at a time; or 2 drivers, no fault, and one of their apps ends; 1 order | 503,065 | `RideTypeOK`, `ServerRequests` (refinement of `OboServer`), `TravelEndsStored` (a travel ends only with its ride stored, unless the passenger booked twice or its session expired), and what a lost message leaves behind: `LostStartStaysLost`, `StuckForever`. `GhostsKeepOrders`: whatever the others do, a driver whose app ended stays listed, and an order that names it keeps its driver and its stage. |
| `served` | 2 apps, 1 order, willing drivers, 1 fault, fairness | 27,756 | `OrdersAreServed`, `WaitsEnd`, `TravelsEnd`: without a fault every order is stored and every wait and travel is over in the end. `BoundOrdersAreStored`: the same of an order that reached its driver's session, even when one call fails. |
| `data_faults` | every kind of request, no error replies | 56,874 | `DataTypeOK`, `ImplementsCommands` (refinement of `OboCommands`) through broken connections, crashes, kills and lost answers. |
| `data_errors` | the same, Redis may answer errors, fairness | 85,834 | `OkIsDoneOrHidden`: *ok* means done, or refused by Redis in one of the three functions that hide it. `RequestsEnd`: every request is answered or seen to fail. |
| `idle_driver` | 2 sessions, no orders | violated | Finding 1. |
| `located` | 2 apps, 1 order, no faults | violated | Finding 2. |
| `error_reply` | data server, Redis may answer errors | violated | Finding 3. |

### Bounds, and why they are enough

* `MaxFaults`: calls or handlers that fail. Two allow a failed finish followed by a failed
  retry, and a cut pipeline followed by a killed handler; one at any point of any request
  is what the apps' properties are about.
* `MaxExpired`: sessions that were handed out and are expired at a time; two are both ends
  of a ride. `MaxStray`: how many of the hashes `NONE` and `""` exist. Both restrict the
  explored states, not the specification.
* Two sessions are a driver and a passenger; the third is a second driver or a second
  passenger, so both halves of a double booking occur. Two orders are what overwriting one
  by the other takes.
* `MaxDialogs`: two dialogs are what it takes for one to be answered after the other set
  the driver driving. `MaxSearches`: searches of one passenger under way; with 1 a
  passenger can still order, search again and order again.
* `Offline`: phones that may be off the network for ten minutes or switched off;
  `MaxVanished`: how many have vanished at a time (a constraint). In `ride_failures` a
  second driver, who could take over what the first leaves behind, takes the place of the
  fault; both, or a second order, are too much for a regular run, and the theorems about
  these properties cover them.
* `Asked`: the requests the web server sends; TLC uses one or more of each command, and
  those pipelines that have several commands.
* Failures and free expiry are in separate instances, because together they exceed a few
  minutes. The theorems of section 4 cover both at once and without bounds, for every
  safety property in the table. Three of them were stated too strongly for larger
  instances, which the proofs brought out and TLC then confirmed on instances too large
  for a regular run: see "What some properties describe on a bad day".

### Fairness

* `WF(ServerStep)`: the web server is a single loop that never waits for anything but its
  own calls, so a handler that can go on does. A call ends: it succeeds or fails.
* `SF(Report(s))`: a report is due every two seconds and the server takes requests in the
  order they arrive, so an app that can report again and again does. Weak fairness would
  not do: the report is disabled whenever the server is busy with someone else.
* `SF(Serve(s))`: a tap waits in the phone's event queue until the JNI call that blocks
  the thread returns. That a driver in `Willing` does tap (goes on offering, accepts, picks
  up, finishes, and never refuses) is an assumption about people; the code assumes it
  too, since a refusal is reported to nobody (hazard `DriverMapActivity.java:274`).
* `WF(Serve)` of the data server: its loop goes on while there is something to do. Redis
  and MySQL are assumed to answer or to break the connection, because no call has a
  timeout (`redis_op.c:395`). Nothing is assumed of `Restart`: a request to a server that
  is down is refused.

No fairness is assumed of passengers, of logins, of faults or of expiry. The liveness
properties without `BoundOrdersAreStored` carry the disjunct `faults > 0`: with a fault
an order may never reach its driver, and nothing in the code notices. They also end when
the driver's app is gone, which nothing in the code notices either.

**Deadlock** is not checked for `OboServer` and `OboRide`: ids are finite in an instance,
and apps may be gone; when nothing is left that changes anything, the system rests. It is
checked for `OboDataServer`, which can always take the next request.

### Three disagreements between what the code says and what it does

1. `OBO_server_https/location_changed.c:178` says of a driver that reports idle that it
   takes itself out of the pool of positions. The branch compares with
   `STATUS_DRIVER_IDLE`, which `include/busi_cb.h:44` defines as `"idel"`; the app sends
   `"idle"` (`OBO/jni/Data.h:12`). The run `idle_driver` finds a driver who reported ready,
   then idle, was answered *ok*, and is still listed, so that `set_order.c` may book it.
2. `DriverMapActivity.java:243` says that in the states catching and driving the
   passenger's position can be had, and parses it. The passenger's position is stored by
   the passenger's first report as *waiting* only. The run `located` finds a driver who
   accepts and reports before that: it is answered two empty strings,
   `Double.parseDouble("")` throws, and nothing catches it.
3. `redis_op.c:650` and `redis_op.c:701` promise 0 for success and -1 for failure. Both
   functions look at `redisGetReply` only, not at the type of the reply. The run
   `error_reply` finds a setHash whose two HSETs Redis both refused and that is answered
   *ok*. The property speaks of setHash and getHash only: that a remZset is *ok* whatever
   Redis says is intended (`deal_cache.c:304`).

### What some properties describe on a bad day

Some properties state what the code does after a failure, so that a change shows:

* `HalfFinishedForever`: when `finish_order.c` fails after its INSERT, every retry is
  refused by the primary key of `OBO_TABLE_ORDER`, so the hash and whatever session
  was not cleared stay as they are.
* `LostStartStaysLost`: when the report with `autosend = yes` fails, the order is never
  `ACTIVE`; the driver drives and can finish it all the same.
* `StuckForever`: a passenger that is still *waiting* when its order is finished waits for
  ever, because only a *traveling* one looks at the order id `NONE`
  (`PassengerLocationChanged.cpp:139`). `WaitsEnd` names it as an end of a wait. What ends
  the wait after all is another's mistake: a driver that accepts an order which was
  finished meanwhile holds `NONE`, its first report while driving starts the hash `NONE`
  (`location_changed.c:166`), and every stuck passenger reads that hash. The shortest
  behaviour TLC found has two faults, two orders and 56 steps, so the property excepts it
  (`NoneStarted`).
* `TravelEndsStored` excepts a passenger that booked twice: its session holds the second
  order, and finishing that one leaves `NONE`, so the travel ends while the first is open
  (83 steps with three apps and two orders, without a fault). A passenger whose session
  expired is told nothing of either.
* `StartsToldOrder` excepts a driver that was booked twice and picks up before it was told
  of the second order: it starts the second one, which its session holds by then. Once a
  report of its ride was answered, it is no longer listed and keeps its order.
* `ActiveRidesAreDriven` and `StartsToldOrder` except a driver whose session expired: its
  reports no longer find the order that it drives, and the next booking creates its key
  again with an order that it was never asked about.
* `GhostsKeepOrders`: members of the geo set have no lifetime (`deal_cache.c:347`), and no
  one but an order's driver starts or finishes it. It speaks of apps that ended. A running
  app whose session expired is another matter: a booking writes the session's key again
  (`set_order.c`), and its next *catching* report then finds the key and unlists it.
* `PairedUnlessDoubleBooked` names double booking as the exception it is, and
  `RideNamesItsParties` allows an empty name: `finish_order.c` does not notice that a
  session has expired.

Seen while modelling, and left without a run of their own: a passenger's app says that a
driver took the order when one was merely chosen (`PassengerLocationChanged.cpp:146`); a
passenger who ordered twice may travel with an order that its driver never started; a
connection to Redis that breaks during `rop_is_key_exist` and three similar functions
ends the data server (`redis_op.c:100`), which `MissReply` models; `get_orderd` reads
`start_order_time` (`remote_store.c:1785`) where `startorder_real` wrote
`start_driving_time`, so a row's start time is always empty.

## 4. What is proved

For any sets of sessions, orders and users, any registered accounts, any number of
faults, dialogs and searches, and with expiry at any time:

| Theorem | Module | Statement |
|---|---|---|
| `TypeCorrect` | `OboServer_proofs` | `Spec => []TypeOK` |
| `HeldByParties` | | `Spec => []OrdersHeldByTheirParties` |
| `NoOrderIsLost` | | `Spec => NoOrderLost` |
| `HalfFinishedStays` | | `Spec => HalfFinishedForever` |
| `NamesExpire`, `AccountsMatch` | `OboAccounts_proofs` | `Spec => []NamedSessionsExpire`, `Spec => []SessionsMatchAccounts` |
| `LivesOnce` | `OboLife_proofs` | `Spec => OrdersLiveOnce`: the web server implements `OrderLife` |
| `StartedByItsDriver` | | `Spec => OnlyItsDriverStarts` |
| `RideNamesTheParties` | | `Spec => RideNamesItsParties` |
| `StoredRidesOver` | `OboQuiet_proofs` | `Spec => []StoredRidesAreOver` |
| `BusyUnlisted` | | `Spec => []BusyDriversUnlisted` |
| `PairedUnlessBookedTwice` | | `Spec => []PairedUnlessDoubleBooked` |
| `AppsAlwaysTyped` | `OboRide_proofs` | `RideSpec => []RideTypeOK` |
| `RequestsAreServers` | | `RideSpec => ServerRequests`: apps and server together implement `OboServer` |
| `RideKeepsOrders` | | nine of the results above, about orders, accounts and listed drivers, for the whole system |
| `RidesAreDriven` | `OboApps_proofs` | `RideSpec => []ActiveRidesAreDriven` |
| `StartsTold` | | `RideSpec => StartsToldOrder` |
| `TravelsEndStored` | | `RideSpec => TravelEndsStored` |
| `LostStartsStayLost`, `StuckStay` | | `RideSpec => LostStartStaysLost`, `RideSpec => StuckForever` |
| `GhostsKeep` | | `RideSpec => GhostsKeepOrders` |
| `CommandsImplemented` | `OboDataServer_proofs` | `~ErrorReplies => (DataSpec => ImplementsCommands)` |
| `OkIsDone` | | `DataSpec => []OkIsDoneOrHidden`, with error replies too |
| `DataTypeCorrect` | | `DataSpec => []DataTypeOK` |

**Assumptions.** `NamesAreDistinct`: session ids, order ids and user names are different
from one another and from the words the program uses as values (uuids with different
prefixes, and an account that is not called `NONE`, for instance). `RegisteredType` (of
the web server and of the data server: every registered account has one role),
`MaxFaultsType`, `DialogBound`, `AskedType`, `ErrorRepliesType`: the types of the other
constants. TLC evaluates all of them. `CommandsImplemented` needs `ErrorReplies = FALSE`;
finding 3 is why.

### Orders (`OboServer_proofs`)

`OrdersHeldByTheirParties` is not inductive: a handler binds or unbinds the sessions it
read or chose several calls ago, so what it does now is right only because of what held
then. The invariant `Inv` adds what the running handler knows:

* `Typed`: `TypeOK` with the kinds of the handler's locals at each label, without which
  a step could write a value of the wrong kind;
* `HeldWereIssued`: an order that a session names was issued, so a fresh order id is
  held by no one;
* `OrdersStay`: an order's hash has no expiry time, so an order disappears only through
  `DropOrder`;
* `BookingInv`: between `createOrder` and `bindPassenger`, what the handler is about to
  write into a session is an order whose hash already names that session;
* `FinishInv`: as long as a finish runs, its two sessions are the ones the order's hash
  names; after `clearDriver` the driver does not hold the order, after `clearPassenger`
  neither party does, and from `clearDriver` on the ride's row is stored.

`NextInv` goes through the actions; those that leave orders, sessions and the handler's
knowledge alone are dismissed together by `QuietStep`, those that write to a hash by
lemmas about `SetHash`. The two action properties follow from `Inv` by
`OnlyDropLosesOrders` (only the last call of a finish removes an order), `RidesStep` (a
row is written once, by the INSERT) and `AfterInsertEntered`.

### Accounts (`OboAccounts_proofs`)

`AccountInv` adds to `NamedSessionsExpire` what a login knows of the session it creates
(`LoginKnows`: no app was told of it, its hash has no name before `PutSession`, and has
an expiry time at the answer) and what is known of a session an app was told of
(`SessionKnown`: its hash carries the account's name or none). The argument is that the
name is written by one call only, and that every exit from the login between that call
and the next counts a fault.

### The life of an order (`OboLife_proofs`)

`OrdersLiveOnce` needs that nobody starts, finishes or resurrects an order that was not
completed: a booking that fails in the middle leaves a hash with some of its fields. The
invariant `LifeInv` says that every order that a session holds, an app was told or a
handler works on is `Complete`, and that the order of `createOrder` was never placed. Four
lemmas say what one step may do to an order's fields (`OrderStep`), to a session's order
id (`HoldsStep`), to the handler's order id (`WorkStep`) and to what an app was told
(`ToldStep`); `CompleteStays` and the induction follow from these without looking at the
actions again, and `StageStep` turns them into a step of `OrderLife`.

`PartyInv` says who may act: the parties of an order were handed out to a passenger and
to a driver, only drivers are listed, a report is handled in the role of its sender, and
the names a finish has read belong to the sessions it read them from. With
`OrdersHeldByTheirParties`, a driver that holds an order is the order's driver, since the
other party is a passenger.

### Days without a fault (`OboQuiet_proofs`)

Three properties hold between two requests and while no call has failed, so their
invariants have the premise `faults = 0` and must follow a handler through its calls,
where the properties themselves say nothing.

* `OverInv`: a stored order is gone, or the handler that stored it is still at one of its
  last three calls (`OverOrLeaving`), and what any other handler works on is not stored.
  That a finish goes on to its end without a fault is `LeavingGoesOn`.
* `BusyInv`: a listed driver's last answered status is not catching or driving
  (`ListedAreReady`), and a report that says so has taken its driver out of the pool before
  it is answered (`ReportedAreUnlisted`).
* `PairInv`: an order's hash is written as a whole or not at all (`Whole`), and while its
  passenger holds it, or is the next to be bound, its driver holds it (`Paired`), up to the
  call of its finish that clears the passenger's end, if no other order names that driver. An order names its driver by its hash, and once that is deleted by its row,
  which is why the property needs `DriversNamed`: what a finish reads as the driver's name
  is the name of the driver's account (`DriverRead`), so the row names the same driver
  (`RideNamed`) and a driver that was named stays named (`NamedStays`).

Four lemmas carry most of this and of what follows: `ReportStep`, `BookingStep` and
`FinishingStep` say where a handler of each kind comes from, and `HoldsLost` lists the five
calls, and the expiry, that take an order from a session.

### The whole system (`OboRide_proofs`)

Every action of `OboRide` but `Finish` is an action of `OboServer` by its definition.
`Finish` sends the order id that the app has, while `OboServer` assumes the one the
server last told it. `ToldOrder` is the invariant that makes them the same: they differ
only while a driver that has just finished is idle or ready without an open dialog, and
from there it cannot drive without a report in between. `ClientSet` says whose request
the server works on, so that an answer changes the right app.

### The apps (`OboApps_proofs`)

`ToldInv` says what an answer is worth: from `GetOrderid` to the answer the session still
holds the order that was read, or has expired. `AppInv` says that a report carries the
status that its app still has, that a finish is sent by a driver that drives the order it
finishes, and that no dialog is open over a screen that drives. `AppChange` lists what may
change an app; the theorems go through this list, and through `HoldsLost` for the sessions.

* `LostStartsStayLost` follows from `StartedBy`: only a report with `autosend`, sent by the
  order's driver, starts an order.
* `GhostsKeep` adds `PoolLost`, only a driver's own report takes it out of the pool, and
  `FinishedBy`: a finish is sent by the order's driver, whose app still runs, since the
  order of the request is the one its app was told and one that names it. So every step
  that would touch the order of an app that ended (`GhostOrderStays`) or unlist it has a
  client that did not end (`GhostsSilent`).
* `StuckStay`: a waiting passenger is told by the order that its answer names, which is
  `NONE` as long as its session holds none.
* `RidesAreDriven` needs `DrivenInv`: the driver of a started order was told of it and is
  not listed, so nobody books it (`BookedListed`) and it loses the order to the finish of
  that order only (`OrderKept`); its position was stored, or is about to be (`Located`).
* `TravelsEndStored` needs `TravelInv`: the order that a passenger's app has is the one its
  session holds until the order is stored (`TravelKept`), if it booked no other order. As
  with drivers, an order names its passenger by its hash or by its row (`PassengersNamed`).
* `StartsTold` needs `AskedAbout`: while a dialog is open, or the driver is catching or
  driving, it was told of the one order that names it, or that order is `Past`: issued, not
  held, and not about to be bound, and then its session never holds it again
  (`PastStays`). A driver is asked anew only by a report that told it of an order
  (`AskingBegins`), and that order names the driver (`ToldNamed`). For this a session that
  an app knows has an order id whenever it has a name (`SessionsWhole`): `remote_store.c:631`
  writes both in one pipeline, and a pipeline that was cut belongs to a login that failed.
  For a driver booked twice `KeepsTold` adds that from an answered *catching* or *driving*
  report to its finish its session keeps the order that its app has: it is unlisted
  (`ListedAreReady`), so no booking reaches it.

The apps' theorems hold with any number of faults, except `RidesAreDriven` and the part of
`StartsTold` about drivers booked twice, which speak of days without one.

### The data server (`OboDataServer_proofs`)

`JobInv` bounds the progress of a request (`Progress`: no more replies are read than
arrived, no more arrive than commands were executed, and what was not executed to the end
has no effect to report) and says that `ret = 0` only for what was done. The refinement
mapping `CallView` shows a request as *executed* from `Execute` on; `PipelineWrites` shows
that an executed prefix of a pipeline is one that `SetHash` allows.

`OkIsDone` needs `OkInv`: `ret = 0` is set by the last reply or by the answer to a single
command, and neither comes unless Redis executed the whole request or refused it. It has no
assumption on `ErrorReplies`, so it says what is left of *ok* beside finding 3.

`DataTypeCorrect` needs that a request writes what fits its key and its fields
(`RequestsTyped`), and that replies arrive only to what was executed or refused, no more
than there are commands, and are read only once they arrived (`Counted`).

### Only model-checked

The liveness properties (`OrdersAreServed`, `WaitsEnd`, `TravelsEnd`,
`BoundOrdersAreStored`, `RequestsEnd`), which are out of the prover's reach, and the three
properties that the code violates. Every other property that a run checks is stated by a
theorem.

## 5. What is not modelled

* A second login in the same app process, and an activity that Android destroys and
  creates again: both keep parts of class `Data` from before.
* Map drawing, the suggestion list, forms, toasts, activity lifecycle. An empty search
  result, which ends the passenger's app, is part of `SwitchOff`.
* Positions, distances, addresses, times, prices, passwords, the text of JSON and SQL.
* What Redis loses on a restart: `conf/redis.conf` has snapshots only, minutes apart, and
  no append-only file; the model keeps Redis's data.
* Buffer lengths (the 4096-byte answer buffer of `remote_store.c`, values longer than
  `VALUES_ID_SIZE`) and memory in general.
* MySQL's treatment of the empty `start_order_time` and the uniqueness of `id_card`; the
  model takes the INSERT of a new key to succeed.
* setString, which nobody sends, and the functions of `redis_op.c` that nothing calls.
* TLS, sockets, configuration files, logs.
* Vendored cJSON and libcurl, the manual tests, the map demos of the app.

## 6. Plan

Done: the modules of section 2 and the theorems of section 4. Left, in this order:

1. The safety part of `BoundOrdersAreStored` as a theorem: with any number of faults, what
   takes a bound order from its driver is its finish or another booking.
2. A Redis that restarts from an older snapshot: which properties of orders survive.
3. A second login in one process.
