------------------------------ MODULE OboStore ------------------------------
(***************************************************************************)
(* The two databases behind OBO, seen through the commands of the data     *)
(* server (OBO_server_data): Redis hashes, key expiry and the geo set of   *)
(* available drivers (deal_cache.c over redis_op.c), and the MySQL tables  *)
(* of users and of finished orders (deal_persistent.c).                    *)
(*                                                                         *)
(* Every command is one HTTPS request of the web server to the data        *)
(* server.  It has one of three outcomes:                                  *)
(*   "done"  it was executed and its answer came back;                     *)
(*   "lost"  it was not executed and the caller sees a failed curl call    *)
(*           or a "result":"error" (connection to Redis or MySQL refused); *)
(*   "cut"   it was executed, or an HSET pipeline was executed in part,    *)
(*           and the caller sees a failure (the answer was lost, the data  *)
(*           server died, the pipeline broke in the middle).               *)
(***************************************************************************)
EXTENDS Naturals, FiniteSets

CONSTANTS
  Sessions,     \* session ids that create_sessionid may return
  Orders,       \* order ids that create_orderid may return
  Users         \* user names

\* The empty string: what HGET of a missing field turns into, and a name of no one.
Nil == ""
\* ORDER_ID_NONE, the orderid of a session that has no order.
NONE == "NONE"

\* The three kinds of names are told apart from one another and from the
\* literals the code uses: uuids with different prefixes, and user names that
\* are not one of the program's own words.
ASSUME NamesAreDistinct ==
  /\ Sessions \cap Orders = {}
  /\ Sessions \cap Users = {}
  /\ Orders \cap Users = {}
  /\ {Nil, NONE, "INIT", "ACTIVE", "loc", "no row"}
       \cap (Sessions \cup Orders \cup Users) = {}

\* Redis keys that name a hash.  A request that carries the orderid "NONE" or an
\* unset orderid names the hashes "NONE" and "".
Keys == Sessions \cup Orders \cup {NONE, Nil}

\* The hash fields that decide anything.  "ptemp" and "dtemp" stand for the two
\* coordinates of the passenger's and of the driver's latest position: which values
\* they hold is abstracted, that they exist is not.
Fields == {"username", "orderid", "order_status", "passenger_sessionid",
           "driver_sessionid", "ptemp", "dtemp"}

Values == Sessions \cup Orders \cup Users \cup {Nil, NONE, "INIT", "ACTIVE", "loc"}

\* What the requests of the web server may leave in each field.
OrderNames == Orders \cup {NONE, Nil}
SessionNames == Sessions \cup {Nil}
UserNames == Users \cup {Nil}
WellTyped(h) ==
  /\ h.username \in UserNames
  /\ h.orderid \in OrderNames
  /\ h.order_status \in {Nil, "INIT", "ACTIVE"}
  /\ h.passenger_sessionid \in SessionNames
  /\ h.driver_sessionid \in SessionNames
  /\ h.ptemp \in {Nil, "loc"}
  /\ h.dtemp \in {Nil, "loc"}

Roles == {"driver", "passenger"}

\* The row of an order in OBO_TABLE_ORDER: the names of the two parties.
NoRide == [passenger |-> "no row", driver |-> "no row"]
Rides == [passenger : UserNames, driver : UserNames]

VARIABLES
  hash,         \* [Keys -> [Fields -> Values]]: Redis hashes, Nil = no such field
  ttl,          \* [Keys -> BOOLEAN]: the key has an expiry time
  pool,         \* ONLINE_DRIVER_GEO_ZSET: session ids of the listed drivers
  users,        \* [Users -> Roles or Nil]: OBO_TABLE_USER, Nil = no row
  rides         \* [OrderNames -> row or NoRide]: OBO_TABLE_ORDER

store == <<hash, ttl, pool, users, rides>>

EmptyHash == [f \in Fields |-> Nil]

Outcomes == {"done", "lost", "cut"}
Executed(r) == r # "lost"

\* rop_is_key_exist: Redis drops a hash with its last field.
Exists(k) == hash[k] # EmptyHash

-----------------------------------------------------------------------------
(* Commands of /cache.                                                     *)

\* The place of a field in the setHash requests that write it: session
\* (username, orderid), create_order (order_status, passenger_sessionid,
\* driver_sessionid, ...); a position is there once its second coordinate is.
Place(f) == CASE f \in {"orderid", "passenger_sessionid", "ptemp", "dtemp"} -> 2
              [] f = "driver_sessionid" -> 3
              [] OTHER                  -> 1

\* A pipeline of HSETs that was executed up to its n-th command.
Written(h, w, n) ==
  [f \in Fields |-> IF f \in DOMAIN w /\ Place(f) <= n THEN w[f] ELSE h[f]]

\* setHash: one HSET per field, pipelined; a broken connection leaves a prefix.
SetHash(k, w, r) ==
  /\ \E n \in 0..3 :
       /\ r = "done" => n = 3
       /\ r = "lost" => n = 0
       /\ r = "cut"  => n > 0
       /\ hash' = [hash EXCEPT ![k] = Written(@, w, n)]
  /\ UNCHANGED <<ttl, pool, users, rides>>

\* setLifecycle: EXPIRE, which does nothing on a missing key.
SetLifecycle(k, r) ==
  /\ ttl' = IF Executed(r) /\ Exists(k) THEN [ttl EXCEPT ![k] = TRUE] ELSE ttl
  /\ UNCHANGED <<hash, pool, users, rides>>

\* deleteKey: DEL.
DeleteKey(k, r) ==
  /\ hash' = IF Executed(r) THEN [hash EXCEPT ![k] = EmptyHash] ELSE hash
  /\ ttl' = IF Executed(r) THEN [ttl EXCEPT ![k] = FALSE] ELSE ttl
  /\ UNCHANGED <<pool, users, rides>>

\* remZset: ZREM, whose result is not looked at.
RemZset(m, r) ==
  /\ pool' = IF Executed(r) THEN pool \ {m} ELSE pool
  /\ UNCHANGED <<hash, ttl, users, rides>>

\* addGeo: GEOADD.
AddGeo(m, r) ==
  /\ pool' = IF Executed(r) THEN pool \cup {m} ELSE pool
  /\ UNCHANGED <<hash, ttl, users, rides>>

\* radiusGeo: GEORADIUS ... ASC.  Positions are abstracted, so the first driver
\* of the answer is any listed driver, and none may be within the radius.
RadiusGeo == pool \cup {Nil}

\* Redis removes a key whose time is up, at any moment.
Expire(k) ==
  /\ ttl[k]
  /\ hash' = [hash EXCEPT ![k] = EmptyHash]
  /\ ttl' = [ttl EXCEPT ![k] = FALSE]
  /\ UNCHANGED <<pool, users, rides>>

-----------------------------------------------------------------------------
(* Commands of /persistent.                                                *)

\* insert_table_user, under the unique user name of OBO_TABLE_USER.
InsertUser(u, role, r) ==
  /\ users' = IF Executed(r) /\ users[u] = Nil
              THEN [users EXCEPT ![u] = role] ELSE users
  /\ UNCHANGED <<hash, ttl, pool, rides>>

\* insert_table_order, under the primary key orderid of OBO_TABLE_ORDER.
InsertOrder(o, p, d, r) ==
  /\ rides' = IF Executed(r) /\ rides[o] = NoRide
              THEN [rides EXCEPT ![o] = [passenger |-> p, driver |-> d]] ELSE rides
  /\ UNCHANGED <<hash, ttl, pool, users>>

\* Slip: the "driver" column is left out of the query.
UserMatches_AnyRole(u, role) == users[u] # Nil /\ role \in Roles

\* check_username: the row must match the name and the "driver" column; the
\* password comparison is the caller's.
UserMatches(u, role) == users[u] = role

StoreInit(registered) ==
  /\ hash = [k \in Keys |-> EmptyHash]
  /\ ttl = [k \in Keys |-> FALSE]
  /\ pool = {}
  /\ users = registered
  /\ rides = [o \in OrderNames |-> NoRide]

StoreTypeOK ==
  /\ hash \in [Keys -> [Fields -> Values]]
  /\ \A k \in Keys : WellTyped(hash[k])
  /\ ttl \in [Keys -> BOOLEAN]
  /\ pool \subseteq Sessions
  /\ users \in [Users -> Roles \cup {Nil}]
  /\ rides \in [OrderNames -> Rides \cup {NoRide}]
=============================================================================
