----------------------------- MODULE OboRequests -----------------------------
(***************************************************************************)
(* The requests that the web server (remote_store.c) sends to the data      *)
(* server, and the command of OboStore that each one stands for.            *)
(***************************************************************************)
EXTENDS OboStore, Sequences

\* What /cache and /persistent are asked to do; w holds the values to write.
Request(cmd, key, fields, w) == [cmd |-> cmd, key |-> key, fields |-> fields, write |-> w]

\* session, create_order, startorder_real, set_orderid, set_ptemp_location and
\* set_dtemp_location, with the fields that OboStore knows in their order.
SetHashRequests ==
  {Request("setHash", s, <<"username", "orderid">>, [username |-> u, orderid |-> NONE]) :
     s \in Sessions, u \in Users}
  \cup {Request("setHash", o, <<"order_status", "passenger_sessionid", "driver_sessionid">>,
          [order_status |-> "INIT", passenger_sessionid |-> p, driver_sessionid |-> d]) :
          o \in Orders, p \in Sessions, d \in Sessions}
  \cup {Request("setHash", o, <<"order_status">>, [order_status |-> "ACTIVE"]) : o \in Orders}
  \cup {Request("setHash", s, <<"orderid">>, [orderid |-> o]) :
          s \in Sessions, o \in Orders \cup {NONE}}
  \cup {Request("setHash", o, <<"ptemp">>, [ptemp |-> "loc"]) : o \in Orders}
  \cup {Request("setHash", o, <<"dtemp">>, [dtemp |-> "loc"]) : o \in Orders}

\* get_orderid, get_username, get_order_status and the reads of get_orderd.
GetHashRequests ==
  {Request("getHash", s, fields, <<>>) :
     s \in Sessions, fields \in {<<"orderid">>, <<"username">>}}
  \cup {Request("getHash", o, fields, <<>>) :
          o \in Orders, fields \in {<<"order_status">>,
                                    <<"passenger_sessionid", "driver_sessionid">>}}

OtherCacheRequests ==
  {Request(cmd, s, <<>>, <<>>) :
     cmd \in {"setLifecycle", "existKey", "addGeo", "remZset"}, s \in Sessions}
  \cup {Request("deleteKey", o, <<>>, <<>>) : o \in Orders}
  \cup {Request("radiusGeo", Nil, <<>>, <<>>)}

PersistentRequests ==
  {Request(cmd, u, <<>>, [role |-> role]) :
     cmd \in {"insertUser", "query"}, u \in Users, role \in Roles}
  \cup {Request("insertOrder", o, <<>>, [passenger |-> p, driver |-> d]) :
          o \in Orders, p \in UserNames, d \in UserNames}

CacheRequests == SetHashRequests \cup GetHashRequests \cup OtherCacheRequests
Requests == CacheRequests \cup PersistentRequests

-----------------------------------------------------------------------------
(* What a request does, and what is answered when all goes well.           *)

Unchanged == UNCHANGED <<hash, ttl, pool, users, rides>>

\* The action of OboStore that executes a request.
Command(q, r) ==
  \/ q.cmd = "setHash" /\ SetHash(q.key, q.write, r)
  \/ q.cmd = "setLifecycle" /\ SetLifecycle(q.key, r)
  \/ q.cmd = "deleteKey" /\ DeleteKey(q.key, r)
  \/ q.cmd = "addGeo" /\ AddGeo(q.key, r)
  \/ q.cmd = "remZset" /\ RemZset(q.key, r)
  \/ q.cmd = "insertUser" /\ InsertUser(q.key, q.write.role, r)
  \/ q.cmd = "insertOrder" /\ InsertOrder(q.key, q.write.passenger, q.write.driver, r)
  \/ q.cmd \in {"getHash", "existKey", "radiusGeo", "query"} /\ Unchanged

\* EXISTS, EXPIRE and DEL of a missing key, an INSERT of a row that is there and a
\* query that finds none are errors.
Succeeds(q) ==
  CASE q.cmd \in {"existKey", "setLifecycle", "deleteKey"} -> Exists(q.key)
    [] q.cmd = "insertUser"  -> users[q.key] = Nil
    [] q.cmd = "insertOrder" -> rides[q.key] = NoRide
    [] q.cmd = "query"       -> UserMatches(q.key, q.write.role)
    [] OTHER                 -> TRUE

\* The values that are answered: those of the fields, or the listed drivers.
Answer(q) ==
  CASE q.cmd = "getHash"   -> [i \in 1..Len(q.fields) |-> hash[q.key][q.fields[i]]]
    [] q.cmd = "radiusGeo" -> <<pool>>
    [] OTHER               -> <<>>
=============================================================================
