--------------------------- MODULE OboStore_proofs ---------------------------
(***************************************************************************)
(* What the commands of the data server do to the two databases, for every *)
(* set of sessions, orders and users: the lemmas that the proofs about the *)
(* web server and about the data server share.                             *)
(***************************************************************************)
EXTENDS OboStore, TLAPS

-----------------------------------------------------------------------------
(* Names and pipelines.                                                    *)

\* A name of one kind is not a name of another.
LEMMA NamesApart ==
  /\ \A o \in Orders : o \notin Sessions /\ o # NONE /\ o # Nil
  /\ \A s \in Sessions : s # NONE /\ s # Nil
  BY NamesAreDistinct

\* Every HSET of a pipeline has a place among the first three.
LEMMA PlaceBounds == ASSUME NEW f PROVE Place(f) \in 1..3
  BY DEF Place

\* The values that w writes are of the kinds of the fields they are written to.
TypedWrite(w) ==
  /\ DOMAIN w \subseteq Fields
  /\ \A f \in DOMAIN w : w[f] \in Values
  /\ "username" \in DOMAIN w => w["username"] \in UserNames
  /\ "orderid" \in DOMAIN w => w["orderid"] \in OrderNames
  /\ "order_status" \in DOMAIN w => w["order_status"] \in {Nil, "INIT", "ACTIVE"}
  /\ "passenger_sessionid" \in DOMAIN w => w["passenger_sessionid"] \in SessionNames
  /\ "driver_sessionid" \in DOMAIN w => w["driver_sessionid"] \in SessionNames
  /\ "ptemp" \in DOMAIN w => w["ptemp"] \in {Nil, "loc"}
  /\ "dtemp" \in DOMAIN w => w["dtemp"] \in {Nil, "loc"}

\* setHash changes one key; each field keeps its value or takes the one written,
\* a field that is not written keeps it, and a successful call writes them all.
LEMMA SetHashWrites ==
  ASSUME hash \in [Keys -> [Fields -> Values]], NEW k \in Keys, NEW w, NEW r \in Outcomes,
         \A f \in DOMAIN w : w[f] \in Values,
         SetHash(k, w, r)
  PROVE  /\ hash' \in [Keys -> [Fields -> Values]]
         /\ \A j \in Keys \ {k} : hash'[j] = hash[j]
         /\ \A f \in Fields : \/ hash'[k][f] = hash[k][f]
                              \/ f \in DOMAIN w /\ hash'[k][f] = w[f]
         /\ r = "done" => \A f \in Fields \cap DOMAIN w : hash'[k][f] = w[f]
         /\ r = "lost" => hash' = hash
<1>1. PICK n \in 0..3 : /\ r = "done" => n = 3
                        /\ r = "lost" => n = 0
                        /\ hash' = [hash EXCEPT ![k] = Written(@, w, n)]
  BY DEF SetHash
<1>2. hash' = [hash EXCEPT ![k] = Written(hash[k], w, n)]
  BY <1>1
<1>3. Written(hash[k], w, n) \in [Fields -> Values]
  BY DEF Written
<1>4. \A f \in Fields : hash'[k][f] = IF f \in DOMAIN w /\ Place(f) <= n
                                      THEN w[f] ELSE hash[k][f]
  BY <1>2 DEF Written
<1>5. hash' \in [Keys -> [Fields -> Values]] /\ \A j \in Keys \ {k} : hash'[j] = hash[j]
  BY <1>2, <1>3
<1>6. r = "lost" => hash' = hash
  <2> SUFFICES ASSUME n = 0 PROVE Written(hash[k], w, n) = hash[k]
    BY <1>1, <1>2
  <2>1. \A f \in Fields : ~(Place(f) <= n)
    BY PlaceBounds
  <2> QED BY <2>1 DEF Written
<1>7. r = "done" => \A f \in Fields \cap DOMAIN w : hash'[k][f] = w[f]
  BY <1>1, <1>4, PlaceBounds
<1> QED BY <1>4, <1>5, <1>6, <1>7

\* A setHash of typed values leaves the databases typed.
LEMMA SetHashTyped ==
  ASSUME StoreTypeOK, NEW k \in Keys, NEW w, TypedWrite(w), NEW r \in Outcomes,
         SetHash(k, w, r)
  PROVE  StoreTypeOK'
<1>1. /\ hash' \in [Keys -> [Fields -> Values]]
      /\ \A j \in Keys \ {k} : hash'[j] = hash[j]
      /\ \A f \in Fields : \/ hash'[k][f] = hash[k][f]
                           \/ f \in DOMAIN w /\ hash'[k][f] = w[f]
  BY SetHashWrites DEF StoreTypeOK, TypedWrite
<1>2. \A j \in Keys : WellTyped(hash[j])
  BY DEF StoreTypeOK
<1>3. WellTyped(hash'[k])
  BY <1>1, <1>2 DEF WellTyped, TypedWrite, Fields
<1>4. \A j \in Keys : WellTyped(hash'[j])
  BY <1>1, <1>2, <1>3
<1>5. UNCHANGED <<ttl, pool, users, rides>>
  BY DEF SetHash
<1> QED BY <1>1, <1>4, <1>5 DEF StoreTypeOK

\* A missing key reads as a well-typed hash.
LEMMA EmptyHashTyped == WellTyped(EmptyHash) /\ EmptyHash \in [Fields -> Values]
  BY DEF WellTyped, EmptyHash, Fields, Values, UserNames, OrderNames, SessionNames

-----------------------------------------------------------------------------
(* Every command leaves the databases typed.                               *)

\* The databases start typed.
LEMMA StoreInitTyped ==
  ASSUME NEW registered \in [Users -> Roles \cup {Nil}], StoreInit(registered)
  PROVE  StoreTypeOK
  BY EmptyHashTyped DEF StoreInit, StoreTypeOK

\* EXPIRE, DEL and the expiry of a key write no value.
LEMMA KeyCommandsTyped ==
  ASSUME StoreTypeOK, NEW k \in Keys, NEW r,
         SetLifecycle(k, r) \/ DeleteKey(k, r) \/ Expire(k)
  PROVE  StoreTypeOK'
<1>1. CASE SetLifecycle(k, r)
  BY <1>1 DEF SetLifecycle, StoreTypeOK
<1>2. CASE DeleteKey(k, r)
  BY <1>2, EmptyHashTyped DEF DeleteKey, StoreTypeOK
<1>3. CASE Expire(k)
  BY <1>3, EmptyHashTyped DEF Expire, StoreTypeOK
<1> QED BY <1>1, <1>2, <1>3

\* Only sessions are listed.
LEMMA PoolCommandsTyped ==
  ASSUME StoreTypeOK, NEW m \in Sessions, NEW r, AddGeo(m, r) \/ RemZset(m, r)
  PROVE  StoreTypeOK'
  BY DEF AddGeo, RemZset, StoreTypeOK

\* The rows of the two tables are of their kinds.
LEMMA RowsTyped ==
  ASSUME StoreTypeOK, NEW r
  PROVE  /\ \A u \in Users, role \in Roles : InsertUser(u, role, r) => StoreTypeOK'
         /\ \A o \in OrderNames, p \in UserNames, d \in UserNames :
              InsertOrder(o, p, d, r) => StoreTypeOK'
<1>1. ASSUME NEW u \in Users, NEW role \in Roles, InsertUser(u, role, r) PROVE StoreTypeOK'
  BY <1>1 DEF InsertUser, StoreTypeOK
<1>2. ASSUME NEW o \in OrderNames, NEW p \in UserNames, NEW d \in UserNames,
             InsertOrder(o, p, d, r)
      PROVE  StoreTypeOK'
  <2>1. [passenger |-> p, driver |-> d] \in Rides
    BY DEF Rides
  <2> QED BY <1>2, <2>1 DEF InsertOrder, StoreTypeOK
<1> QED BY <1>1, <1>2
=============================================================================
