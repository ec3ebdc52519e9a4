---------------------------- MODULE OrderProofs ----------------------------
(***************************************************************************)
(* Proofs about OrderService for any number of orders, keys, requests and  *)
(* status updates, however they interleave, and any number of restarts.    *)
(***************************************************************************)
EXTENDS OrderService, TLAPS

-----------------------------------------------------------------------------
(* The inductive invariant.  An order is seen in three places: in the map, in  *)
(* Redis and in answers.  Wherever it is seen it was made by the call that     *)
(* minted its id, out of that call's request, and it is in the map as long as  *)
(* no restart has come since.                                                  *)

Made(o) ==
    /\ create[o.id] # Nil /\ create[o.id].pc \in {"done", "old"}
    /\ o.items = create[o.id].req.items
    /\ o.total = calculateTotal(o.items)
    /\ create[o.id].pc = "done" => orders[o.id] # Nil

StoredIsMade(id) ==
    orders[id] # Nil =>
        /\ orders[id].id = id /\ Made(orders[id])
        /\ orders[id].key = create[id].req.key
        /\ create[id].pc = "done"

\* No two orders in the map share a key.
UniqueKey ==
    \A a, b \in Orders :
        /\ orders[a] # Nil /\ orders[b] # Nil
        /\ orders[a].key = orders[b].key /\ orders[a].key # NoKey
        => a = b

CachedIsMade(x) ==
    /\ x[2] \in Order /\ Made(x[2])
    /\ x[2].key = create[x[2].id].req.key /\ x[2].key # NoKey
    /\ x[1] = GenerateKey("create", x[2].key)

\* The order of an answer has the key of the request that is answered, and for a
\* request without a key it is its own.
ReplyIsMade(a) ==
    create[a] # Nil /\ create[a].reply # Nil =>
        /\ create[a].reply.id \in Orders /\ Made(create[a].reply)
        /\ create[create[a].reply.id].req.key = create[a].req.key
        /\ create[a].req.key = NoKey => create[a].reply.id = a

IInv ==
    /\ TypeOK
    /\ \A id \in Orders : StoredIsMade(id) /\ ReplyIsMade(id)
    /\ UniqueKey
    /\ \A x \in cache : CachedIsMade(x)

-----------------------------------------------------------------------------

\* What no step does to the call d: it stays the same request, is not answered
\* twice, and its order stays in the map until a restart.
Keeps(d) ==
    create[d] # Nil =>
        /\ create'[d] # Nil /\ create'[d].req = create[d].req
        /\ create[d].pc \in {"done", "old"} => create'[d].pc \in {"done", "old"}
        /\ create[d].pc = "old" => create'[d].pc = "old"
        /\ orders[d] # Nil /\ create'[d].pc = "done" => orders'[d] # Nil

\* So an order that was made stays made.
LEMMA MadeStays ==
    ASSUME NEW o, o.id \in Orders, Made(o), Keeps(o.id)
    PROVE  Made(o)' /\ create'[o.id].req = create[o.id].req
  BY DEF Made, Keeps

\* OrderToProto keeps everything but the key.
LEMMA ProtoFacts ==
    ASSUME NEW o \in Order
    PROVE  /\ OrderToProto(o) \in Proto
           /\ OrderToProto(o).id = o.id /\ OrderToProto(o).items = o.items
           /\ OrderToProto(o).total = o.total /\ o.id \in Orders
  BY DEF OrderToProto, Order, Proto

\* A CreateOrder handler that moves to p with the answer r leaves the others alone
\* and its request as it was.
LEMMA MoveFacts ==
    ASSUME TypeOK, NEW a \in Orders, create[a] # Nil, create[a].pc \in {"get", "lock"},
           NEW p, NEW r,
           \/ p \in {"lock", "lost"} /\ r = Nil /\ create' = [create EXCEPT ![a].pc = p]
           \/ /\ p = "done" /\ r \in Proto
              /\ create' = [create EXCEPT ![a].pc = p, ![a].reply = r]
    PROVE  /\ create' \in [Orders -> Create \cup {Nil}]
           /\ create'[a] # Nil /\ create'[a].pc = p /\ create'[a].reply = r
           /\ create'[a].req = create[a].req
           /\ \A d \in Orders \ {a} : create'[d] = create[d]
<1> DEFINE new == [create[a] EXCEPT !.pc = p, !.reply = r]
<1>1. create[a] \in Create /\ create[a].reply = Nil
  BY DEF TypeOK, Create
<1>2. new \in Create /\ new.pc = p /\ new.reply = r /\ new.req = create[a].req
  BY <1>1 DEF Create
<1>3. create' = [create EXCEPT ![a] = new]
  <2>1. CASE create' = [create EXCEPT ![a].pc = p, ![a].reply = r]
    BY <2>1 DEF TypeOK
  <2>2. CASE r = Nil /\ create' = [create EXCEPT ![a].pc = p]
    <3>1. new = [create[a] EXCEPT !.pc = p]
      BY <1>1, <2>2 DEF Create
    <3> QED
      BY <2>2, <3>1 DEF TypeOK
  <2> QED
    BY <2>1, <2>2
<1>4. new # Nil
  BY <1>2, UnusedAssumption
<1> QED
  BY <1>2, <1>3, <1>4 DEF TypeOK

\* The invariant holds for the map NewOrderServer makes.
LEMMA InitInv == Init => IInv
<1> SUFFICES ASSUME Init PROVE IInv
  OBVIOUS
<1>1. TypeOK
  BY DEF Init, TypeOK
<1>2. \A id \in Orders : StoredIsMade(id) /\ ReplyIsMade(id)
  BY DEF Init, StoredIsMade, ReplyIsMade
<1>3. UniqueKey /\ \A x \in cache : CachedIsMade(x)
  BY DEF Init, UniqueKey
<1> QED
  BY <1>1, <1>2, <1>3 DEF IInv

\* A step that changes at most one CreateOrder handler and keeps the map keeps the
\* invariant, if the answer it gives was made.
LEMMA OwnCallInv ==
    ASSUME IInv, NEW a \in Orders, UNCHANGED <<orders, cache>>, TypeOK',
           create[a] = Nil \/ create[a].pc \in {"get", "lock"},
           create[a] # Nil => create'[a] # Nil /\ create'[a].req = create[a].req,
           \A d \in Orders \ {a} : create'[d] = create[d],
           ReplyIsMade(a)'
    PROVE  IInv'
<1>1. \A d \in Orders : Keeps(d)
  BY DEF Keeps
<1>2. ASSUME NEW id \in Orders PROVE StoredIsMade(id)'
  <2> SUFFICES ASSUME orders[id] # Nil PROVE StoredIsMade(id)'
    BY DEF StoredIsMade
  <2>1. /\ orders[id].id = id /\ Made(orders[id])
        /\ orders[id].key = create[id].req.key /\ create[id].pc = "done"
    BY DEF IInv, StoredIsMade
  <2>2. create[id] # Nil /\ id # a
    BY <2>1 DEF Made
  <2>3. create'[id] = create[id]
    BY <2>2
  <2> QED
    BY <2>1, <2>3 DEF StoredIsMade, Made
<1>3. ASSUME NEW id \in Orders PROVE ReplyIsMade(id)'
  <2>1. CASE id = a
    BY <2>1
  <2>2. CASE id # a
    <3> SUFFICES ASSUME create[id] # Nil, create[id].reply # Nil PROVE ReplyIsMade(id)'
      BY <2>2 DEF ReplyIsMade
    <3>1. PICK r : r = create[id].reply /\ create'[id] = create[id]
      BY <2>2
    <3>2. r.id \in Orders /\ Made(r)
      BY <3>1 DEF IInv, ReplyIsMade
    <3>3. Made(r)' /\ create'[r.id].req = create[r.id].req
      BY <1>1, <3>2, MadeStays
    <3>4. /\ create[r.id].req.key = create[id].req.key
          /\ create[id].req.key = NoKey => r.id = id
      BY <3>1 DEF IInv, ReplyIsMade
    <3> QED
      BY <3>1, <3>2, <3>3, <3>4 DEF ReplyIsMade
  <2> QED
    BY <2>1, <2>2
<1>4. UniqueKey'
  BY DEF IInv, UniqueKey
<1>5. ASSUME NEW x \in cache PROVE CachedIsMade(x)'
  <2>1. x[2] \in Order /\ Made(x[2]) /\ x[2].id \in Orders
    BY DEF IInv, CachedIsMade, Order
  <2>2. Made(x[2])' /\ create'[x[2].id].req = create[x[2].id].req
    BY <1>1, <2>1, MadeStays
  <2> QED
    BY <2>1, <2>2 DEF IInv, CachedIsMade
<1> QED
  BY <1>2, <1>3, <1>4, <1>5 DEF IInv

-----------------------------------------------------------------------------

\* A request that arrives is not answered yet.
LEMMA CreateOrderInv ==
    ASSUME IInv, NEW a \in Orders, NEW q \in Requests, CreateOrder(a, q)
    PROVE  IInv'
<1> DEFINE new == [req |-> q, pc |-> "get", reply |-> Nil]
<1>1. new \in Create
  BY DEF Create
<1>2. /\ create[a] = Nil /\ create'[a] = new
      /\ \A d \in Orders \ {a} : create'[d] = create[d]
      /\ UNCHANGED <<orders, cache, update>>
  BY DEF CreateOrder, IInv, TypeOK
<1>3. TypeOK'
  BY <1>1, <1>2 DEF CreateOrder, IInv, TypeOK
<1>4. ReplyIsMade(a)'
  BY <1>2 DEF ReplyIsMade
<1> QED
  BY <1>2, <1>3, <1>4, OwnCallInv

\* A lookup that misses and a request that is lost answer nothing.
LEMMA MoveInv ==
    ASSUME IInv, NEW a \in Orders, create[a] # Nil, create[a].pc \in {"get", "lock"},
           NEW p \in {"lock", "lost"}, create' = [create EXCEPT ![a].pc = p],
           UNCHANGED <<orders, cache, update>>
    PROVE  IInv'
<1>1. TypeOK
  BY DEF IInv
<1>2. /\ create' \in [Orders -> Create \cup {Nil}]
      /\ create'[a] # Nil /\ create'[a].reply = Nil
      /\ create'[a].req = create[a].req
      /\ \A d \in Orders \ {a} : create'[d] = create[d]
  BY <1>1, MoveFacts
<1>3. TypeOK'
  BY <1>1, <1>2 DEF TypeOK
<1>4. ReplyIsMade(a)'
  BY <1>2 DEF ReplyIsMade
<1> QED
  BY <1>2, <1>3, <1>4, OwnCallInv

\* An answer from Redis or from the scan: an order that was made for the key of
\* the request is answered, and nothing else happens.
LEMMA AnswerInv ==
    ASSUME IInv, NEW a \in Orders, create[a] # Nil, create[a].pc \in {"get", "lock"},
           NEW o \in Order, Reply(a, o), UNCHANGED <<orders, cache, update>>,
           Made(o), create[a].req.key # NoKey,
           create[o.id].req.key = create[a].req.key
    PROVE  IInv'
<1> DEFINE r == OrderToProto(o)
<1>1. /\ r \in Proto /\ r.id = o.id /\ r.items = o.items /\ r.total = o.total
      /\ o.id \in Orders
  BY ProtoFacts
<1>2. TypeOK /\ create' = [create EXCEPT ![a].pc = "done", ![a].reply = r]
  BY DEF Reply, IInv
<1> HIDE DEF r
<1>3. /\ create' \in [Orders -> Create \cup {Nil}]
      /\ create'[a] # Nil /\ create'[a].pc = "done" /\ create'[a].reply = r
      /\ create'[a].req = create[a].req
      /\ \A d \in Orders \ {a} : create'[d] = create[d]
  BY <1>1, <1>2, MoveFacts
<1>4. TypeOK'
  BY <1>2, <1>3 DEF TypeOK
<1>5. o.id # a /\ create'[o.id] = create[o.id]
  BY <1>1, <1>3 DEF Made
<1>6. Made(r)'
  BY <1>1, <1>5 DEF Made, r
<1>7. ReplyIsMade(a)'
  BY <1>1, <1>3, <1>5, <1>6 DEF ReplyIsMade, Made
<1> QED
  BY <1>3, <1>4, <1>7, OwnCallInv

\* The lookup in Redis.
LEMMA CreateGetInv ==
    ASSUME IInv, NEW a \in Orders, CreateGet(a)
    PROVE  IInv'
<1> DEFINE key == create[a].req.key
<1>1. /\ create[a] # Nil /\ create[a].pc \in {"get", "lock"}
      /\ UNCHANGED <<orders, cache, update>>
  BY DEF CreateGet, CreateAt
<1>2. ASSUME key # NoKey, NEW o \in GetHits(cache, GenerateKey("create", key)), Reply(a, o)
      PROVE  IInv'
  <2>1. PICK x \in cache : x[1] = GenerateKey("create", key) /\ x[2] = o
    BY <1>2 DEF GetHits
  <2>2. /\ o \in Order /\ Made(o)
        /\ o.key = create[o.id].req.key
        /\ GenerateKey("create", key) = GenerateKey("create", o.key)
    BY <2>1 DEF IInv, CachedIsMade
  <2>3. o.key = key
    BY <2>2 DEF GenerateKey
  <2> QED
    BY <1>1, <1>2, <2>2, <2>3, AnswerInv
<1>3. CASE create' = [create EXCEPT ![a].pc = "lock"]
  BY <1>1, <1>3, MoveInv
<1> QED
  BY <1>2, <1>3 DEF CreateGet

\* The step of the critical section that makes a new order.
Makes(a) ==
    LET req == create[a].req
        new == OrderFromProto(a, req)
    IN
    /\ CreateAt(a, "lock")
    /\ SameKey(req.key) = {}
    /\ orders' = [orders EXCEPT ![a] = new]
    /\ IF req.key = NoKey
       THEN UNCHANGED cache
       ELSE cache' \in Set(cache, GenerateKey("create", req.key), new)
    /\ Reply(a, new)
    /\ UNCHANGED update

\* A new order is made out of the request at hand, and its key is new to the map.
LEMMA MakesInv ==
    ASSUME IInv, NEW a \in Orders, Makes(a)
    PROVE  IInv'
<1>1. PICK q, new : q = create[a].req /\ new = OrderFromProto(a, q)
  OBVIOUS
<1>2. /\ TypeOK /\ create[a] # Nil /\ create[a].pc = "lock" /\ create[a] \in Create
      /\ q \in Requests
  <2>1. TypeOK /\ create[a] # Nil /\ create[a].pc = "lock"
    BY DEF Makes, CreateAt, IInv
  <2> QED
    BY <1>1, <2>1 DEF TypeOK, Create
<1>3. /\ new \in Order /\ new.id = a /\ new.items = q.items /\ new.key = q.key
      /\ new.total = calculateTotal(new.items) /\ new # Nil
  <2>1. new = [id |-> a, items |-> q.items, total |-> calculateTotal(q.items),
               status |-> "PENDING", key |-> q.key]
    BY <1>1 DEF OrderFromProto
  <2>2. new \in Order
    BY <1>2, <2>1, OrderRequestsAssumption DEF Order, Status
  <2> QED
    BY <2>1, <2>2, UnusedAssumption
<1> DEFINE r == OrderToProto(new)
<1>4. /\ r \in Proto /\ r.id = a /\ r.items = new.items /\ r.total = new.total
  BY <1>3, ProtoFacts
<1>5. create' = [create EXCEPT ![a].pc = "done", ![a].reply = r]
  BY <1>1 DEF Makes, Reply
<1> HIDE DEF r
<1>6. /\ create' \in [Orders -> Create \cup {Nil}]
      /\ create'[a] # Nil /\ create'[a].pc = "done" /\ create'[a].reply = r
      /\ create'[a].req = q
      /\ \A d \in Orders \ {a} : create'[d] = create[d]
  <2>1. TypeOK /\ create[a] # Nil /\ create[a].pc \in {"get", "lock"} /\ r \in Proto
    BY <1>2, <1>4
  <2>2. /\ create' \in [Orders -> Create \cup {Nil}]
        /\ create'[a] # Nil /\ create'[a].pc = "done" /\ create'[a].reply = r
        /\ create'[a].req = create[a].req
        /\ \A d \in Orders \ {a} : create'[d] = create[d]
    BY <1>5, <2>1, MoveFacts
  <2> QED
    BY <1>1, <2>2
<1>7. /\ orders' \in [Orders -> Order \cup {Nil}]
      /\ orders'[a] = new
      /\ \A d \in Orders \ {a} : orders'[d] = orders[d]
  BY <1>1, <1>2, <1>3 DEF Makes, TypeOK
<1>8. TypeOK'
  BY <1>2, <1>6, <1>7 DEF Makes, TypeOK
<1>9. Made(new)' /\ Made(r)'
  BY <1>3, <1>4, <1>6, <1>7 DEF Made
<1>10. ASSUME NEW d \in Orders PROVE Keeps(d)
  BY <1>1, <1>2, <1>3, <1>6, <1>7 DEF Keeps
<1>11. ASSUME NEW id \in Orders PROVE StoredIsMade(id)'
  <2>1. CASE id = a
    BY <1>3, <1>6, <1>7, <1>9, <2>1 DEF StoredIsMade, Made
  <2>2. CASE id # a
    <3> SUFFICES ASSUME orders[id] # Nil PROVE StoredIsMade(id)'
      BY <1>7, <2>2 DEF StoredIsMade
    <3>1. /\ orders[id].id = id /\ Made(orders[id])
          /\ orders[id].key = create[id].req.key /\ create[id].pc = "done"
      BY DEF IInv, StoredIsMade
    <3>2. orders'[id] = orders[id] /\ create'[id] = create[id]
      BY <1>6, <1>7, <2>2
    <3> QED
      BY <3>1, <3>2 DEF StoredIsMade, Made
  <2> QED
    BY <2>1, <2>2
<1>12. ASSUME NEW id \in Orders PROVE ReplyIsMade(id)'
  <2>1. CASE id = a
    BY <1>4, <1>6, <1>9, <2>1 DEF ReplyIsMade, Made
  <2>2. CASE id # a
    <3> SUFFICES ASSUME create[id] # Nil, create[id].reply # Nil PROVE ReplyIsMade(id)'
      BY <1>6, <2>2 DEF ReplyIsMade
    <3>1. PICK t : t = create[id].reply /\ create'[id] = create[id]
      BY <1>6, <2>2
    <3>2. t.id \in Orders /\ Made(t)
      BY <3>1 DEF IInv, ReplyIsMade
    <3>3. Made(t)' /\ create'[t.id].req = create[t.id].req
      BY <1>10, <3>2, MadeStays
    <3>4. /\ create[t.id].req.key = create[id].req.key
          /\ create[id].req.key = NoKey => t.id = id
      BY <3>1 DEF IInv, ReplyIsMade
    <3> QED
      BY <3>1, <3>2, <3>3, <3>4 DEF ReplyIsMade
  <2> QED
    BY <2>1, <2>2
<1>13. UniqueKey'
  <2>1. \A d \in Orders : q.key # NoKey /\ orders[d] # Nil => orders[d].key # q.key
    BY <1>1 DEF Makes, SameKey
  <2> QED
    BY <1>3, <1>7, <2>1 DEF IInv, UniqueKey
<1>14. ASSUME NEW x \in cache' PROVE CachedIsMade(x)'
  <2>1. CASE x \in cache
    <3>1. x[2] \in Order /\ Made(x[2]) /\ x[2].id \in Orders
      BY <2>1 DEF IInv, CachedIsMade, Order
    <3>2. Made(x[2])' /\ create'[x[2].id].req = create[x[2].id].req
      BY <1>10, <3>1, MadeStays
    <3> QED
      BY <2>1, <3>1, <3>2 DEF IInv, CachedIsMade
  <2>2. CASE x \notin cache
    <3>1. x = <<GenerateKey("create", q.key), new>> /\ q.key # NoKey
      BY <1>1, <2>2 DEF Makes, Set, GetHits
    <3> QED
      BY <1>3, <1>6, <1>9, <3>1 DEF CachedIsMade
  <2> QED
    BY <2>1, <2>2
<1> QED
  BY <1>8, <1>11, <1>12, <1>13, <1>14 DEF IInv

\* The critical section of CreateOrder.
LEMMA CreateLockedInv ==
    ASSUME IInv, NEW a \in Orders, CreateLocked(a)
    PROVE  IInv'
<1>1. CASE Makes(a)
  BY <1>1, MakesInv
<1>2. ASSUME NEW id \in SameKey(create[a].req.key), Reply(a, orders[id]),
             UNCHANGED <<orders, cache, update>>
      PROVE  IInv'
  <2>1. /\ id \in Orders /\ create[a].req.key # NoKey /\ orders[id] # Nil
        /\ orders[id].key = create[a].req.key
    BY DEF SameKey
  <2>2. orders[id] \in Order
    BY <2>1 DEF IInv, TypeOK
  <2>3. Made(orders[id]) /\ orders[id].id = id /\ create[id].req.key = create[a].req.key
    BY <2>1 DEF IInv, StoredIsMade
  <2>4. create[a] # Nil /\ create[a].pc \in {"get", "lock"}
    BY DEF CreateLocked, CreateAt
  <2> QED
    BY <1>2, <2>1, <2>2, <2>3, <2>4, AnswerInv
<1> QED
  BY <1>1, <1>2 DEF CreateLocked, Makes

-----------------------------------------------------------------------------

\* UpdateOrderStatus: a request that arrives or is lost touches no order.
LEMMA UpdateMoveInv ==
    ASSUME IInv, NEW u \in Updates,
           \/ \E id \in Orders, s \in Status : UpdateOrderStatus(u, id, s)
           \/ LoseUpdate(u)
    PROVE  IInv'
<1>1. UNCHANGED <<orders, cache, create>>
  BY DEF UpdateOrderStatus, LoseUpdate
<1>2. update' \in [Updates -> Update \cup {Nil}]
  <2>1. ASSUME NEW id \in Orders, NEW s \in Status, UpdateOrderStatus(u, id, s)
        PROVE  update' \in [Updates -> Update \cup {Nil}]
    <3>1. [id |-> id, status |-> s, pc |-> "lock", ok |-> FALSE] \in Update
      BY DEF Update, Pc
    <3> QED
      BY <2>1, <3>1 DEF UpdateOrderStatus, IInv, TypeOK
  <2>2. CASE LoseUpdate(u)
    <3>1. update[u] \in Update /\ update' = [update EXCEPT ![u].pc = "lost"]
      BY <2>2 DEF LoseUpdate, IInv, TypeOK
    <3>2. [update[u] EXCEPT !.pc = "lost"] \in Update
      BY <3>1 DEF Update, Pc
    <3> QED
      BY <3>1, <3>2 DEF IInv, TypeOK
  <2> QED
    BY <2>1, <2>2
<1>3. TypeOK'
  BY <1>1, <1>2 DEF IInv, TypeOK
<1>4. (\A id \in Orders : StoredIsMade(id) /\ ReplyIsMade(id))'
  BY <1>1 DEF IInv, StoredIsMade, ReplyIsMade, Made
<1>5. (UniqueKey /\ \A x \in cache : CachedIsMade(x))'
  BY <1>1 DEF IInv, UniqueKey, CachedIsMade, Made
<1> QED
  BY <1>3, <1>4, <1>5 DEF IInv

\* The critical section of UpdateOrderStatus changes a status and nothing else of
\* the order.
LEMMA UpdateLockedInv ==
    ASSUME IInv, NEW u \in Updates, UpdateLocked(u)
    PROVE  IInv'
<1> DEFINE id == update[u].id
<1>1. update[u] \in Update /\ UNCHANGED <<cache, create>>
  BY DEF UpdateLocked, IInv, TypeOK
<1>2. id \in Orders /\ update[u].status \in Status
  BY <1>1 DEF Update
<1>3. update' \in [Updates -> Update \cup {Nil}]
  <2>1. (orders[id] # Nil) \in BOOLEAN
    OBVIOUS
  <2>2. [update[u] EXCEPT !.pc = "done", !.ok = (orders[id] # Nil)] \in Update
    BY <1>1, <2>1 DEF Update, Pc
  <2>3. update' = [update EXCEPT ![u] = [update[u] EXCEPT !.pc = "done", !.ok = (orders[id] # Nil)]]
    BY DEF UpdateLocked, IInv, TypeOK
  <2> QED
    BY <2>2, <2>3 DEF IInv, TypeOK
<1>4. /\ orders' \in [Orders -> Order \cup {Nil}]
      /\ \A d \in Orders : /\ orders[d] = Nil <=> orders'[d] = Nil
                           /\ orders[d] # Nil => /\ orders'[d].id = orders[d].id
                                                 /\ orders'[d].items = orders[d].items
                                                 /\ orders'[d].total = orders[d].total
                                                 /\ orders'[d].key = orders[d].key
  <2>1. CASE orders[id] = Nil
    BY <2>1 DEF UpdateLocked, IInv, TypeOK
  <2>2. CASE orders[id] # Nil
    <3> DEFINE new == [orders[id] EXCEPT !.status = update[u].status]
    <3>1. orders[id] \in Order
      BY <1>2, <2>2 DEF IInv, TypeOK
    <3>2. /\ new \in Order /\ new.id = orders[id].id /\ new.items = orders[id].items
          /\ new.total = orders[id].total /\ new.key = orders[id].key
      BY <1>2, <3>1 DEF Order
    <3>3. orders' = [orders EXCEPT ![id] = new]
      BY <2>2 DEF UpdateLocked, IInv, TypeOK
    <3>4. new # Nil
      BY <3>2, UnusedAssumption
    <3> QED
      BY <2>2, <3>2, <3>3, <3>4 DEF IInv, TypeOK
  <2> QED
    BY <2>1, <2>2
<1>5. TypeOK'
  BY <1>1, <1>3, <1>4 DEF IInv, TypeOK
<1>6. ASSUME NEW o, o.id \in Orders, Made(o) PROVE Made(o)'
  BY <1>1, <1>4, <1>6 DEF Made
<1>7. ASSUME NEW d \in Orders PROVE StoredIsMade(d)'
  <2> SUFFICES ASSUME orders'[d] # Nil PROVE StoredIsMade(d)'
    BY DEF StoredIsMade
  <2>1. /\ orders[d] # Nil /\ orders[d].id = d /\ Made(orders[d])
        /\ orders[d].key = create[d].req.key /\ create[d].pc = "done"
    BY <1>4 DEF IInv, StoredIsMade
  <2> QED
    BY <1>1, <1>4, <2>1 DEF StoredIsMade, Made
<1>8. ASSUME NEW d \in Orders PROVE ReplyIsMade(d)'
  BY <1>1, <1>6 DEF IInv, ReplyIsMade, Made
<1>9. UniqueKey'
  BY <1>4 DEF IInv, UniqueKey
<1>10. ASSUME NEW x \in cache PROVE CachedIsMade(x)'
  BY <1>1, <1>6 DEF IInv, CachedIsMade, Order
<1> QED
  BY <1>1, <1>5, <1>7, <1>8, <1>9, <1>10 DEF IInv

\* A restart empties the map; every order seen in Redis or in an answer counts as
\* one of before the restart from now on.
LEMMA RestartInv ==
    ASSUME IInv, Restart
    PROVE  IInv'
<1>1. (\A d \in Orders : orders'[d] = Nil) /\ cache' = cache
  BY DEF Restart
<1>2. ASSUME NEW d \in Orders
      PROVE  /\ create'[d] \in Create \cup {Nil}
             /\ create[d] = Nil <=> create'[d] = Nil
             /\ create[d] # Nil => /\ create'[d].req = create[d].req
                                   /\ create'[d].reply = create[d].reply
                                   /\ create'[d].pc # "done"
                                   /\ create[d].pc \in {"done", "old"} => create'[d].pc = "old"
  <2>1. CASE create[d] = Nil
    BY <2>1 DEF Restart
  <2>2. CASE create[d] # Nil
    <3>1. create[d] \in Create /\ create'[d] = [create[d] EXCEPT !.pc = AfterRestart(@)]
      BY <2>2 DEF IInv, TypeOK, Restart
    <3>2. /\ create[d].pc \in {"get", "lock", "lost"} => AfterRestart(create[d].pc) = "lost"
          /\ create[d].pc \in {"done", "old"} => AfterRestart(create[d].pc) = "old"
      BY DEF AfterRestart
    <3>3. /\ create'[d] \in Create /\ create'[d].pc = AfterRestart(create[d].pc)
          /\ create'[d].req = create[d].req /\ create'[d].reply = create[d].reply
          /\ create[d].pc \in {"get", "lock", "lost", "done", "old"}
      BY <3>1, <3>2 DEF Create
    <3> QED
      BY <2>2, <3>2, <3>3, UnusedAssumption
  <2> QED
    BY <2>1, <2>2
<1>3. ASSUME NEW u \in Updates
      PROVE  update'[u] \in Update \cup {Nil}
  <2>1. CASE update[u] = Nil
    BY <2>1 DEF Restart
  <2>2. CASE update[u] # Nil
    <3>1. update[u] \in Update /\ update'[u] = [update[u] EXCEPT !.pc = AfterRestart(@)]
      BY <2>2 DEF IInv, TypeOK, Restart
    <3>2. AfterRestart(update[u].pc) \in Pc \ {"get"}
      BY <3>1 DEF AfterRestart, Update, Pc
    <3> QED
      BY <3>1, <3>2 DEF Update
  <2> QED
    BY <2>1, <2>2
<1>4. TypeOK'
  BY <1>1, <1>2, <1>3 DEF Restart, TypeOK
<1>5. ASSUME NEW o, o.id \in Orders, Made(o)
      PROVE  Made(o)' /\ create'[o.id].req = create[o.id].req
  BY <1>2, <1>5 DEF Made
<1>6. ASSUME NEW d \in Orders PROVE StoredIsMade(d)' /\ ReplyIsMade(d)'
  <2>1. StoredIsMade(d)'
    BY <1>1 DEF StoredIsMade
  <2>2. ASSUME create'[d] # Nil, create'[d].reply # Nil PROVE ReplyIsMade(d)'
    <3>1. PICK r : /\ r = create[d].reply /\ create'[d].reply = r /\ create'[d].req = create[d].req
                   /\ create[d] # Nil
      BY <1>2, <2>2
    <3>2. r.id \in Orders /\ Made(r)
      BY <2>2, <3>1 DEF IInv, ReplyIsMade
    <3>3. Made(r)' /\ create'[r.id].req = create[r.id].req
      BY <1>5, <3>2
    <3>4. /\ create[r.id].req.key = create[d].req.key
          /\ create[d].req.key = NoKey => r.id = d
      BY <2>2, <3>1 DEF IInv, ReplyIsMade
    <3> QED
      BY <3>1, <3>2, <3>3, <3>4 DEF ReplyIsMade
  <2> QED
    BY <2>1, <2>2 DEF ReplyIsMade
<1>7. UniqueKey'
  BY <1>1 DEF UniqueKey
<1>8. ASSUME NEW x \in cache PROVE CachedIsMade(x)'
  BY <1>5 DEF IInv, CachedIsMade, Order
<1> QED
  BY <1>1, <1>4, <1>6, <1>7, <1>8 DEF IInv

\* Every step of the service keeps the invariant.
LEMMA NextInv == IInv /\ [Next]_vars => IInv'
<1> SUFFICES ASSUME IInv, [Next]_vars PROVE IInv'
  OBVIOUS
<1>1. CASE Restart
  BY <1>1, RestartInv
<1>2. ASSUME NEW id \in Orders, \E q \in Requests : CreateOrder(id, q) PROVE IInv'
  BY <1>2, CreateOrderInv
<1>3. ASSUME NEW id \in Orders, HandleCreate(id) PROVE IInv'
  BY <1>3, CreateGetInv, CreateLockedInv DEF HandleCreate
<1>4. ASSUME NEW id \in Orders, LoseCreate(id) PROVE IInv'
  BY <1>4, MoveInv DEF LoseCreate, CreateAt
<1>5. ASSUME NEW u \in Updates,
             \/ \E id \in Orders, s \in Status : UpdateOrderStatus(u, id, s)
             \/ LoseUpdate(u)
      PROVE  IInv'
  BY <1>5, UpdateMoveInv
<1>6. ASSUME NEW u \in Updates, UpdateLocked(u) PROVE IInv'
  BY <1>6, UpdateLockedInv
<1>7. CASE UNCHANGED vars
  <2>1. TypeOK' /\ UniqueKey'
    BY <1>7 DEF vars, IInv, TypeOK, UniqueKey
  <2>2. (\A id \in Orders : StoredIsMade(id) /\ ReplyIsMade(id))'
    BY <1>7 DEF vars, IInv, StoredIsMade, ReplyIsMade, Made
  <2>3. (\A x \in cache : CachedIsMade(x))'
    BY <1>7 DEF vars, IInv, CachedIsMade, Made
  <2> QED
    BY <2>1, <2>2, <2>3 DEF IInv
<1> QED
  BY <1>1, <1>2, <1>3, <1>4, <1>5, <1>6, <1>7 DEF Next

-----------------------------------------------------------------------------
(* Calls and orders as the caller sees them.                                   *)

\* What the server does to a call of either kind: it answers it at most once.
OnlyMoves(d) ==
    /\ create[d] = Nil => create'[d] = Nil
    /\ create[d] # Nil => create'[d] # Nil /\ create'[d].req = create[d].req
    /\ create[d] # Nil /\ create[d].pc = "old" => create'[d].pc = "old"
    /\ create[d] # Nil /\ create[d].pc \in {"done", "old"} =>
          create'[d].pc \in {"done", "old"} /\ create'[d].reply = create[d].reply

Answered(u) == update[u] # Nil /\ update[u].pc \in {"done", "old"}

OnlyMovesUpdate(u) ==
    /\ update[u] = Nil => update'[u] = Nil
    /\ update[u] # Nil => /\ update'[u] # Nil
                          /\ update'[u].id = update[u].id /\ update'[u].status = update[u].status
    /\ update[u] # Nil /\ update[u].pc = "old" => update'[u].pc = "old"
    /\ Answered(u) => Answered(u)' /\ update'[u].ok = update[u].ok

Server ==
    \/ Restart
    \/ \E id \in Orders : HandleCreate(id) \/ LoseCreate(id)
    \/ \E u \in Updates : UpdateLocked(u) \/ LoseUpdate(u)

\* A step of the CreateOrder handler a.
LEMMA CreateMoves ==
    ASSUME IInv, NEW a \in Orders, HandleCreate(a) \/ LoseCreate(a)
    PROVE  /\ create[a] # Nil /\ create[a].pc \in {"get", "lock"}
           /\ create'[a] # Nil /\ create'[a].req = create[a].req
           /\ \A d \in Orders \ {a} : create'[d] = create[d]
           /\ UNCHANGED update
<1>1. TypeOK /\ create[a] # Nil /\ create[a].pc \in {"get", "lock"}
  BY DEF IInv, HandleCreate, CreateGet, CreateLocked, LoseCreate, CreateAt
<1>2. ASSUME NEW o, o \in Order, Reply(a, o)
      PROVE  /\ create'[a] # Nil /\ create'[a].req = create[a].req
             /\ \A d \in Orders \ {a} : create'[d] = create[d]
  <2>1. OrderToProto(o) \in Proto
    BY <1>2, ProtoFacts
  <2>2. create' = [create EXCEPT ![a].pc = "done", ![a].reply = OrderToProto(o)]
    BY <1>2 DEF Reply
  <2> QED
    BY <1>1, <2>1, <2>2, MoveFacts
<1>3. ASSUME NEW p, p \in {"lock", "lost"}, create' = [create EXCEPT ![a].pc = p]
      PROVE  /\ create'[a] # Nil /\ create'[a].req = create[a].req
             /\ \A d \in Orders \ {a} : create'[d] = create[d]
  <2>1. PICK n : n = Nil
    OBVIOUS
  <2>2. p \in {"lock", "lost"} /\ n = Nil /\ create' = [create EXCEPT ![a].pc = p]
    BY <1>3, <2>1
  <2> QED
    BY <1>1, <2>2, MoveFacts
<1>4. \/ \E o \in Order : Reply(a, o)
      \/ \E p \in {"lock", "lost"} : create' = [create EXCEPT ![a].pc = p]
  <2>1. CASE LoseCreate(a)
    BY <2>1 DEF LoseCreate
  <2>2. CASE CreateGet(a)
    <3>1. ASSUME NEW o \in GetHits(cache, GenerateKey("create", create[a].req.key))
          PROVE  o \in Order
      BY DEF GetHits, IInv, CachedIsMade
    <3> QED
      BY <2>2, <3>1 DEF CreateGet
  <2>3. CASE CreateLocked(a)
    <3>1. ASSUME NEW o \in SameKey(create[a].req.key) PROVE orders[o] \in Order
      BY <1>1 DEF SameKey, TypeOK
    <3>2. OrderFromProto(a, create[a].req) \in Order
      <4>1. create[a].req \in Requests
        BY <1>1 DEF TypeOK, Create
      <4> QED
        BY <4>1, OrderRequestsAssumption DEF OrderFromProto, Order, Status
    <3> QED
      BY <2>3, <3>1, <3>2 DEF CreateLocked
  <2> QED
    BY <2>1, <2>2, <2>3 DEF HandleCreate
<1>5. UNCHANGED update
  BY DEF HandleCreate, CreateGet, CreateLocked, LoseCreate
<1> QED
  BY <1>1, <1>2, <1>3, <1>4, <1>5

\* A step of the UpdateOrderStatus handler u.
LEMMA UpdateMoves ==
    ASSUME TypeOK, NEW u \in Updates, UpdateLocked(u) \/ LoseUpdate(u)
    PROVE  /\ update[u] # Nil /\ update[u].pc = "lock"
           /\ update'[u] # Nil /\ update'[u].id = update[u].id
           /\ update'[u].status = update[u].status
           /\ UpdateLocked(u) => /\ update'[u].pc = "done"
                                 /\ update'[u].ok <=> orders[update[u].id] # Nil
           /\ LoseUpdate(u) => update'[u].pc = "lost"
           /\ \A v \in Updates \ {u} : update'[v] = update[v]
           /\ UNCHANGED create
<1>1. update[u] # Nil /\ update[u].pc = "lock" /\ update[u] \in Update /\ UNCHANGED create
  BY DEF TypeOK, UpdateLocked, LoseUpdate
<1>2. CASE UpdateLocked(u)
  <2>1. PICK found \in BOOLEAN : found = (orders[update[u].id] # Nil)
    OBVIOUS
  <2> DEFINE new == [update[u] EXCEPT !.pc = "done", !.ok = found]
  <2>2. /\ new \in Update /\ new.pc = "done" /\ new.ok = found
        /\ new.id = update[u].id /\ new.status = update[u].status
    BY <1>1 DEF Update, Pc
  <2>3. update' = [update EXCEPT ![u] = new]
    BY <1>2, <2>1 DEF UpdateLocked, TypeOK
  <2>4. ~LoseUpdate(u)
    <3>1. update'[u] = new
      BY <2>3 DEF TypeOK
    <3>2. LoseUpdate(u) => update'[u].pc = "lost"
      BY <1>1 DEF LoseUpdate, TypeOK, Update
    <3> QED
      BY <2>2, <3>1, <3>2
  <2>5. update'[u] = new /\ \A v \in Updates \ {u} : update'[v] = update[v]
    BY <2>3 DEF TypeOK
  <2>6. new # Nil
    BY <2>2, UnusedAssumption
  <2> HIDE DEF new
  <2> QED
    BY <1>1, <2>1, <2>2, <2>4, <2>5, <2>6
<1>3. CASE ~UpdateLocked(u)
  <2> DEFINE new == [update[u] EXCEPT !.pc = "lost"]
  <2>1. new \in Update /\ new.pc = "lost" /\ new.id = update[u].id /\ new.status = update[u].status
    BY <1>1 DEF Update, Pc
  <2>2. update' = [update EXCEPT ![u] = new]
    BY <1>3 DEF LoseUpdate, TypeOK
  <2>3. update'[u] = new /\ \A v \in Updates \ {u} : update'[v] = update[v]
    BY <2>2 DEF TypeOK
  <2>4. new # Nil
    BY <2>1, UnusedAssumption
  <2> HIDE DEF new
  <2> QED
    BY <1>1, <1>3, <2>1, <2>3, <2>4
<1> QED
  BY <1>2, <1>3

LEMMA ServerMoves ==
    ASSUME IInv, Server
    PROVE  (\A d \in Orders : OnlyMoves(d)) /\ (\A u \in Updates : OnlyMovesUpdate(u))
<1>1. ASSUME NEW a \in Orders, HandleCreate(a) \/ LoseCreate(a)
      PROVE  (\A d \in Orders : OnlyMoves(d)) /\ (\A u \in Updates : OnlyMovesUpdate(u))
  BY <1>1, CreateMoves DEF OnlyMoves, OnlyMovesUpdate, Answered
<1>2. ASSUME NEW u \in Updates, UpdateLocked(u) \/ LoseUpdate(u)
      PROVE  (\A d \in Orders : OnlyMoves(d)) /\ (\A v \in Updates : OnlyMovesUpdate(v))
  <2>1. TypeOK
    BY DEF IInv
  <2> QED
    BY <1>2, <2>1, UpdateMoves DEF OnlyMoves, OnlyMovesUpdate, Answered
<1>3. CASE Restart
  <2>1. ASSUME NEW d \in Orders PROVE OnlyMoves(d)
    <3>1. CASE create[d] = Nil
      BY <1>3, <3>1 DEF Restart, OnlyMoves
    <3>2. CASE create[d] # Nil
      <4>1. create[d] \in Create /\ create'[d] = [create[d] EXCEPT !.pc = AfterRestart(@)]
        BY <1>3, <3>2 DEF IInv, TypeOK, Restart
      <4>2. /\ create[d].pc \in {"get", "lock", "lost"} => AfterRestart(create[d].pc) = "lost"
            /\ create[d].pc \in {"done", "old"} => AfterRestart(create[d].pc) = "old"
        BY DEF AfterRestart
      <4>3. /\ create'[d] \in Create /\ create'[d].pc = AfterRestart(create[d].pc)
            /\ create'[d].req = create[d].req /\ create'[d].reply = create[d].reply
        BY <4>1, <4>2 DEF Create
      <4> QED
        BY <3>2, <4>2, <4>3, UnusedAssumption DEF OnlyMoves
    <3> QED
      BY <3>1, <3>2
  <2>2. ASSUME NEW u \in Updates PROVE OnlyMovesUpdate(u)
    <3>1. CASE update[u] = Nil
      BY <1>3, <3>1 DEF Restart, OnlyMovesUpdate, Answered
    <3>2. CASE update[u] # Nil
      <4>1. update[u] \in Update /\ update'[u] = [update[u] EXCEPT !.pc = AfterRestart(@)]
        BY <1>3, <3>2 DEF IInv, TypeOK, Restart
      <4>2. /\ AfterRestart(update[u].pc) \in Pc \ {"get"}
            /\ update[u].pc \in {"done", "old"} => AfterRestart(update[u].pc) = "old"
        BY <4>1 DEF AfterRestart, Update, Pc
      <4>3. /\ update'[u] \in Update /\ update'[u].pc = AfterRestart(update[u].pc)
            /\ update'[u].id = update[u].id /\ update'[u].status = update[u].status
            /\ update'[u].ok = update[u].ok
        BY <4>1, <4>2 DEF Update
      <4> QED
        BY <3>2, <4>2, <4>3, UnusedAssumption DEF OnlyMovesUpdate, Answered
    <3> QED
      BY <3>1, <3>2
  <2> QED
    BY <2>1, <2>2
<1> QED
  BY <1>1, <1>2, <1>3 DEF Server

\* Only a restart makes an answer an old one.
LEMMA NotOld ==
    ASSUME IInv, NEW a \in Orders, HandleCreate(a) \/ LoseCreate(a)
    PROVE  create'[a].pc # "old"
<1>1. TypeOK /\ create[a] \in Create
  BY CreateMoves DEF IInv, TypeOK
<1> QED
  BY <1>1 DEF HandleCreate, CreateGet, CreateLocked, LoseCreate, Reply, TypeOK, Create

\* The update u was carried out on order id, since the last restart.
Carried(u, id) ==
    update[u] # Nil /\ update[u].pc = "done" /\ update[u].ok /\ update[u].id = id

\* A status other than PENDING was given to the order by an update that was carried
\* out; while there is none the order is PENDING, and there is none without the order.
StatusInv(id) ==
    /\ orders[id] # Nil =>
          \/ orders[id].status = "PENDING" /\ \A u \in Updates : ~Carried(u, id)
          \/ \E u \in Updates : Carried(u, id) /\ update[u].status = orders[id].status
    /\ \A u \in Updates : Carried(u, id) => orders[id] # Nil

LEMMA StatusNext ==
    ASSUME IInv, [Next]_vars, NEW id \in Orders, StatusInv(id)
    PROVE  StatusInv(id)'
<1>1. TypeOK
  BY DEF IInv
<1>2. ASSUME orders'[id] = orders[id], \A u \in Updates : Carried(u, id)' <=> Carried(u, id),
             \A u \in Updates : Carried(u, id) => update'[u].status = update[u].status
      PROVE  StatusInv(id)'
  BY <1>2 DEF StatusInv
<1>3. CASE UNCHANGED update /\ orders'[id] = orders[id]
  BY <1>2, <1>3 DEF Carried
<1>4. CASE Restart
  <2>1. orders'[id] = Nil
    BY <1>4 DEF Restart
  <2>2. ASSUME NEW u \in Updates PROVE ~Carried(u, id)'
    <3>1. update[u] # Nil => update'[u] = [update[u] EXCEPT !.pc = AfterRestart(@)]
      BY <1>4 DEF Restart
    <3>2. update[u] = Nil => update'[u] = Nil
      BY <1>4 DEF Restart
    <3>3. AfterRestart(update[u].pc) # "done"
      BY DEF AfterRestart
    <3>4. update[u] # Nil => update[u] \in Update
      BY <1>1 DEF TypeOK
    <3> QED
      BY <3>1, <3>2, <3>3, <3>4 DEF Carried, Update
  <2> QED
    BY <2>1, <2>2 DEF StatusInv
<1>5. ASSUME NEW a \in Orders, \E q \in Requests : CreateOrder(a, q) PROVE StatusInv(id)'
  BY <1>3, <1>5 DEF CreateOrder
<1>6. ASSUME NEW a \in Orders, HandleCreate(a) \/ LoseCreate(a) PROVE StatusInv(id)'
  <2>1. UNCHANGED update /\ create[a] # Nil /\ create[a].pc \in {"get", "lock"}
    BY <1>6, CreateMoves
  <2>2. CASE orders'[id] = orders[id]
    BY <1>3, <2>1, <2>2
  <2>3. CASE orders'[id] # orders[id]
    <3>1. a = id /\ orders'[id] = OrderFromProto(a, create[a].req)
      BY <1>1, <1>6, <2>3 DEF HandleCreate, CreateGet, CreateLocked, LoseCreate, TypeOK
    <3>2. orders[id] = Nil
      BY <2>1, <3>1 DEF IInv, StoredIsMade
    <3>3. orders'[id].status = "PENDING"
      BY <3>1 DEF OrderFromProto
    <3>4. \A u \in Updates : ~Carried(u, id)'
      BY <2>1, <3>2 DEF StatusInv, Carried
    <3> QED
      BY <3>3, <3>4 DEF StatusInv
  <2> QED
    BY <2>2, <2>3
<1>7. ASSUME NEW u \in Updates, LoseUpdate(u) PROVE StatusInv(id)'
  <2>1. UNCHANGED orders
    BY <1>7 DEF LoseUpdate
  <2> QED
    BY <1>1, <1>2, <1>7, <2>1, UpdateMoves DEF Carried
<1>8. ASSUME NEW u \in Updates, UpdateLocked(u) PROVE StatusInv(id)'
  <2>1. CASE orders[update[u].id] = Nil
    <3>1. UNCHANGED orders
      BY <1>8, <2>1 DEF UpdateLocked
    <3> QED
      BY <1>1, <1>2, <1>8, <2>1, <3>1, UpdateMoves DEF Carried
  <2>2. CASE orders[update[u].id] # Nil /\ update[u].id # id
    <3>1. orders'[id] = orders[id]
      BY <1>1, <1>8, <2>2 DEF UpdateLocked, TypeOK
    <3> QED
      BY <1>1, <1>2, <1>8, <2>2, <3>1, UpdateMoves DEF Carried
  <2>3. CASE orders[update[u].id] # Nil /\ update[u].id = id
    <3>1. Carried(u, id)' /\ update'[u].status = update[u].status
      BY <1>1, <1>8, <2>3, UpdateMoves DEF Carried
    <3>2. orders[id] \in Order /\ orders' = [orders EXCEPT ![id].status = update[u].status]
      BY <1>1, <1>8, <2>3 DEF UpdateLocked, TypeOK
    <3>3. orders'[id].status = update[u].status
      BY <1>1, <3>2 DEF TypeOK, Order
    <3>4. orders'[id] # Nil
      <4>1. update[u] # Nil /\ update[u] \in Update
        BY <1>1, <1>8 DEF UpdateLocked, TypeOK
      <4>2. orders'[id] = [orders[id] EXCEPT !.status = update[u].status]
        BY <1>1, <3>2 DEF TypeOK
      <4>3. orders'[id] \in Order
        BY <3>2, <4>1, <4>2 DEF Order, Update
      <4> QED
        BY <4>3, UnusedAssumption
    <3> QED
      BY <3>1, <3>3, <3>4 DEF StatusInv
  <2> QED
    BY <2>1, <2>2, <2>3
<1>9. ASSUME NEW u \in Updates,
             \E a \in Orders, s \in Status : UpdateOrderStatus(u, a, s)
      PROVE  StatusInv(id)'
  <2>1. UNCHANGED orders /\ update[u] = Nil /\ \A v \in Updates \ {u} : update'[v] = update[v]
    BY <1>1, <1>9 DEF UpdateOrderStatus, TypeOK
  <2>2. update'[u].pc = "lock"
    BY <1>1, <1>9 DEF UpdateOrderStatus, TypeOK
  <2> QED
    BY <1>2, <2>1, <2>2 DEF Carried
<1>10. CASE UNCHANGED vars
  BY <1>3, <1>10 DEF vars
<1> QED
  BY <1>4, <1>5, <1>6, <1>7, <1>8, <1>9, <1>10 DEF Next

-----------------------------------------------------------------------------

\* The strengthened invariant holds of every behaviour of the service.
THEOREM Inductive == Spec => []IInv
  BY InitInv, NextInv, PTL DEF Spec

\* The map and the handlers have their types.
THEOREM TypeCorrect == Spec => []TypeOK
<1>1. IInv => TypeOK
  BY DEF IInv
<1> QED
  BY Inductive, <1>1, PTL

\* All CreateOrder calls that carry one key are answered with one order, whether
\* Redis, the scan or the insert answers them, and however they race, as long as
\* no call with that key dates from before a restart.
THEOREM Idempotent == Spec => []SameKeySameOrder
<1>1. ASSUME IInv PROVE SameKeySameOrder
  <2> SUFFICES ASSUME NEW a \in Orders, NEW b \in Orders,
                      CreateAt(a, "done"), CreateAt(b, "done"),
                      create[a].req.key = create[b].req.key, create[a].req.key # NoKey,
                      \A c \in Orders : CreateAt(c, "old") =>
                                          create[c].req.key # create[a].req.key
               PROVE  /\ create[a].reply.id = create[b].reply.id
                      /\ create[a].reply.items = create[b].reply.items
                      /\ create[a].reply.total = create[b].reply.total
    BY DEF SameKeySameOrder
  <2>1. ASSUME NEW d \in Orders, CreateAt(d, "done"), create[d].req.key = create[a].req.key
        PROVE  LET r == create[d].reply IN
               /\ r.id \in Orders /\ Made(r)
               /\ orders[r.id] # Nil /\ orders[r.id].key = create[a].req.key
    <3> DEFINE r == create[d].reply
    <3>1. create[d] # Nil /\ r # Nil
      BY <1>1, <2>1, UnusedAssumption DEF IInv, TypeOK, CreateAt, Create
    <3>2. r.id \in Orders /\ Made(r) /\ create[r.id].req.key = create[a].req.key
      BY <1>1, <2>1, <3>1 DEF IInv, ReplyIsMade
    <3>3. create[r.id].pc = "done" /\ orders[r.id] # Nil
      BY <3>2 DEF Made, CreateAt
    <3> QED
      BY <1>1, <3>2, <3>3 DEF IInv, StoredIsMade
  <2>2. create[a].reply.id = create[b].reply.id
    BY <1>1, <2>1 DEF IInv, UniqueKey
  <2> QED
    BY <2>1, <2>2 DEF Made
<1> QED
  BY Inductive, <1>1, PTL

\* Whatever order a caller was told about, GetOrder finds, with those items and
\* their total, unless it was made before a restart.
THEOREM AnsweredExists == Spec => []AnsweredOrderExists
<1>1. ASSUME IInv PROVE AnsweredOrderExists
  <2> SUFFICES ASSUME NEW a \in Orders, CreateAt(a, "done"),
                      ~CreateAt(create[a].reply.id, "old")
               PROVE  LET told == create[a].reply
                          kept == GetOrder(told.id)
                      IN  /\ kept # Nil
                          /\ kept.items = told.items
                          /\ kept.total = told.total
                          /\ told.total = calculateTotal(kept.items)
    BY DEF AnsweredOrderExists
  <2> DEFINE r == create[a].reply
             o == orders[r.id]
  <2>1. create[a] # Nil /\ r # Nil
    BY <1>1, UnusedAssumption DEF IInv, TypeOK, CreateAt, Create
  <2>2. r.id \in Orders /\ Made(r)
    BY <1>1, <2>1 DEF IInv, ReplyIsMade
  <2>3. o # Nil /\ o \in Order /\ Made(o) /\ o.id = r.id
    BY <1>1, <2>2 DEF IInv, TypeOK, StoredIsMade, Made, CreateAt
  <2>4. GetOrder(r.id) = OrderToProto(o)
    BY <2>3 DEF GetOrder
  <2>5. OrderToProto(o) \in Proto /\ OrderToProto(o).items = o.items /\ OrderToProto(o).total = o.total
    BY <2>3, ProtoFacts
  <2>6. OrderToProto(o) # Nil
    BY <2>5, UnusedAssumption
  <2> QED
    BY <2>2, <2>3, <2>4, <2>5, <2>6 DEF Made
<1> QED
  BY Inductive, <1>1, PTL

\* A request without a key is answered with an order of its own: CreateOrder skips
\* the empty key before the lock and under it.
THEOREM NoSharing == Spec => []NoKeyNoSharing
<1>1. IInv => NoKeyNoSharing
  BY DEF IInv, ReplyIsMade, NoKeyNoSharing
<1> QED
  BY Inductive, <1>1, PTL

=============================================================================
