---------------------------- MODULE OrderService ----------------------------
(***************************************************************************)
(* internal/order-service/app/client.go: the gRPC server that holds the    *)
(* orders in memory behind one mutex, with Redis as a fast path for a      *)
(* CreateOrder that repeats an idempotency key.                            *)
(*                                                                         *)
(* A CreateOrder call is named after the id it mints: uuid.NewString()     *)
(* never returns the same id twice.  It is two atomic steps, the lookup in *)
(* Redis ("get") and the critical section ("lock"); UpdateOrderStatus is   *)
(* one critical section.  A restart empties the map but not Redis.         *)
(***************************************************************************)
EXTENDS Integers, Functions, RedisCache, GrpcServer

CONSTANTS
    Orders,         \* order ids, and the CreateOrder calls that mint them
    Updates,        \* identifies a call to UpdateOrderStatus
    Keys, NoKey,    \* idempotency keys; NoKey is the empty header
    Requests,       \* the CreateOrderRequests clients send, with their metadata
    Nil             \* absent map entry, unused call

ASSUME OrderRequestsAssumption ==
    /\ NoKey \notin Keys
    /\ \A q \in Requests : q.key \in Keys \cup {NoKey}

VARIABLES
    orders,     \* id -> order, or Nil
    cache,      \* Redis entries of this service
    create,     \* the CreateOrder handlers, each with its answer
    update      \* the UpdateOrderStatus handlers, each with its answer

vars == <<orders, cache, create, update>>

Status == {"PENDING", "CONFIRMED", "CANCELLED"}

-----------------------------------------------------------------------------

calculateTotal(items) == SumFunction([i \in DOMAIN items |-> items[i].qty * items[i].price])

\* Mutant: the status is left at its zero value.
OrderFromProtoNoStatus(id, req) ==
    [id |-> id, items |-> req.items, total |-> calculateTotal(req.items),
     status |-> "", key |-> req.key]

\* OrderFromProto: the order a call makes of its request and of its metadata.
OrderFromProto(id, req) ==
    [id |-> id, items |-> req.items, total |-> calculateTotal(req.items),
     status |-> "PENDING", key |-> req.key]

\* The enum value of that name, or the zero value.
mapStatusToProto(s) == IF s \in Status THEN s ELSE "PENDING"

\* OrderToProto: the key stays behind.
OrderToProto(o) ==
    [id |-> o.id, items |-> o.items, total |-> o.total, status |-> mapStatusToProto(o.status)]

\* An order in the map and one in an answer, and the two kinds of handlers.
Order == [id : Orders, items : {q.items : q \in Requests},
          total : {calculateTotal(q.items) : q \in Requests},
          status : Status, key : Keys \cup {NoKey}]
Proto == {OrderToProto(o) : o \in Order}
Create == [req : Requests, pc : {"get", "lock", "lost"}, reply : {Nil}]
          \cup [req : Requests, pc : {"done", "old"}, reply : Proto]
Update == [id : Orders, status : Status, pc : Pc \ {"get"}, ok : BOOLEAN]

ASSUME UnusedAssumption == Nil \notin Order \cup Proto \cup Create \cup Update

\* NewOrderServer
Init ==
    /\ orders = [id \in Orders |-> Nil]
    /\ cache = {}
    /\ create = [id \in Orders |-> Nil]
    /\ update = [u \in Updates |-> Nil]

CreateAt(id, pc) == create[id] # Nil /\ create[id].pc = pc

\* Mutant: the id is that of the request at hand.
ReplyOwnId(id, o) ==
    create' = [create EXCEPT ![id].pc = "done",
                             ![id].reply = OrderToProto([o EXCEPT !.id = id])]

Reply(id, o) ==
    create' = [create EXCEPT ![id].pc = "done", ![id].reply = OrderToProto(o)]

CreateOrder(id, req) ==
    /\ create[id] = Nil
    /\ create' = [create EXCEPT ![id] = [req |-> req, pc |-> "get", reply |-> Nil]]
    /\ UNCHANGED <<orders, cache, update>>

\* Before the mutex: a request with a key is answered with the order Redis
\* remembers for it, as that order was when it was created.
CreateGet(id) ==
    LET key == create[id].req.key IN
    /\ CreateAt(id, "get")
    /\ \/ /\ key # NoKey
          /\ \E o \in GetHits(cache, GenerateKey("create", key)) : Reply(id, o)
       \/ create' = [create EXCEPT ![id].pc = "lock"]
    /\ UNCHANGED <<orders, cache, update>>

\* Mutant: no second look under the mutex.
SameKeyUnchecked(key) == {}

\* Mutant: the empty key is a key like any other.
SameKeyEvenEmpty(key) == {o \in Orders : orders[o] # Nil /\ orders[o].key = key}

\* The stored orders that carry the key of a request.
SameKey(key) == {o \in Orders : key # NoKey /\ orders[o] # Nil /\ orders[o].key = key}

\* Under the mutex: the order of an earlier request with this key, or a new one.
CreateLocked(id) ==
    LET req == create[id].req
        new == OrderFromProto(id, req)
    IN
    /\ CreateAt(id, "lock")
    /\ \/ /\ \E o \in SameKey(req.key) : Reply(id, orders[o])
          /\ UNCHANGED <<orders, cache>>
       \/ /\ SameKey(req.key) = {}
          /\ orders' = [orders EXCEPT ![id] = new]
          /\ IF req.key = NoKey
             THEN UNCHANGED cache
             ELSE cache' \in Set(cache, GenerateKey("create", req.key), new)
          /\ Reply(id, new)
    /\ UNCHANGED update

UpdateOrderStatus(u, id, status) ==
    /\ update[u] = Nil
    /\ update' = [update EXCEPT ![u] =
                    [id |-> id, status |-> status, pc |-> "lock", ok |-> FALSE]]
    /\ UNCHANGED <<orders, cache, create>>

\* Any status may follow any other; an unknown id is an error.
UpdateLocked(u) ==
    /\ update[u] # Nil /\ update[u].pc = "lock"
    /\ LET id == update[u].id
           found == orders[id] # Nil
       IN
       /\ orders' = IF found THEN [orders EXCEPT ![id].status = update[u].status]
                             ELSE orders
       /\ update' = [update EXCEPT ![u].pc = "done", ![u].ok = found]
    /\ UNCHANGED <<cache, create>>

\* GetOrder, under the read lock: the order, or Nil for codes.NotFound.
GetOrder(id) == IF orders[id] = Nil THEN Nil ELSE OrderToProto(orders[id])

\* Requests that never reach the server.
LoseCreate(id) ==
    /\ CreateAt(id, "get")
    /\ create' = [create EXCEPT ![id].pc = "lost"]
    /\ UNCHANGED <<orders, cache, update>>

LoseUpdate(u) ==
    /\ update[u] # Nil /\ update[u].pc = "lock"
    /\ update' = [update EXCEPT ![u].pc = "lost"]
    /\ UNCHANGED <<orders, cache, create>>

\* The process is started again, with a NewOrderServer of its own.
Restart ==
    /\ \/ \E id \in Orders : create[id] # Nil /\ create[id].pc \in Current
       \/ \E u \in Updates : update[u] # Nil /\ update[u].pc \in Current
    /\ orders' = [id \in Orders |-> Nil]
    /\ create' = [id \in Orders |-> IF create[id] = Nil THEN Nil
                                    ELSE [create[id] EXCEPT !.pc = AfterRestart(@)]]
    /\ update' = [u \in Updates |-> IF update[u] = Nil THEN Nil
                                    ELSE [update[u] EXCEPT !.pc = AfterRestart(@)]]
    /\ UNCHANGED cache

HandleCreate(id) == CreateGet(id) \/ CreateLocked(id)

Next ==
    \/ Restart
    \/ \E id \in Orders :
          \/ \E q \in Requests : CreateOrder(id, q)
          \/ HandleCreate(id) \/ LoseCreate(id)
    \/ \E u \in Updates :
          \/ \E id \in Orders, s \in Status : UpdateOrderStatus(u, id, s)
          \/ UpdateLocked(u) \/ LoseUpdate(u)

Spec == Init /\ [][Next]_vars

-----------------------------------------------------------------------------

TypeOK ==
    /\ orders \in [Orders -> Order \cup {Nil}]
    /\ create \in [Orders -> Create \cup {Nil}]
    /\ update \in [Updates -> Update \cup {Nil}]

\* CreateOrder is idempotent per key: all calls that carry one key are answered
\* with one order, the same id, items and total, whether the answer comes from
\* Redis, from the scan or from the insert, and however the calls race
\* (client.go:45 looks before the lock, :60 again under it).  A restart breaks
\* that for a key it forgets: Redis answers one call with the order that is
\* gone, and misses the next, which makes another.
SameKeySameOrder ==
    \A a, b \in Orders :
        /\ CreateAt(a, "done") /\ CreateAt(b, "done")
        /\ create[a].req.key = create[b].req.key /\ create[a].req.key # NoKey
        /\ \A c \in Orders : CreateAt(c, "old") => create[c].req.key # create[a].req.key
        => /\ create[a].reply.id = create[b].reply.id
           /\ create[a].reply.items = create[b].reply.items
           /\ create[a].reply.total = create[b].reply.total

\* Whatever order a caller was told about exists, under that id, with those
\* items and with the total of those items: GetOrder finds it, unless it was
\* made before a restart (client.go:51 answers from Redis without looking).
AnsweredOrderExists ==
    \A a \in Orders :
        CreateAt(a, "done") /\ ~CreateAt(create[a].reply.id, "old") =>
            LET told == create[a].reply
                kept == GetOrder(told.id)
            IN  /\ kept # Nil
                /\ kept.items = told.items
                /\ kept.total = told.total
                /\ told.total = calculateTotal(kept.items)

\* An order without a key is never answered to anybody else: two POSTs without
\* the header are two orders (client.go:44 and :59 skip the empty key).
NoKeyNoSharing ==
    \A a \in Orders :
        /\ create[a] # Nil /\ create[a].reply # Nil
        /\ create[a].req.key = NoKey
        => create[a].reply.id = a

=============================================================================
