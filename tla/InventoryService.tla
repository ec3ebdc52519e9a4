-------------------------- MODULE InventoryService --------------------------
(***************************************************************************)
(* internal/inventory-service/client.go: the gRPC server that holds the    *)
(* stock and the reservations, both in memory behind one mutex, with Redis *)
(* as a fast path for repeated calls.                                      *)
(*                                                                         *)
(* Every call runs in a goroutine of its own.  It asks Redis before it     *)
(* takes the mutex and works under the mutex to its end, so a handler is   *)
(* two atomic steps: the cache lookup ("get") and the critical section     *)
(* ("lock").  The write to Redis is inside the critical section; a handler *)
(* that looks between the map update and that write sees a miss, as it     *)
(* would have just before the section.                                     *)
(*                                                                         *)
(* The process may be killed and started again at any time.  Its maps are  *)
(* then as NewClient makes them, while Redis, a process of its own, still  *)
(* has the keys.                                                           *)
(***************************************************************************)
EXTENDS Integers, FiniteSets, Functions, GoInt, RedisCache, GrpcServer

CONSTANTS
    Calls,          \* identifies a call to Reserve or Release
    Orders,
    Keys, NoKey,    \* idempotency keys; NoKey is the empty header
    Requests,       \* the ReserveRequests clients send, with their metadata
    InitialStock,   \* product -> units, as NewClient fills it
    Nil             \* absent map entry, unused call

Products == DOMAIN InitialStock

\* Units of product p over all the lines of an item list.
Qty(items, p) == SumFunctionOnSet([i \in DOMAIN items |-> items[i].qty],
                                  {i \in DOMAIN items : items[i].product = p})

\* An order is created once, with one list of items and one key, and all calls
\* for it carry these.  A quantity may be zero or negative: the gateway checks
\* the int of the body, and what arrives here is that int as an int32.
ASSUME RequestsAssumption ==
    /\ NoKey \notin Keys /\ IsFiniteSet(Orders)
    /\ InitialStock \in [Products -> 0..(Half - 1)]
    /\ \A q \in Requests :
          /\ q.order \in Orders /\ q.key \in Keys \cup {NoKey}
          /\ IsFiniteSet(DOMAIN q.items)
          /\ \A i \in DOMAIN q.items : q.items[i].qty \in (-Half)..(Half - 1)
          /\ q # Nil
    /\ \A q1, q2 \in Requests : q1.order = q2.order => q1 = q2

VARIABLES
    stock,          \* units left of each product
    reservations,   \* order -> the request it was reserved by, or Nil
    cache,          \* Redis entries of this service
    call            \* the handlers: where each call stands and what it answered

vars == <<stock, reservations, cache, call>>

Call == [op : {"Reserve"}, req : Requests, pc : Pc, ok : BOOLEAN]
        \cup [op : {"Release"}, order : Orders, pc : Pc, ok : BOOLEAN]

\* A call that was made is not an unused one.
ASSUME UnusedAssumption == Nil \notin Call

At(c, op, pc) == call[c] # Nil /\ call[c].op = op /\ call[c].pc = pc

-----------------------------------------------------------------------------

\* NewClient
Init ==
    /\ stock = InitialStock
    /\ reservations = [o \in Orders |-> Nil]
    /\ cache = {}
    /\ call = [c \in Calls |-> Nil]

\* Answer the call: {Success: ok}, nil.
Reply(c, ok) == call' = [call EXCEPT ![c].pc = "done", ![c].ok = ok]

ToLock(c) == call' = [call EXCEPT ![c].pc = "lock"]

\* A ReserveRequest arrives; StockItemsFromProto puts order, items and the
\* idempotency key of the metadata together.
Reserve(c, req) ==
    /\ call[c] = Nil
    /\ call' = [call EXCEPT ![c] =
                  [op |-> "Reserve", req |-> req, pc |-> "get", ok |-> FALSE]]
    /\ UNCHANGED <<stock, reservations, cache>>

\* Before the mutex: a request with a key is answered from Redis if the key of
\* an earlier reservation is still there.
ReserveGet(c) ==
    /\ At(c, "Reserve", "get")
    /\ \/ /\ call[c].req.key # NoKey
          /\ GetHits(cache, GenerateKey("reserve", call[c].req.key)) # {}
          /\ Reply(c, TRUE)
       \/ ToLock(c)
    /\ UNCHANGED <<stock, reservations, cache>>

\* Mutant: no second look under the mutex.
DuplicateUnchecked(req) == FALSE

\* Mutant: any reservation will do.
DuplicateOfAny(req) == req.key # NoKey /\ \E o \in Orders : reservations[o] # Nil

\* Some reservation in memory carries the key of the request.
Duplicate(req) ==
    /\ req.key # NoKey
    /\ \E o \in Orders : reservations[o] # Nil /\ reservations[o].key = req.key

\* Mutant: off by one.
AvailableOffByOne(req) ==
    \A i \in DOMAIN req.items :
        /\ req.items[i].product \in Products
        /\ stock[req.items[i].product] >= req.items[i].qty - 1

\* Each line is compared with the stock by itself, before any is taken.
Available(req) ==
    \A i \in DOMAIN req.items :
        /\ req.items[i].product \in Products
        /\ stock[req.items[i].product] >= req.items[i].qty

\* Under the mutex: a repeated request changes nothing, one that asks for too
\* much or for an unknown product is refused, any other takes its items, line by
\* line in int32.
ReserveLocked(c) ==
    LET req == call[c].req IN
    /\ At(c, "Reserve", "lock")
    /\ \/ /\ Duplicate(req)
          /\ Reply(c, TRUE)
          /\ UNCHANGED <<stock, reservations, cache>>
       \/ /\ ~Duplicate(req) /\ ~Available(req)
          /\ Reply(c, FALSE)
          /\ UNCHANGED <<stock, reservations, cache>>
       \/ /\ ~Duplicate(req) /\ Available(req)
          /\ stock' = [p \in Products |-> Int32(stock[p] - Qty(req.items, p))]
          /\ reservations' = [reservations EXCEPT ![req.order] = req]
          /\ IF req.key = NoKey
             THEN UNCHANGED cache
             ELSE cache' \in Set(cache, GenerateKey("reserve", req.key), "ok")
          /\ Reply(c, TRUE)

Release(c, o) ==
    /\ call[c] = Nil
    /\ call' = [call EXCEPT ![c] =
                  [op |-> "Release", order |-> o, pc |-> "get", ok |-> FALSE]]
    /\ UNCHANGED <<stock, reservations, cache>>

ReleaseGet(c) ==
    /\ At(c, "Release", "get")
    /\ \/ /\ GetHits(cache, GenerateKey("release", call[c].order)) # {}
          /\ Reply(c, TRUE)
       \/ ToLock(c)
    /\ UNCHANGED <<stock, reservations, cache>>

\* Mutant: the reservation is kept.
DeletedNot(o) == reservations

\* Mutant: the reservation is emptied instead of deleted.
DeletedItems(o) == [reservations EXCEPT ![o].items = <<>>]

\* delete(s.reservations, orderID)
Deleted(o) == [reservations EXCEPT ![o] = Nil]

\* Under the mutex: give the items back and forget the reservation; an order
\* without one is answered with success as well.
ReleaseLocked(c) ==
    LET o == call[c].order IN
    /\ At(c, "Release", "lock")
    /\ Reply(c, TRUE)
    /\ \/ /\ reservations[o] = Nil
          /\ UNCHANGED <<stock, reservations, cache>>
       \/ /\ reservations[o] # Nil
          /\ stock' = [p \in Products |-> Int32(stock[p] + Qty(reservations[o].items, p))]
          /\ reservations' = Deleted(o)
          /\ cache' \in Set(cache, GenerateKey("release", o), "ok")

\* A request that never reaches the server.
Lose(c) ==
    /\ call[c] # Nil /\ call[c].pc = "get"
    /\ call' = [call EXCEPT ![c].pc = "lost"]
    /\ UNCHANGED <<stock, reservations, cache>>

\* The process is started again, with a NewClient of its own.
Restart ==
    /\ \E c \in Calls : call[c] # Nil /\ call[c].pc \in Current
    /\ stock' = InitialStock
    /\ reservations' = [o \in Orders |-> Nil]
    /\ call' = [c \in Calls |-> IF call[c] = Nil THEN Nil
                                ELSE [call[c] EXCEPT !.pc = AfterRestart(@)]]
    /\ UNCHANGED cache

Handle(c) == ReserveGet(c) \/ ReserveLocked(c) \/ ReleaseGet(c) \/ ReleaseLocked(c)

\* The clients: any number of calls for any order, but an order without a key
\* is reserved once (the gateway creates a new order for every such POST).
Client(c) ==
    \/ \E q \in Requests :
          /\ q.key = NoKey => \A d \in Calls : call[d] # Nil /\ call[d].op = "Reserve"
                                                  => call[d].req # q
          /\ Reserve(c, q)
    \/ \E o \in Orders : Release(c, o)

Next == Restart \/ \E c \in Calls : Client(c) \/ Handle(c) \/ Lose(c)

Spec == Init /\ [][Next]_vars

-----------------------------------------------------------------------------

TypeOK ==
    /\ stock \in [Products -> (-Half)..(Half - 1)]
    /\ reservations \in [Orders -> Requests \cup {Nil}]
    /\ call \in [Calls -> Call \cup {Nil}]

\* Units of p held by the reservation of order o.
Held(o, p) == IF reservations[o] = Nil THEN 0 ELSE Qty(reservations[o].items, p)

\* Nothing is lost or invented: what is left in stock and what reservations hold
\* add up to the initial stock, however calls are repeated, raced, or answered
\* from Redis, and after a restart too (Reserve client.go:85, Release :129).
\* The sum is the one int32 arithmetic makes: with quantities that arrived
\* negative the stock itself may overflow.
StockConserved ==
    \A p \in Products :
        Int32(stock[p] + SumFunction([o \in Orders |-> Held(o, p)])) = InitialStock[p]

\* Stock is never oversold, as long as no request names a product on two lines and
\* no quantity arrived negative (see GoInt): availability and decrement are one
\* critical section (inventory.proto:12, "If the items are unavailable, it returns
\* success = false.").
StockNeverNegative == \A p \in Products : stock[p] >= 0

\* Two orders never hold reservations under the same idempotency key: the scan
\* and the insert happen under one lock (client.go:53).
OneReservationPerKey ==
    \A o1, o2 \in Orders :
        /\ reservations[o1] # Nil /\ reservations[o2] # Nil
        /\ reservations[o1].key = reservations[o2].key
        /\ reservations[o1].key # NoKey
        => o1 = o2

ReleaseSent(o) == \E c \in Calls : call[c] # Nil /\ call[c].op = "Release" /\ call[c].order = o

\* Call d is a Reserve that brings the key of req for another order.
Rival(d, req) == /\ call[d] # Nil /\ call[d].op = "Reserve" /\ call[d].req # req
                 /\ call[d].req.key = req.key /\ req.key # NoKey

\* A Reserve that was answered with success holds the items of its order until
\* somebody asks to release them or the service restarts, also when the answer
\* came from Redis or from the scan.  There are two exceptions: a request that
\* had been answered before a restart already, which Redis (client.go:44) may
\* answer again, and one whose key another order came with.  Reserve compares
\* keys and not order ids (:58), so the second order is told success and holds
\* nothing; ConfirmedHoldsStock of ApiGateway is about what comes of that.
SuccessIsHeld ==
    \A c \in Calls :
        LET req == call[c].req IN
        /\ At(c, "Reserve", "done") /\ call[c].ok
        /\ ~ReleaseSent(req.order)
        /\ \A d \in Calls : ~Rival(d, req)
        /\ \A d \in Calls : At(d, "Reserve", "old") => call[d].req # req
        => reservations[req.order] = req

=============================================================================
