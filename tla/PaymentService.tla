--------------------------- MODULE PaymentService ---------------------------
(***************************************************************************)
(* internal/payment-service/app/client.go: the gRPC server that holds the  *)
(* payment of each order in memory behind one mutex.  Its idempotency keys *)
(* in Redis are order ids: one for the charge of an order, one for its     *)
(* refund.  As in InventoryService a handler is two atomic steps, the      *)
(* lookup in Redis ("get") and the critical section ("lock"), and a        *)
(* restart empties the map but not Redis.                                  *)
(***************************************************************************)
EXTENDS Integers, RedisCache, GrpcServer

CONSTANTS
    Calls,      \* identifies a call to Charge or Refund
    Orders,
    Charges,    \* the ChargeRequests clients send
    Limit,      \* 500.00, the largest amount that is not declined
    Nil         \* absent map entry, unused call

\* The amount is the total of the order, which never changes.  It is negative
\* if a quantity arrived so (see GoInt), and no code looks at that.
ASSUME ChargesAssumption ==
    /\ Limit \in Nat /\ Nil \notin Int
    /\ \A q \in Charges : q.order \in Orders /\ q.amount \in Int
    /\ \A q1, q2 \in Charges : q1.order = q2.order => q1 = q2

VARIABLES
    payments,   \* order -> amount charged, or Nil
    cache,      \* Redis entries of this service
    call,       \* the handlers: where each call stands and what it answered
    captures,   \* history: how often money was taken for the order
    refunds,    \* history: how often it was given back
    forgotten   \* history: how often a restart lost the payment

vars    == <<payments, cache, call, captures, refunds, forgotten>>
history == <<captures, refunds, forgotten>>

Call == [op : {"Charge"}, req : Charges, pc : Pc, ok : BOOLEAN]
        \cup [op : {"Refund"}, order : Orders, pc : Pc, ok : BOOLEAN]

\* A call that was made is not an unused one.
ASSUME UnusedAssumption == Nil \notin Call

At(c, op, pc) == call[c] # Nil /\ call[c].op = op /\ call[c].pc = pc

-----------------------------------------------------------------------------

\* NewClient
Init ==
    /\ payments = [o \in Orders |-> Nil]
    /\ cache = {}
    /\ call = [c \in Calls |-> Nil]
    /\ captures = [o \in Orders |-> 0]
    /\ refunds = [o \in Orders |-> 0]
    /\ forgotten = [o \in Orders |-> 0]

Reply(c, ok) == call' = [call EXCEPT ![c].pc = "done", ![c].ok = ok]

ToLock(c) == call' = [call EXCEPT ![c].pc = "lock"]

Charge(c, req) ==
    /\ call[c] = Nil
    /\ call' = [call EXCEPT ![c] =
                  [op |-> "Charge", req |-> req, pc |-> "get", ok |-> FALSE]]
    /\ UNCHANGED <<payments, cache, history>>

ChargeGet(c) ==
    /\ At(c, "Charge", "get")
    /\ \/ /\ GetHits(cache, GenerateKey("charge", call[c].req.order)) # {}
          /\ Reply(c, TRUE)
       \/ ToLock(c)
    /\ UNCHANGED <<payments, cache, history>>

\* Mutant: no second look under the mutex.
AlreadyChargedUnchecked(o) == FALSE

AlreadyCharged(o) == payments[o] # Nil

\* Mutant: off by one.
ExceedsLimitByTwo(amount) == amount > Limit + 1

ExceedsLimit(amount) == amount > Limit

\* Under the mutex: an order that is charged already is answered with success,
\* an amount above the limit is declined, any other is taken.
ChargeLocked(c) ==
    LET o == call[c].req.order
        amount == call[c].req.amount
    IN
    /\ At(c, "Charge", "lock")
    /\ \/ /\ AlreadyCharged(o)
          /\ Reply(c, TRUE)
          /\ UNCHANGED <<payments, cache, history>>
       \/ /\ ~AlreadyCharged(o) /\ ExceedsLimit(amount)
          /\ Reply(c, FALSE)
          /\ UNCHANGED <<payments, cache, history>>
       \/ /\ ~AlreadyCharged(o) /\ ~ExceedsLimit(amount)
          /\ payments' = [payments EXCEPT ![o] = amount]
          /\ captures' = [captures EXCEPT ![o] = @ + 1]
          /\ cache' \in Set(cache, GenerateKey("charge", o), "amount")
          /\ Reply(c, TRUE)
          /\ UNCHANGED <<refunds, forgotten>>

Refund(c, o) ==
    /\ call[c] = Nil
    /\ call' = [call EXCEPT ![c] =
                  [op |-> "Refund", order |-> o, pc |-> "get", ok |-> FALSE]]
    /\ UNCHANGED <<payments, cache, history>>

RefundGet(c) ==
    /\ At(c, "Refund", "get")
    /\ \/ /\ GetHits(cache, GenerateKey("refund", call[c].order)) # {}
          /\ Reply(c, TRUE)
       \/ ToLock(c)
    /\ UNCHANGED <<payments, cache, history>>

\* Mutant: the refund is booked as a negative payment.
DeletedNegated(o) == [payments EXCEPT ![o] = -@]

\* delete(s.payments, orderID)
Deleted(o) == [payments EXCEPT ![o] = Nil]

\* Under the mutex: give the money back; an order without a payment is
\* answered with success as well.
RefundLocked(c) ==
    LET o == call[c].order IN
    /\ At(c, "Refund", "lock")
    /\ Reply(c, TRUE)
    /\ \/ /\ payments[o] = Nil
          /\ UNCHANGED <<payments, cache, history>>
       \/ /\ payments[o] # Nil
          /\ payments' = Deleted(o)
          /\ refunds' = [refunds EXCEPT ![o] = @ + 1]
          /\ cache' \in Set(cache, GenerateKey("refund", o), "ok")
          /\ UNCHANGED <<captures, forgotten>>

\* A request that never reaches the server.
Lose(c) ==
    /\ call[c] # Nil /\ call[c].pc = "get"
    /\ call' = [call EXCEPT ![c].pc = "lost"]
    /\ UNCHANGED <<payments, cache, history>>

\* The process is started again, with a NewClient of its own.
Restart ==
    /\ \E c \in Calls : call[c] # Nil /\ call[c].pc \in Current
    /\ payments' = [o \in Orders |-> Nil]
    /\ forgotten' = [o \in Orders |-> IF payments[o] = Nil THEN forgotten[o]
                                                          ELSE forgotten[o] + 1]
    /\ call' = [c \in Calls |-> IF call[c] = Nil THEN Nil
                                ELSE [call[c] EXCEPT !.pc = AfterRestart(@)]]
    /\ UNCHANGED <<cache, captures, refunds>>

Handle(c) == ChargeGet(c) \/ ChargeLocked(c) \/ RefundGet(c) \/ RefundLocked(c)

\* The clients: any number of calls for any order.
Client(c) == (\E q \in Charges : Charge(c, q)) \/ (\E o \in Orders : Refund(c, o))

Next == Restart \/ \E c \in Calls : Client(c) \/ Handle(c) \/ Lose(c)

Spec == Init /\ [][Next]_vars

-----------------------------------------------------------------------------

TypeOK ==
    /\ payments \in [Orders -> {q.amount : q \in Charges} \cup {Nil}]
    /\ call \in [Calls -> Call \cup {Nil}]
    /\ captures \in [Orders -> Nat]
    /\ refunds \in [Orders -> Nat]
    /\ forgotten \in [Orders -> Nat]

\* Money is taken at most once between two refunds, and given back only after
\* it was taken: payments on record, and those a restart lost, are exactly what
\* the customer is out of pocket, whatever calls repeat, race or are answered
\* from Redis (client.go:43 and :82 look and write under one lock).
MoneyIsAccounted ==
    \A o \in Orders :
        captures[o] - refunds[o] - forgotten[o] = IF payments[o] = Nil THEN 0 ELSE 1

RefundSent(o) == \E c \in Calls : call[c] # Nil /\ call[c].op = "Refund" /\ call[c].order = o

\* A Charge that was answered with success is on record, with the amount asked
\* for and within the limit, until somebody asks for a refund or the service
\* restarts, also when Redis gave the answer.  The one exception is an order
\* that had been charged before a restart: Redis (client.go:35) may say so
\* though the record is gone.
SuccessIsPaid ==
    \A c \in Calls :
        /\ At(c, "Charge", "done") /\ call[c].ok
        /\ ~RefundSent(call[c].req.order)
        /\ forgotten[call[c].req.order] = 0
        => payments[call[c].req.order] = call[c].req.amount /\ call[c].req.amount <= Limit

\* payment.proto:12, of Charge: "This operation must be idempotent based on the
\* order_id".  However often an order is charged, the customer pays once.
ChargeIsIdempotent == \A o \in Orders : captures[o] - refunds[o] <= 1

=============================================================================
