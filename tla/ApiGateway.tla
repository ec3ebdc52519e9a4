----------------------------- MODULE ApiGateway -----------------------------
(***************************************************************************)
(* The whole system: the API gateway (internal/api-gateway, with the saga  *)
(* engine and the steps of internal/coordinator in its process) and the    *)
(* order, inventory and payment services it calls.                         *)
(*                                                                         *)
(* Each r in Runs is one POST /orders: the HTTP handler creates an order,  *)
(* answers 201 and leaves a goroutine behind that runs the order saga      *)
(* (step 1 Inventory, 2 Payment, 3 Confirm) and cancels the order if the   *)
(* saga fails.  The requests and answers of the gRPC calls are the call    *)
(* records of the services.  A call may fail on the client's side whatever *)
(* becomes of it on the server's: not delivered, still running, or done.   *)
(* The gateway and the services may be killed and started again.           *)
(***************************************************************************)
EXTENDS Integers, Sequences, FiniteSets, GoInt

CONSTANTS
    Runs,           \* the POSTs; a POST is also the id of the order it mints
    Body,           \* POST -> [key, items], its header and decoded JSON body
    Batches,        \* bound: the sets of POSTs that are sent together, and how many
                    \* restarts and calls that fail without one they may meet
    Keys, NoKey,    \* idempotency keys; NoKey is the absent header
    ProductIds,     \* the products a POST may name, in stock or not
    InitialStock,   \* product -> units
    Limit,          \* the largest amount the payment service accepts
    MaxMissed,      \* bound: inserts into the saga log that may fail, per run
    Nil

Services == {"inventory", "payment", "order"}

Line == [product : ProductIds, qty : Int, price : Int]

ASSUME BodyAssumption ==
    /\ IsFiniteSet(Runs) /\ NoKey \notin Keys
    /\ Body \in [Runs -> [key : Keys \cup {NoKey}, items : Seq(Line)]]

ASSUME ServiceAssumption ==
    /\ InitialStock \in [DOMAIN InitialStock -> 0..(Half - 1)]
    /\ Limit \in Nat /\ MaxMissed \in Nat

VARIABLES
    http,       \* the HTTP exchange of each POST
    told,       \* the order its CreateOrder returned
    broken,     \* history: the gRPC calls that failed on the client's side
    gone,       \* the POSTs that were under way when the gateway crashed
    restarts,   \* history: how often each service was restarted
    \* Orchestrator
    pc, cur, completed, errors, rbErrors, back, log, dead, executed, undone, missed,
    \* InventoryService
    stock, reservations, invCache, invCall,
    \* PaymentService
    payments, payCache, payCall, captures, refunds, forgotten,
    \* OrderService
    orders, ordCache, create, update

webVars  == <<http, told, gone>>
netVars  == <<broken, restarts>>
sagaVars == <<pc, cur, completed, errors, rbErrors, back, log, dead,
              executed, undone, missed>>
invVars  == <<stock, reservations, invCache, invCall>>
payVars  == <<payments, payCache, payCall, captures, refunds, forgotten>>
ordVars  == <<orders, ordCache, create, update>>
vars     == <<webVars, netVars, sagaVars, invVars, payVars, ordVars>>

\* The validation in Handler.CreateOrder.
Valid(r) ==
    /\ Body[r].items # <<>>
    /\ \A i \in DOMAIN Body[r].items : Body[r].items[i].qty > 0 /\ Body[r].items[i].price > 0

\* AttachTracingMetadata: the header goes into the metadata of every call made for
\* the POST, those of its saga included.
IdempotencyKey(r) == Body[r].key

\* GRPCOrderService.CreateOrder: the request it makes of a POST.  The quantity of
\* the body is an int; one that does not fit into an int32 becomes another.
CreateRequest(r) ==
    [key |-> IdempotencyKey(r),
     items |-> [i \in DOMAIN Body[r].items |->
                   [Body[r].items[i] EXCEPT !.qty = Int32(@)]]]

\* The order the gateway keeps of an answer.
mapProtoOrderToEntity(po) ==
    [id |-> po.id, status |-> po.status, total |-> po.total, items |-> po.items]

mapOrderToResponse(o) ==
    [id |-> o.id, status |-> o.status, total |-> o.total, items |-> o.items]

mapToProtoItems(items) ==
    [i \in DOMAIN items |-> [product |-> items[i].product, qty |-> Int32(items[i].qty)]]

\* The calls a saga makes.
InvCalls   == Runs \X {"Reserve", "Release"}
PayCalls   == Runs \X {"Charge", "Refund"}
OrdUpdates == Runs \X {"Confirm", "Cancel"}

\* What the services may be asked for: what passes the validation.
Posts           == {r \in Runs : Valid(r)}
CreateRequests  == {CreateRequest(r) : r \in Posts}
ReserveRequests == {[order |-> r, key |-> IdempotencyKey(r),
                     items |-> mapToProtoItems(CreateRequest(r).items)] : r \in Posts}

Saga == INSTANCE Orchestrator WITH N <- 3

Inv == INSTANCE InventoryService WITH
           Calls <- InvCalls, Orders <- Runs, cache <- invCache, call <- invCall,
           Requests <- ReserveRequests

Ord == INSTANCE OrderService WITH
           Orders <- Runs, Updates <- OrdUpdates, cache <- ordCache,
           Requests <- CreateRequests

ChargeRequests == {[order |-> r, amount |-> Ord!calculateTotal(CreateRequest(r).items)] : r \in Posts}

Pay == INSTANCE PaymentService WITH
           Calls <- PayCalls, Orders <- Runs, cache <- payCache, call <- payCall,
           Charges <- ChargeRequests

\* Nil is none of the values it stands beside.
ASSUME NilAssumption ==
    /\ Nil \notin Int /\ Nil \notin ReserveRequests
    /\ Nil \notin Inv!Call \cup Pay!Call
    /\ Nil \notin Ord!Order \cup Ord!Proto \cup Ord!Create \cup Ord!Update

-----------------------------------------------------------------------------

Init ==
    /\ http = [r \in Runs |-> "new"]
    /\ told = [r \in Runs |-> Nil]
    /\ broken = {}
    /\ gone = {}
    /\ restarts = [s \in Services |-> 0]
    /\ Saga!Init /\ Inv!Init /\ Pay!Init /\ Ord!Init

\* GRPCOrderService.GetOrder: the order, or Nil for an error.
GetOrder(id) ==
    LET po == Ord!GetOrder(id) IN IF po = Nil THEN Nil ELSE mapProtoOrderToEntity(po)

\* GET /orders/{id}, when its call does not fail.
GetOrderByID(id) ==
    LET order == GetOrder(id) IN
    IF order = Nil THEN [code |-> "404"] ELSE [code |-> "200", body |-> mapOrderToResponse(order)]

Sent == {r \in Runs : http[r] # "new"}

Restarts == restarts["inventory"] + restarts["payment"] + restarts["order"]

MoreFaults == \E b \in Batches :
    Sent \subseteq b.posts /\ Cardinality(broken) + Restarts < b.faults

\* Handler.CreateOrder up to the gRPC call.
PostOrder(r) ==
    /\ http[r] = "new"
    /\ \E b \in Batches : {r} \cup Sent \subseteq b.posts
    /\ IF Valid(r)
       THEN http' = [http EXCEPT ![r] = "creating"] /\ Ord!CreateOrder(r, CreateRequest(r))
       ELSE http' = [http EXCEPT ![r] = "400"] /\ UNCHANGED ordVars
    /\ UNCHANGED <<told, netVars, gone, sagaVars, invVars, payVars>>

\* Answers to calls: a call that a restart has ended never gets one.
Answered(rec) == rec # Nil /\ rec.pc \in {"done", "old"}

Cut(rec) == rec # Nil /\ rec.pc = "lost"

\* The rest of it: the saga goroutine is spawned, whether the order is new or
\* one an earlier POST created, and the client is answered.
CreateReturned(r) ==
    /\ r \notin gone
    /\ http[r] = "creating" /\ Answered(create[r])
    /\ http' = [http EXCEPT ![r] = "201"]
    /\ told' = [told EXCEPT ![r] = mapProtoOrderToEntity(create[r].reply)]
    /\ UNCHANGED <<netVars, gone, sagaVars, invVars, payVars, ordVars>>

\* A gRPC call fails on the client's side: its server has died, or for no reason
\* that shows here.
RpcError(c, rec) ==
    /\ Cut(rec) \/ MoreFaults
    /\ broken' = broken \cup {c}
    /\ UNCHANGED restarts

CreateFailed(r) ==
    /\ r \notin gone
    /\ http[r] = "creating"
    /\ RpcError(<<r, "Create">>, create[r])
    /\ http' = [http EXCEPT ![r] = "502"]
    /\ UNCHANGED <<told, gone, sagaVars, invVars, payVars, ordVars>>

-----------------------------------------------------------------------------
(* runOrderSaga                                                            *)

\* Mutant: the detached context loses the metadata.
ReserveRequestNoKey(r) ==
    [order |-> told[r].id, key |-> NoKey, items |-> mapToProtoItems(told[r].items)]

ReserveRequest(r) ==
    [order |-> told[r].id, key |-> IdempotencyKey(r), items |-> mapToProtoItems(told[r].items)]

ChargeRequest(r) == [order |-> told[r].id, amount |-> told[r].total]

SagaStart(r) ==
    /\ r \notin gone
    /\ http[r] = "201" /\ Saga!Start(r)
    /\ UNCHANGED <<webVars, netVars, invVars, payVars, ordVars>>

\* The steps of the engine that call no service: its saveLogs.
SagaSave(r) ==
    /\ \/ Saga!SaveStepDone(r)     \/ Saga!SaveCompleted(r)
       \/ Saga!SaveCompensating(r) \/ Saga!SaveFailed(r)
    /\ UNCHANGED <<webVars, netVars, invVars, payVars, ordVars>>

\* Execute of InventoryStep, PaymentStep and ConfirmOrderStep.
ExecuteCall(r) ==
    /\ Saga!ExecuteCall(r)
    /\ \/ /\ cur[r] = 1 /\ Inv!Reserve(<<r, "Reserve">>, ReserveRequest(r))
          /\ UNCHANGED <<payVars, ordVars>>
       \/ /\ cur[r] = 2 /\ Pay!Charge(<<r, "Charge">>, ChargeRequest(r))
          /\ UNCHANGED <<invVars, ordVars>>
       \/ /\ cur[r] = 3 /\ Ord!UpdateOrderStatus(<<r, "Confirm">>, told[r].id, "CONFIRMED")
          /\ UNCHANGED <<invVars, payVars>>
    /\ UNCHANGED <<webVars, netVars>>

\* The call of the step the run is executing, and the service's record of it.
ExecuteId(r) == <<r, <<"Reserve", "Charge", "Confirm">>[cur[r]]>>

ExecuteRecord(r) == CASE cur[r] = 1 -> invCall[ExecuteId(r)]
                      [] cur[r] = 2 -> payCall[ExecuteId(r)]
                      [] cur[r] = 3 -> update[ExecuteId(r)]

\* The answer arrives: Execute is nil if it says success, an error otherwise.
ExecuteReturn(r) ==
    /\ pc[r] = "executing" /\ Answered(ExecuteRecord(r))
    /\ \/ ExecuteRecord(r).ok /\ Saga!ExecuteOk(r)
       \/ ~ExecuteRecord(r).ok /\ Saga!ExecuteErr(r)
    /\ UNCHANGED <<webVars, netVars, invVars, payVars, ordVars>>

ExecuteRpcError(r) ==
    /\ Saga!ExecuteErr(r)
    /\ RpcError(ExecuteId(r), ExecuteRecord(r))
    /\ UNCHANGED <<webVars, invVars, payVars, ordVars>>

\* Compensate of InventoryStep and PaymentStep.  ConfirmOrderStep is the last
\* step, so rollback never gets to its (empty) Compensate.
CompensateCall(r) ==
    /\ Saga!CompensateCall(r)
    /\ \/ /\ completed[r][back[r]] = 1 /\ Inv!Release(<<r, "Release">>, told[r].id)
          /\ UNCHANGED payVars
       \/ /\ completed[r][back[r]] = 2 /\ Pay!Refund(<<r, "Refund">>, told[r].id)
          /\ UNCHANGED invVars
    /\ UNCHANGED <<webVars, netVars, ordVars>>

CompensateId(r) == <<r, <<"Release", "Refund">>[completed[r][back[r]]]>>

CompensateRecord(r) == IF completed[r][back[r]] = 1 THEN invCall[CompensateId(r)]
                                                    ELSE payCall[CompensateId(r)]

\* The answer arrives; Compensate does not look at its success flag.
CompensateReturn(r) ==
    /\ pc[r] = "compensating" /\ Answered(CompensateRecord(r))
    /\ Saga!CompensateReturn(r, TRUE)
    /\ UNCHANGED <<webVars, netVars, invVars, payVars, ordVars>>

CompensateRpcError(r) ==
    /\ pc[r] = "compensating"
    /\ RpcError(CompensateId(r), CompensateRecord(r))
    /\ Saga!CompensateReturn(r, FALSE)
    /\ UNCHANGED <<webVars, invVars, payVars, ordVars>>

\* Mutant: the order is cancelled whatever Start returned.
MustCancelAlways(r) == pc[r] \in {"failed", "completed"}

\* Mutant: a saga that failed in its first step has nothing to cancel.
MustCancelIfAnyDone(r) == pc[r] = "failed" /\ completed[r] # <<>>

\* Start has returned an error.
MustCancel(r) == pc[r] = "failed"

\* Cancel the order.  Whatever comes of that call, the goroutine ends.
CancelCall(r) ==
    /\ r \notin gone
    /\ MustCancel(r)
    /\ Ord!UpdateOrderStatus(<<r, "Cancel">>, told[r].id, "CANCELLED")
    /\ UNCHANGED <<webVars, netVars, sagaVars, invVars, payVars>>

CancelRpcError(r) ==
    /\ r \notin gone
    /\ update[<<r, "Cancel">>] # Nil /\ ~Answered(update[<<r, "Cancel">>])
    /\ <<r, "Cancel">> \notin broken
    /\ RpcError(<<r, "Cancel">>, update[<<r, "Cancel">>])
    /\ UNCHANGED <<webVars, sagaVars, invVars, payVars, ordVars>>

-----------------------------------------------------------------------------
(* The services and the network                                            *)

Serve ==
    \/ /\ \E c \in InvCalls : Inv!Handle(c)
       /\ UNCHANGED <<webVars, netVars, sagaVars, payVars, ordVars>>
    \/ /\ \E c \in PayCalls : Pay!Handle(c)
       /\ UNCHANGED <<webVars, netVars, sagaVars, invVars, ordVars>>
    \/ /\ \/ \E r \in Runs : Ord!HandleCreate(r)
          \/ \E u \in OrdUpdates : Ord!UpdateLocked(u)
       /\ UNCHANGED <<webVars, netVars, sagaVars, invVars, payVars>>

\* A request whose sender has given up, or is gone, may never arrive.
GaveUp(c) == c \in broken \/ c[1] \in gone

Lose ==
    \/ /\ \E c \in InvCalls : GaveUp(c) /\ Inv!Lose(c)
       /\ UNCHANGED <<webVars, netVars, sagaVars, payVars, ordVars>>
    \/ /\ \E c \in PayCalls : GaveUp(c) /\ Pay!Lose(c)
       /\ UNCHANGED <<webVars, netVars, sagaVars, invVars, ordVars>>
    \/ /\ \/ \E r \in Runs : GaveUp(<<r, "Create">>) /\ Ord!LoseCreate(r)
          \/ \E u \in OrdUpdates : GaveUp(u) /\ Ord!LoseUpdate(u)
       /\ UNCHANGED <<webVars, netVars, sagaVars, invVars, payVars>>

\* A service is killed and started again, any number of times.
Restart(s) ==
    /\ MoreFaults
    /\ restarts' = [restarts EXCEPT ![s] = @ + 1]
    /\ \/ s = "inventory" /\ Inv!Restart /\ UNCHANGED <<payVars, ordVars>>
       \/ s = "payment"   /\ Pay!Restart /\ UNCHANGED <<invVars, ordVars>>
       \/ s = "order"     /\ Ord!Restart /\ UNCHANGED <<invVars, payVars>>
    /\ UNCHANGED <<webVars, broken, sagaVars>>

\* Nothing of POST r is left to do in the gateway.
Finished(r) ==
    \/ http[r] \in {"400", "502"}
    \/ pc[r] = "completed"
    \/ pc[r] = "failed" /\ (Answered(update[<<r, "Cancel">>]) \/ <<r, "Cancel">> \in broken)

UnderWay == {r \in Runs \ gone : http[r] # "new" /\ ~Finished(r)}

\* The gateway process dies and is started again; http = "new" are POSTs that
\* come after that.
Crash ==
    /\ UnderWay # {}
    /\ gone' = gone \cup UnderWay
    /\ dead' = dead \cup {r \in UnderWay : pc[r] # "new" /\ ~Saga!Ended(r)}
    /\ UNCHANGED <<http, told, netVars, invVars, payVars, ordVars, pc, cur, completed,
                   errors, rbErrors, back, log, executed, undone, missed>>

-----------------------------------------------------------------------------

\* What the gateway does for a POST it has received, when no call fails.
Gateway(r) ==
    \/ CreateReturned(r) \/ SagaStart(r) \/ SagaSave(r)
    \/ ExecuteCall(r) \/ ExecuteReturn(r)
    \/ CompensateCall(r) \/ CompensateReturn(r)
    \/ CancelCall(r)

Fault(r) ==
    \/ CreateFailed(r) \/ ExecuteRpcError(r)
    \/ CompensateRpcError(r) \/ CancelRpcError(r)

Next ==
    \/ \E r \in Runs : PostOrder(r) \/ Gateway(r) \/ Fault(r)
    \/ Serve \/ Lose \/ Crash
    \/ \E s \in Services : Restart(s)

Spec == Init /\ [][Next]_vars

\* The call the gateway waits for on behalf of r.
Awaited(r) == CASE http[r] = "creating"    -> create[r]
                [] pc[r] = "executing"    -> ExecuteRecord(r)
                [] pc[r] = "compensating" -> CompensateRecord(r)
                [] OTHER                  -> update[<<r, "Cancel">>]

Progress == Serve \/ \E r \in Runs : Gateway(r) \/ (Cut(Awaited(r)) /\ Fault(r))

\* Goroutines are scheduled, a call that reaches a live service is served, and
\* the client learns of the death of its server (the connection breaks).  There
\* is only so much to do for a POST, so it is enough that something gets done.
Fairness == WF_vars(Progress)

FairSpec == Spec /\ Fairness

-----------------------------------------------------------------------------

TypeOK ==
    /\ http \in [Runs -> {"new", "creating", "201", "400", "502"}]
    /\ told \in [Runs -> Ord!Proto \cup {Nil}]
    /\ \A r \in Runs : told[r] # Nil <=> http[r] = "201"
    /\ broken \subseteq InvCalls \cup PayCalls \cup OrdUpdates \cup (Runs \X {"Create"})
    /\ gone \subseteq Runs
    /\ restarts \in [Services -> Nat]
    /\ Saga!TypeOK /\ Inv!TypeOK /\ Pay!TypeOK /\ Ord!TypeOK

\* The services that were restarted.
restarted == {s \in Services : restarts[s] > 0}

Broken(r, calls) == \E c \in calls : <<r, c>> \in broken

\* No other POST was sent under the key of r.
Alone(r) == \A q \in Runs \ {r} : http[q] # "new" /\ Body[q].key = Body[r].key
                                      => Body[r].key = NoKey

\* The gateway's items, for a comparison with the stock items of a reservation.
StockItems(items) ==
    [i \in DOMAIN items |-> [product |-> items[i].product, qty |-> items[i].qty]]

\* Reserved, paid and confirmed, as far as services have not forgotten about it.
Fulfilled(id) ==
    /\ "order" \notin restarted => orders[id] # Nil /\ orders[id].status = "CONFIRMED"
    /\ "inventory" \notin restarted => reservations[id] # Nil
    /\ "payment" \notin restarted => payments[id] # Nil

\* A saga that completes leaves its order confirmed, its items reserved and its
\* total paid, and no other saga, no late call, no crash and no restart of
\* another service takes any of it away again, as long as the POST is not
\* repeated (handler.go:112-118).
CompletedIsKept ==
    \A r \in Runs : pc[r] = "completed" /\ Alone(r) => Fulfilled(told[r].id)

\* A saga that fails leaves nothing behind once its goroutine has ended: what is
\* left of it was left by a call that failed on the gateway's side, and by that
\* call's step only (saga.go:62 compensates the completed steps, handler.go:124
\* cancels), as long as the POST is not repeated.
FailedLeavesNothing ==
    \A r \in Runs : pc[r] = "failed" /\ Finished(r) /\ Alone(r) =>
        LET id == told[r].id IN
        /\ reservations[id] # Nil => Broken(r, {"Reserve", "Release"})
        /\ payments[id] # Nil => Broken(r, {"Charge", "Refund"})
        /\ orders[id] # Nil /\ orders[id].status # "CANCELLED" => Broken(r, {"Confirm", "Cancel"})

\* All the quantities of the POST are int32s.
Fits(id) == \A i \in DOMAIN Body[id].items : Body[id].items[i].qty < Half

\* Whoever works on an order, and whatever is restarted, works on what the POST
\* asked for that made the order: it is stored with its items and quantities,
\* a reservation holds these and a payment is their total, although a retry may
\* carry another body (order-service client.go:51, :62 answer the first one) and
\* quantities pass through three integer types (order_service_grpc.go:37, :95,
\* handler.go:143).  The gateway accepts any positive int (handler.go:62): if a
\* quantity does not fit into an int32 another one is ordered, possibly a
\* negative one, but it is one and the same that is stored, reserved and paid.
EffectsMatchOrder ==
    \A id \in Runs :
        LET items == IF Fits(id) THEN Body[id].items ELSE CreateRequest(id).items IN
        /\ orders[id] # Nil => orders[id].items = items
        /\ reservations[id] # Nil => reservations[id].items = StockItems(items)
        /\ payments[id] # Nil => payments[id] = Ord!calculateTotal(items)

\* POSTs that repeat an idempotency key have the effect of one: at most one order
\* is stored, reserved and paid for them, and its customer is out of pocket once,
\* however many sagas work on it at a time and also when the inventory service
\* is restarted (README.md, State Integrity: every write operation is guarded,
\* "exactly-once").  Restarts of the two others undo the promise.
ExactlyOncePerKey ==
    \A a, b \in Runs :
        /\ a # b /\ Body[a].key = Body[b].key /\ Body[a].key # NoKey
        /\ restarted \subseteq {"inventory"}
        => /\ orders[a] = Nil \/ orders[b] = Nil
           /\ reservations[a] = Nil \/ reservations[b] = Nil
           /\ (captures[a] - refunds[a]) + (captures[b] - refunds[b]) <= 1

\* A client that was answered 201 can GET the order, with the items and the total
\* it was told, while sagas, also those of a retry, work on it and Redis answers
\* for the order service (handler.go:90 and :107).
AcceptedIsVisible ==
    \A r \in Runs : told[r] # Nil /\ "order" \notin restarted =>
        LET accepted == mapOrderToResponse(told[r])
            seen     == GetOrderByID(accepted.id)
        IN  /\ seen.code = "200"
            /\ seen.body.items = accepted.items /\ seen.body.total = accepted.total

\* What GET shows as CONFIRMED or CANCELLED stays that, although the order
\* service lets any status follow any other (order-service client.go:102), as
\* long as the POST is not repeated; only a Confirm the gateway has given up on
\* may still be carried out, after the Cancel.
FinalStatusStays ==
    [][orders' = orders \/ \A id \in Runs :
          LET old == GetOrderByID(id)
              new == GetOrderByID(id)'
          IN  /\ Alone(id) /\ ~Broken(id, {"Confirm"})
              /\ old.code = "200" /\ old.body.status # "PENDING"
              => new.code = "404" \/ new.body.status = old.body.status]_vars

\* The order a POST is about: its own, until it is told of another.
About(r) == IF told[r] = Nil THEN r ELSE told[r].id

\* An order that is stored does not stay PENDING: it is confirmed or cancelled,
\* or the order service forgets it, unless the gateway crashes or the call
\* that creates or cancels it fails on the gateway's side: then, and only then,
\* nobody may ever work on it (handler.go:79 answers 502 and :127 gives up).
\* POSTs come to an end here, so all of this holds from some time on.
EveryOrderSettles ==
    <>[](\A r \in Runs : orders[About(r)] # Nil =>
            \/ orders[About(r)].status # "PENDING"
            \/ r \in gone \/ Broken(r, {"Create", "Cancel"}))

\* The gateway uses its parts as their own modules say they are used: what holds
\* of the engine and of each service for arbitrary clients holds here.  In
\* particular the gateway never reserves an order without a key twice, and never
\* sends two requests for one order that differ.
ComponentsAsSpecified ==
    /\ Saga!Init /\ Inv!Init /\ Pay!Init /\ Ord!Init
    /\ [][/\ UNCHANGED sagaVars \/ Saga!Next
          /\ UNCHANGED invVars \/ Inv!Next
          /\ UNCHANGED payVars \/ Pay!Next
          /\ UNCHANGED ordVars \/ Ord!Next]_vars

\* order.proto:21, of CONFIRMED: "Order was successfully paid and stock was
\* reserved."  An order that a completed saga has confirmed and that no saga is
\* at work on any more is paid for and has its stock.
ConfirmedIsFulfilled ==
    \A r \in Runs :
        /\ pc[r] = "completed" /\ restarted = {}
        /\ orders[told[r].id].status = "CONFIRMED"
        /\ \A q \in Runs : http[q] = "new" \/ Finished(q)
        => Fulfilled(told[r].id)

\* inventory.proto:13, of Reserve: "This operation is idempotent based on the
\* order_id."  As long as nothing is released, an order that a completed saga
\* has confirmed has a reservation of its own, also when the order service was
\* restarted and creates a new order for a repeated POST.
ConfirmedHoldsStock ==
    \A r \in Runs :
        /\ pc[r] = "completed" /\ restarted \subseteq {"order"}
        /\ orders[told[r].id] # Nil /\ orders[told[r].id].status = "CONFIRMED"
        /\ \A q \in Runs : invCall[<<q, "Release">>] = Nil
        => reservations[told[r].id] # Nil

=============================================================================
