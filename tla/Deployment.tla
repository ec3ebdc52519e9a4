----------------------------- MODULE Deployment -----------------------------
(***************************************************************************)
(* The four processes and the gRPC calls between them: how each main gets  *)
(* its process to serve, which address a client dials, which methods are   *)
(* found there, which context a call runs under, what of that context a    *)
(* handler sees, and how a call ends when a process or a connection dies   *)
(* or the HTTP client leaves.  What handlers do is left to the modules of  *)
(* the services: here one returns, with a success or a refusal.            *)
(***************************************************************************)
EXTENDS Integers, FiniteSets

CONSTANTS
    Posts, Gets,    \* HTTP requests: POST /orders and GET /orders/{id}
    Key,            \* request -> its X-Idempotency-Key, "" if it has none
    Env,            \* environment variable -> the port it comes down to (the value
                    \* of an address without its host), "" if it is not set
    Loads,          \* bound: the sets of requests that are sent together, and how many
                    \* processes and connections die in the meantime
    Nil

Requests  == Posts \cup Gets
Services  == {"order", "payment", "inventory"}
Processes == Services \cup {"gateway"}

\* The calls made for a request, named after what they are for.
Names == {"Create", "Reserve", "Charge", "Confirm", "Refund", "Release", "Cancel"}
Calls == (Posts \X Names) \cup (Gets \X {"Get"})

\* The idempotency key and the id of an HTTP request, each if there is one.
Metadata == [key : {Key[r] : r \in Requests} \cup {""}, id : Requests \cup {Nil}]

ASSUME LoadsAssumption  == Loads # {} /\ \A l \in Loads : l.faults \in Nat
ASSUME UnusedAssumption == Nil \notin Processes \cup Names \cup {"Get"} \cup Metadata

VARIABLES
    boot,       \* process -> "down", "starting", "listening" or "serving"
    done,       \* the requests whose context is done
    call,       \* call -> its two ends, see NoCall
    backoff,    \* the addresses the gateway has just failed to connect to
    faults

vars == <<boot, done, call, backoff, faults>>

-----------------------------------------------------------------------------
(* Wiring                                                                  *)

getEnv(key, fallback) == IF Env[key] = "" THEN fallback ELSE Env[key]

\* The address each main listens on ...
Port(p) == CASE p = "order"     -> getEnv("order.PORT", "9090")
             [] p = "payment"   -> getEnv("payment.PORT", "9091")
             [] p = "inventory" -> getEnv("inventory.PORT", "9092")
             [] p = "gateway"   -> getEnv("HTTP_ADDR", "8080")

\* Mutant: two addresses mixed up.
DialSwapped(s) == CASE s = "order"     -> getEnv("ORDER_SERVICE_ADDR", "9090")
                    [] s = "payment"   -> getEnv("PAYMENT_SERVICE_ADDR", "9092")
                    [] s = "inventory" -> getEnv("INVENTORY_SERVICE_ADDR", "9091")

\* ... and the one the gateway dials for the client of a service.  Host names are
\* left out: docker-compose.yml:20-22 names the container of each service.
Dial(s) == CASE s = "order"     -> getEnv("ORDER_SERVICE_ADDR", "9090")
             [] s = "payment"   -> getEnv("PAYMENT_SERVICE_ADDR", "9091")
             [] s = "inventory" -> getEnv("INVENTORY_SERVICE_ADDR", "9092")

Order_ServiceDesc     == {"Order/CreateOrder", "Order/GetOrder", "Order/UpdateOrderStatus"}
Payment_ServiceDesc   == {"Payment/Charge", "Payment/Refund"}
Inventory_ServiceDesc == {"Inventory/Reserve", "Inventory/Release"}

\* The methods a process registers before it serves.
Registered(p) == CASE p = "order"     -> Order_ServiceDesc
                   [] p = "payment"   -> Payment_ServiceDesc
                   [] p = "inventory" -> Inventory_ServiceDesc
                   [] p = "gateway"   -> {}

\* The client stubs: the method each call invokes.
OrderClient     == [Create |-> "Order/CreateOrder", Get |-> "Order/GetOrder",
                    Confirm |-> "Order/UpdateOrderStatus", Cancel |-> "Order/UpdateOrderStatus"]
PaymentClient   == [Charge |-> "Payment/Charge", Refund |-> "Payment/Refund"]
InventoryClient == [Reserve |-> "Inventory/Reserve", Release |-> "Inventory/Release"]

Service(c) == CASE c[2] \in DOMAIN OrderClient     -> "order"
                [] c[2] \in DOMAIN PaymentClient   -> "payment"
                [] c[2] \in DOMAIN InventoryClient -> "inventory"

Method(c) == CASE Service(c) = "order"     -> OrderClient[c[2]]
               [] Service(c) = "payment"   -> PaymentClient[c[2]]
               [] Service(c) = "inventory" -> InventoryClient[c[2]]

-----------------------------------------------------------------------------
(* Contexts                                                                *)

Empty == [key |-> "", id |-> Nil]

\* AttachTracingMetadata, behind chi's RequestID; the server ends the context
\* when the client leaves or the HTTP handler returns.
AttachTracingMetadata(r) ==
    LET md == [key |-> Key[r], id |-> r]
    IN  [value |-> md, outgoing |-> md, incoming |-> Nil, done |-> r \in done]

\* Mutant: the saga runs under the context of the HTTP request.
SagaCtxAttached(r) == AttachTracingMetadata(r)

\* Mutant: the saga runs under a fresh context.
SagaCtxFresh(r) == [value |-> Nil, outgoing |-> Nil, incoming |-> Nil, done |-> FALSE]

\* context.WithoutCancel
SagaCtx(r) == [AttachTracingMetadata(r) EXCEPT !.done = FALSE]

\* The context of a call: runOrderSaga has one for all it does.
Ctx(c) == IF c[2] \in {"Create", "Get"} THEN AttachTracingMetadata(c[1]) ELSE SagaCtx(c[1])

\* What gRPC makes of a caller's context at the other end.
Incoming(ctx) == [value |-> Nil, outgoing |-> Nil, incoming |-> ctx.outgoing, done |-> ctx.done]

TraceServerInterceptor(ctx) ==
    [ctx EXCEPT !.value = IF ctx.incoming = Nil THEN Empty ELSE ctx.incoming]

\* Mutant: only the metadata of calls to be made is looked at.
GetOutgoingValue(ctx) == ctx.outgoing

GetMetadataValue(ctx) == IF      ctx.value # Nil    THEN ctx.value
                         ELSE IF ctx.incoming # Nil THEN ctx.incoming
                         ELSE IF ctx.outgoing # Nil THEN ctx.outgoing
                         ELSE Empty

-----------------------------------------------------------------------------
(* Processes                                                               *)

NoCall == [client |-> "none",   \* "waiting", then what the stub returns
           server |-> "none",   \* "sent", "running", then "done" or "killed", or "unknown"
           by     |-> Nil,      \* the process it was sent to
           lost   |-> FALSE,    \* has its connection died?
           runs   |-> 0,        \* history: handlers started for it
           seen   |-> Nil]      \* the metadata its handler saw

Init ==
    /\ boot = [p \in Processes |-> "down"]
    /\ done = {}
    /\ call = [c \in Calls |-> NoCall]
    /\ backoff = {}
    /\ faults = 0

Received == {r \in Requests : \E c \in Calls : c[1] = r /\ call[c] # NoCall}

MoreFaults == \E l \in Loads : Received \subseteq l.requests /\ faults < l.faults

Boot(p, from, to) ==
    /\ boot[p] = from
    /\ boot' = [boot EXCEPT ![p] = to]
    /\ UNCHANGED <<done, call, backoff, faults>>

Start(p) == Boot(p, "down", "starting")

At(address) == {p \in Processes : Port(p) = address /\ boot[p] \in {"listening", "serving"}}

\* SetupTracer, the data directory and the saga log, the listener.
Listen(p) == At(Port(p)) = {} /\ Boot(p, "starting", "listening")

\* Handlers are registered, then connections accepted.
Serve(p) == Boot(p, "listening", "serving")

\* One of these fails, or the process is killed.  SIGINT and SIGTERM are caught
\* by NotifyContext and change nothing: no one waits for that context.
Exit(p) ==
    /\ boot[p] # "down" /\ MoreFaults
    /\ boot' = [boot EXCEPT ![p] = "down"]
    /\ faults' = faults + 1
    /\ call' = [c \in Calls |->
          CASE p = "gateway" /\ call[c].client = "waiting" -> [call[c] EXCEPT !.client = "gone"]
            [] call[c].by = p ->
                 [call[c] EXCEPT !.lost = TRUE,
                                 !.server = IF @ \in {"sent", "running"} THEN "killed" ELSE @]
            [] OTHER -> call[c]]
    /\ done' = IF p = "gateway" THEN Received ELSE done
    /\ backoff' = IF p = "gateway" THEN {} ELSE backoff

\* The connection to a service breaks while both its ends live.
Disconnect(s) ==
    /\ MoreFaults
    /\ \E c \in Calls : call[c].client = "waiting" /\ call[c].by = s /\ ~call[c].lost
    /\ faults' = faults + 1
    /\ call' = [c \in Calls |-> [call[c] EXCEPT !.lost = @ \/ call[c].by = s]]
    /\ UNCHANGED <<boot, done, backoff>>

-----------------------------------------------------------------------------
(* Calls                                                                   *)

\* A request comes in and its handler makes its first call.
Receive(r) ==
    LET first == <<r, IF r \in Posts THEN "Create" ELSE "Get">> IN
    /\ boot["gateway"] = "serving" /\ call[first] = NoCall
    /\ \E l \in Loads : Received \cup {r} \subseteq l.requests /\ faults <= l.faults
    /\ call' = [call EXCEPT ![first].client = "waiting"]
    /\ UNCHANGED <<boot, done, backoff, faults>>

ClientLeaves(r) ==
    /\ \E n \in {"Create", "Get"} : <<r, n>> \in Calls /\ call[<<r, n>>].client = "waiting"
    /\ done' = done \cup {r}
    /\ UNCHANGED <<boot, call, backoff, faults>>

\* What a goroutine does after a call: the HTTP handler hands over to the saga,
\* the saga goes on or compensates, and at last the order is cancelled.
AfterSuccess(n) == CASE n = "Create" -> "Reserve" [] n = "Reserve" -> "Charge"
                     [] n = "Charge" -> "Confirm" [] n = "Refund"  -> "Release"
                     [] n = "Release" -> "Cancel" [] OTHER -> Nil

AfterFailure(n) == CASE n = "Reserve" -> "Cancel"  [] n = "Charge"  -> "Release"
                     [] n = "Confirm" -> "Refund"  [] n = "Refund"  -> "Release"
                     [] n = "Release" -> "Cancel"  [] OTHER -> Nil

\* The stub of call c returns and the next call is made.  With the call of the
\* HTTP handler its request is over.
Returns(c, outcome) ==
    LET next == IF outcome = "ok" THEN AfterSuccess(c[2]) ELSE AfterFailure(c[2]) IN
    /\ call[c].client = "waiting"
    /\ call' = [d \in Calls |->
          CASE d = c              -> [call[d] EXCEPT !.client = outcome]
            [] d = <<c[1], next>> -> [call[d] EXCEPT !.client = "waiting"]
            [] OTHER              -> call[d]]
    /\ done' = IF c[2] \in {"Create", "Get"} THEN done \cup {c[1]} ELSE done
    /\ UNCHANGED <<boot, faults>>

\* Mutant: calls wait for a service that is down to come up.
UnreachableNever(c) == FALSE

\* NewClient does not connect; a call does, and fails at once if it cannot.
Unreachable(c) == At(Dial(Service(c))) = {} \/ Dial(Service(c)) \in backoff

ConnectFails(c) ==
    /\ call[c].server = "none" /\ Unreachable(c)
    /\ Returns(c, "error")
    /\ backoff' = backoff \cup {Dial(Service(c))}

Reconnect(a) ==
    /\ a \in backoff /\ \E p \in At(a) : boot[p] = "serving"
    /\ backoff' = backoff \ {a}
    /\ UNCHANGED <<boot, done, call, faults>>

Send(c) ==
    /\ call[c].client = "waiting" /\ call[c].server = "none"
    /\ Dial(Service(c)) \notin backoff
    /\ \E p \in At(Dial(Service(c))) :
          /\ boot[p] = "serving"
          /\ call' = [call EXCEPT ![c].server = "sent", ![c].by = p]
    /\ UNCHANGED <<boot, done, backoff, faults>>

\* The server looks the method up and runs its handler behind the interceptor,
\* also for a client that has given up.
Handle(c) ==
    /\ call[c].server = "sent"
    /\ IF Method(c) \in Registered(call[c].by)
       THEN call' = [call EXCEPT ![c].server = "running", ![c].runs = @ + 1,
                ![c].seen = GetMetadataValue(TraceServerInterceptor(Incoming(Ctx(c))))]
       ELSE call' = [call EXCEPT ![c].server = "unknown"]
    /\ UNCHANGED <<boot, done, backoff, faults>>

HandlerReturns(c) ==
    /\ call[c].server = "running"
    /\ call' = [call EXCEPT ![c].server = "done"]
    /\ UNCHANGED <<boot, done, backoff, faults>>

\* A success, or a refusal: success = false, or a status.
Answers(c) == CASE call[c].server = "done"    -> {"ok", "refused"}
                [] call[c].server = "unknown" -> {"unimplemented"}
                [] OTHER                      -> {}

Answered(c) ==
    /\ \E answer \in Answers(c) : Returns(c, answer)
    /\ UNCHANGED backoff

\* Mutant: the stub makes the call again when its connection has died.
ConnectionLostRetried(c) ==
    /\ call[c].lost /\ call[c].client = "waiting"
    /\ call' = [call EXCEPT ![c] = [NoCall EXCEPT !.client = "waiting", !.runs = call[c].runs]]
    /\ UNCHANGED <<boot, done, backoff, faults>>

\* The stub learns that the connection has died.
ConnectionLost(c) ==
    /\ call[c].lost
    /\ Returns(c, "error")
    /\ UNCHANGED backoff

\* The stub gives up because its context is done.
Cancelled(c) ==
    /\ Ctx(c).done
    /\ Returns(c, "cancelled")
    /\ UNCHANGED backoff

-----------------------------------------------------------------------------

Progress ==
    \/ \E p \in Processes : Serve(p)
    \/ \E c \in Calls :
          \/ Send(c) \/ Handle(c) \/ HandlerReturns(c) \/ Answered(c)
          \/ ConnectFails(c) \/ ConnectionLost(c) \/ Cancelled(c)

Next ==
    \/ Progress
    \/ \E p \in Processes : Start(p) \/ Listen(p) \/ Exit(p)
    \/ \E s \in Services : Disconnect(s) \/ Reconnect(Dial(s))
    \/ \E r \in Requests : Receive(r) \/ ClientLeaves(r)

Spec == Init /\ [][Next]_vars

\* Goroutines are scheduled, handlers return, and a stub learns of the end of its
\* connection.  Nobody has to start a process or to end one.
Fairness == WF_vars(Progress)

FairSpec == Spec /\ Fairness

-----------------------------------------------------------------------------

CallState ==
    [client : {"none", "waiting", "ok", "refused", "error", "cancelled", "unimplemented", "gone"},
     server : {"none", "sent", "running", "done", "killed", "unknown"},
     by     : Services \cup {Nil},
     lost   : BOOLEAN,
     runs   : Nat,
     seen   : Metadata \cup {Nil}]

TypeOK ==
    /\ boot \in [Processes -> {"down", "starting", "listening", "serving"}]
    /\ done \subseteq Requests
    /\ backoff \subseteq {Dial(s) : s \in Services}
    /\ faults \in Nat /\ \E l \in Loads : faults <= l.faults
    /\ call \in [Calls -> CallState]
    /\ \A c \in Calls : call[c].runs > 0 <=> call[c].seen # Nil

\* Whatever process is started, killed or started again in whatever order, a
\* call never gets to a process that does not know its method, nor to a handler
\* of another service (the addresses of the mains, api-gateway main.go:64-71,
\* and the tables of the generated code belong together).
CallsReachTheirService ==
    \A c \in Calls :
        /\ call[c].server # "unknown"
        /\ call[c].by \in {Nil, Service(c)}

\* A handler sees the idempotency key and the request id of the HTTP request it
\* works for, also in the saga, which goes on when that request is over
\* (handler.go:85, "while still propagating tracing metadata").
HandlerSeesItsRequest ==
    \A c \in Calls : call[c].seen \in {Nil, [key |-> Key[c[1]], id |-> c[1]]}

\* The services work on one call of a POST at a time: a compensation, or the
\* cancellation of the order, never overtakes the call it is a reaction to, even
\* if the client leaves or a process dies (handler.go:85, "so the saga is not
\* cancelled when the HTTP response is sent").  Only after the loss of a
\* connection may the handler at its other end still be at work.
OneCallAtATime ==
    \A r \in Posts :
        Cardinality({c \in Calls : /\ c[1] = r /\ ~call[c].lost
                                   /\ call[c].server \in {"sent", "running"}}) <= 1

\* Each call as its caller and its handler see it.
Outcome(c) == CASE call[c].client = "none"    -> "unsent"
                [] call[c].client = "waiting" -> "waiting"
                [] call[c].client \in {"ok", "refused"} -> "answered"
                [] OTHER -> "error"

UC(c) == INSTANCE UnaryCall WITH outcome <- Outcome(c), ran <- call[c].runs

\* Every call is one of UnaryCall: this is all the saga, which never repeats a
\* call and compensates only what was answered with success (saga.go:54), may
\* take for granted, whatever is killed, started again or cut off.
ImplementsUnaryCall ==
    /\ \A c \in Calls : UC(c)!Init
    /\ [][\A c \in Calls : UC(c)!Next \/ UNCHANGED <<Outcome(c), call[c].runs>>]_vars

\* Every goroutine of the gateway gets to its end: no call waits for ever, also
\* not for a service that is down and stays down, although calls have no
\* deadline and the saga's context is never done (handler.go:87).
EveryCallReturns == <>[](\A c \in Calls : call[c].client # "waiting")

=============================================================================
