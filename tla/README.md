# A TLA+ model of the e-commerce saga

The repository is a small distributed order system: an API gateway that runs a
saga per order over three gRPC services, each with its state in memory and with
Redis as an idempotency cache, and a saga log in SQLite. This directory holds TLA+
modules for its parts and for the whole, TLC configurations for small instances,
and TLAPS proofs about the engine, the services, the log and the calls between
processes for instances of any size.

## The system

| Part | State | Operations | Called by |
|---|---|---|---|
| API gateway (`internal/api-gateway`) | one goroutine per POST and one per saga | `CreateOrder` (validate, create the order, answer 201, spawn the saga), `GetOrderByID`, `runOrderSaga` (run the saga; on error cancel the order) | HTTP clients, who may repeat a POST under an `X-Idempotency-Key` |
| Saga engine (`internal/coordinator/saga.go`) | locals of `Start` and `rollback`: `completed`, `errors`, `errs`, indices | `Start`, `rollback`, `saveLog` | the saga goroutine |
| Steps (`steps.go`) | order id, items, amount | `Execute` and `Compensate` of Inventory, Payment, Confirm | the engine |
| Saga log (`internal/coordinator/sagalog`) | table `saga_logs`, append-only | `NewEntry`, `Save`, `GetLatest` | `saveLog`; nobody calls `GetLatest` |
| Inventory (`internal/inventory-service`) | `stock`, `reservations` behind one mutex | `Reserve` (idempotent by key), `Release` (idempotent by order) | saga steps |
| Payment (`internal/payment-service`) | `payments` behind one mutex | `Charge`, `Refund` (idempotent by order) | saga steps |
| Order (`internal/order-service`) | `orders` behind one RW mutex | `CreateOrder` (idempotent by key), `GetOrder`, `UpdateOrderStatus` (no guard) | gateway and Confirm step |
| Redis cache (`internal/pkg/cache`) | keys `service:operation:key` with a TTL | `Get`, `Set` | the three services, before they take their mutex |
| Processes and gRPC (`cmd/*`, `genproto/*_grpc.pb.go`, `pkg/interceptors`, middleware) | which process serves, open calls, contexts with key and request id | `main` (start, listen, serve, exit), client stubs, method tables, `TraceServerInterceptor`, `GetMetadataValue` | everything above |

What is hard about it:

* **Look before lock.** Every idempotent handler asks Redis before it takes the
  mutex, and looks again in memory under it. Redis may miss, forget or fail.
* **Several sagas on one order.** A repeated POST is answered with the stored order
  and starts a second saga on it, at any time in the life of the first.
* **Ambiguous calls.** A call that fails on the gateway's side may not have
  arrived, may still be running or may be done. The step that failed is not
  compensated.
* **Crashes.** The gateway may die between any two steps of a saga, and between a
  step and the row that reports it. Nothing recovers the saga.
* **Restarts of a service.** Its maps are gone, Redis still has the idempotency
  keys: a repetition may be answered with success for something that is forgotten.
* **Contexts.** The saga starts in the context of an HTTP request that is over as
  soon as it is answered; it must keep the metadata and lose the cancellation.
* **Start-up in any order.** The gateway serves before its services do; a call to a
  service that is down fails at once, one to a service that dies fails then.
* **Swallowed errors.** Failing inserts, failing compensations and a failing
  cancellation are logged and otherwise ignored.
* **Text timestamps** whose order is asked of SQLite.
* **Three integer types.** A quantity is an `int` in the gateway, an `int32` in
  messages and in the stock, and nothing checks that it fits.

## The modules

| Module | Models | Composes |
|---|---|---|
| `SagaContract` | what a saga promises: all steps or none, one turn | |
| `Orchestrator` | `saga.go` | refines `SagaContract` |
| `RedisCache` | `pkg/cache` (operators) | |
| `GoInt` | Go's `int32` (operators) | |
| `GrpcServer` | what a restart does to calls (operators) | |
| `InventoryService`, `PaymentService`, `OrderService` | the gRPC servers and their mappers, and restarts | `RedisCache`, `GrpcServer`; the first also `GoInt` |
| `SagaLog` | `sagalog` and `sagalog/sqlite` | |
| `ApiGateway` | handler, middleware, gRPC adapter, steps, network | `Orchestrator`, the three services, `GoInt` |
| `UnaryCall` | what one gRPC call promises: at most once, an answer means done | |
| `Deployment` | the four `main`s, addresses, stubs, method tables, contexts, interceptor | refines `UnaryCall` |
| `OrchestratorProofs`, `PaymentProofs`, `InventoryProofs`, `OrderProofs`, `SagaLogProofs`, `DeploymentProofs` | theorems | the module of that name |
| `GatewayProofs` | theorems about `ApiGateway` | the proof modules of the engine and the three services |
| `SumTheorems` | what the sums of the community modules compute | used by `InventoryProofs`, `SagaLogProofs`, `GatewayProofs` |
| `MC*` | instances for TLC | |

**Orchestrator.** `pc[r]` is where goroutine `r` stands in `Start` or `rollback`;
`cur`, `completed`, `errors` are the locals of `Start`, `back` and `rbErrors`
(`i`, `errs`) those of `rollback`. A remote call is two steps, the call and its
return; each `saveLog` is a step that inserts a row or fails. The history variables
`executed`, `undone`, `missed` record which `Execute` returned nil, which
`Compensate` was called and how many inserts failed. `Crash` stops every run in
flight and keeps the log.

**The services.** `call[c]` (in `OrderService` `create[id]`, `update[u]`) is a
handler's goroutine: `get` before the lookup in Redis, `lock` before the critical
section, `done` with its answer, `lost` if the request never arrived. The critical
section, with the write to Redis at its end, is one step: nobody else can see the
maps meanwhile, and a lookup in between is a miss, as just before. Redis entries
never leave the model's cache; instead every `Get` may miss, which covers expiry,
eviction and errors. A `Set` that fails is covered in the same way if its key is new:
its entry is one that is never found. If the key has an older value (a `create` key can,
after a restart of the order service), a `Set` that fails leaves that value in place,
so `Set` has both outcomes then. Stock is counted in int32, and quantities and amounts
may be negative: the handlers do not look at their sign.
`Restart` empties the maps and keeps the cache; calls
that were under way are `lost`, answers given before it are `old`.

**ApiGateway.** Every `r` in `Runs` is a POST and also the id its `CreateOrder`
would mint. `http[r]` and `told[r]` are the HTTP exchange and the order the gateway
was told; the rest is the state of the parts. An action of the gateway joins a step
of the engine with the call or answer of a service. `broken` collects the calls
that failed on the gateway's side, `gone` the POSTs under way at a crash,
`restarts` counts the restarts of each service, of which there may be any number
(`restarted` is the set of those with one). A call may fail for no visible reason
at any time, and does when its service is restarted under it. `GetOrderByID` is
what a GET would answer in a state. The conversion `int32(...)` is `Int32` of `GoInt`,
with half its range as the constant `Half`.

**Deployment.** `boot[p]` is how far `main` has got in process `p`. `call[c]` has
both ends of a call: what the stub knows (`client`) and where the request is
(`server`, `by`), whether their connection has died (`lost`), and the metadata the
handler saw. A context is a record of its values, its outgoing and incoming
metadata and whether it is done; `SagaCtx` is `context.WithoutCancel`.
`AfterSuccess` and `AfterFailure` say which call the gateway makes after which: the
engine with its three steps and the cancellation, which `Orchestrator` and
`ApiGateway` have in full. What handlers do is left to the services' modules.
`SetupTracer`, the saga log and the listener may fail, and a process may be killed,
at any point (`Exit`). SIGINT and SIGTERM do nothing: `main` catches them and nobody
waits for the context they end, so the deferred flush of the tracer never runs
either.

**SagaLog.** Instants have two fraction digits of base `Base` in place of nine
decimal ones; `Format` drops trailing zeros as Go's `.999999999` does, `Before` is
SQLite's byte order. The clock is a wall clock and may be set back (`Tick`), so that an
entry may be stamped before rows that are there already.

In all modules, definitions marked *Mutant* are wrong variants of the definition
that follows them. No specification uses them; substituted for the right one, each
must make TLC find a particular property violated.

## The runs

| Run | Instance | What it shows |
|---|---|---|
| `orchestrator` | 2 runs, 3 steps, any inserts fail, crashes | rollback is LIFO and complete; rows are in order and true; the log is at most one step behind; every saga ends or its process died; `SagaContract` is implemented |
| `inventory` | 5 orders (two share a key, one has none, one asks for an unknown product), 4 calls, 2 products, restarts | stock is conserved and never oversold; one reservation per key; a success is backed by a reservation of its own order until a release is asked for or a restart, as long as no other order comes with its key |
| `payment` | 2 orders (at and above the limit), 4 calls, restarts | money is taken once between refunds and restarts; a success is on record |
| `order` | 3 `CreateOrder`, 2 updates, 3 bodies over one key and none, restarts | one order per key; what a caller was told exists; no sharing without a key |
| `saga_log` | 3 writers on 2 sagas, 6 instants in 2 seconds between which the clock jumps, 3 rows | texts sort like times across seconds; no time is changed by writing and reading |
| `gateway` | two POSTs after one unit, one above the limit; a POST and its repetition with another price; a POST with two faults; an invalid one; one with a quantity beyond int32, alone with a fault and beside another; crashes of the gateway at any time | a completed saga stays fulfilled; a failed one leaves only what a failed call of that step left; order, reservation and payment are what the POST asked for, and one and the same order if its quantity did not fit; one order, reservation and payment per key; an accepted order can be seen; a final status stays; no order stays PENDING but for named reasons; the parts are used as their own modules assume |
| `deployment` | one POST with two deaths of processes or connections, a GET with one, both together with none; processes start in any order | calls get to the right handler; handlers see the key and id of their request; the services work on one call of a POST at a time; a call is a `UnaryCall`; every call returns |

Five runs end in a violation. Each states a sentence of the repository's docs that
the code does not keep:

| Run | Sentence | What happens |
|---|---|---|
| `orchestrator_errors` | `sagalog/domain.go:43`, error messages accumulate, one per failed step | `rollback` appends to its own copy of the slice; the FAILED row lacks compensation errors |
| `inventory_lines` | `inventory.proto:12`, unavailable items are refused | lines of one product are compared with the stock one by one; two lines oversell it |
| `payment_restart` | `payment.proto:12`, a charge is idempotent | after a restart only Redis knows of the charge; if it does not answer, the money is taken again |
| `gateway_retry_confirmed` | `order.proto:21`, CONFIRMED is paid and reserved | the failing saga of a repeated POST gives back what the other saga's confirmed order needs |
| `gateway_order_restart` | `inventory.proto:13`, `Reserve` is idempotent by order id (and `order.proto:21`) | it is so by idempotency key: after a restart of the order service, and a miss in Redis, a repeated POST makes a second order under the first one's key; `Reserve` says success because the first order holds its items, and the second is charged and confirmed with nothing reserved |

`EverySagaEnds`, `EveryOrderSettles` and `EveryCallReturns` need fairness, all
others do not.

`GetLatest` keeps what `repository.go:125` says of it ("the most recent log entry") only
up to a second, which is why `LatestWithinASecond` says no more: `...05.1Z` sorts after
`...05.11Z` and `...05Z` after both, so an older row of the same second may be returned.

### What restarts leave of the promises

A service that is restarted has forgotten its part, so the properties say what
survives. `SuccessIsHeld`, `SuccessIsPaid` and `SameKeySameOrder` speak of answers
since the last restart. `CompletedIsKept` asks for the parts of an order that are
kept by services that were not restarted. `ExactlyOncePerKey` survives a restart of
the inventory service only: the order service forgets which key it has seen, and the
payment service what it has charged, as soon as Redis misses; what this does to the
second order of a key is shown by `gateway_order_restart`. `EffectsMatchOrder`
and `EveryOrderSettles` hold with any restarts.

### Bounds, and why they are enough

* Three steps are what the gateway uses; a failing saga has then completed up to
  two, the fewest with which LIFO and FIFO can be told apart. The proofs below do
  not depend on the number of steps.
  `MaxMissed = 6` exceeds the rows of any run of one saga, so every subset of
  inserts may fail.
* Four calls on one service allow two races on one key and a release or refund
  before and after the repetition. Keys, orders and products are as few as make
  all the branches happen: a duplicate by key from another order, the last unit,
  an order of two products of which one is short.
* In `ApiGateway`, `Batches` names the sets of POSTs that are sent together and how
  many faults (restarts, and calls that fail without one) each may meet. Two sagas
  race for a unit, or on one order, with one fault; a saga on its own meets two, so
  that it fails and a compensation or its cancellation fails too. A larger set
  would multiply the states and not add a kind of interference: a POST meets
  another through the stock or through its key. Inserts do not fail there
  (`MaxMissed = 0`): no property of the run reads the log, and `orchestrator` covers
  them.
* `Half = 2` makes an int32 reach from -2 to 1 in `gateway`, where 1 is the largest
  quantity that fits: a narrower conversion anywhere on its way shows. The quantity 2
  arrives as -2; it passes the availability check, makes the total negative and the
  stock overflow. In `inventory` `Half = 8` and no quantity is negative: the sums that
  `StockConserved` speaks of cannot wrap by accident.
  `ProductIds` has one product: what two lines do to each other is in `inventory`.
* `Loads` does the same in `Deployment`. Two deaths let a service die under a call
  and another one, or the same again, under the compensation.
* Symmetry is used where only invariants are checked and the identities are
  interchangeable: calls in `inventory` and `payment`, ids in `order`, two writers of one saga in `saga_log`.
* `MaxTime = 5` gives `saga_log` a whole second of base 2 (texts of all three lengths) and
  the first two instants of the next.
* Deadlock is not checked: each instance makes a finite number of calls and
  the system may come to rest after them.

### Fairness

`WF(Advance(r))` in `Orchestrator`: a goroutine that can move is scheduled by Go's
runtime, and its calls and inserts return. `ApiGateway` and `Deployment`
have one weak fairness each, of
`Progress`: the goroutines of gateway and services move, a handler that was reached
returns, and the gateway learns that a service has died. There is only so much to
do for a POST, so that it is enough that something is done as long as something can
be. Failures, losses, crashes, restarts, new requests and starting a process have no
fairness. That a handler returns is an assumption on the services: they wait
only for a mutex and for Redis. The code sets no deadline, so one that never returned
would hold its saga for ever.

## The proofs

Every safety property that the passing runs check, of a single component and of the
composed system, is also proved, for any number of goroutines, POSTs, orders, keys,
products, rows, restarts and faults. Each module of proofs about a component has the
same shape: an inductive invariant `IInv` (except for the log no property is inductive
by itself), a lemma `InitInv`, one lemma per action, `NextInv` that joins them,
`Spec => []IInv`, and the properties as consequences of `IInv` state by state.

| Module | Theorem | Property |
|---|---|---|
| `OrchestratorProofs` | `TypeCorrect`, `Lifo`, `AllOrNothing`, `LogLag` | `TypeOK`, `CompensationIsLifo`, `NothingLeftHalfway`, `LogLagsByOneStep` |
| | `LogOrder`, `LogTruth` | `RowsInOrder`, `RowsAreTrue` |
| | `Refinement` | `ImplementsContract` |
| `PaymentProofs` | `TypeCorrect`, `Accounted`, `Paid` | `TypeOK`, `MoneyIsAccounted`, `SuccessIsPaid` |
| `InventoryProofs` | `TypeCorrect`, `Conserved`, `OncePerKey`, `SuccessHolds` | `TypeOK`, `StockConserved`, `OneReservationPerKey`, `SuccessIsHeld` |
| | `NeverOversold` | `StockNeverNegative`, if no request has a product on two lines and all quantities are positive |
| `OrderProofs` | `TypeCorrect`, `Idempotent`, `AnsweredExists`, `NoSharing` | `TypeOK`, `SameKeySameOrder`, `AnsweredOrderExists`, `NoKeyNoSharing` |
| `SagaLogProofs` | `TypeCorrect`, `Survives`, `WithinASecond` | `TypeOK`, `TimesSurvive`, `LatestWithinASecond` |
| `DeploymentProofs` | `TypeCorrect`, `ReachesService`, `SeesRequest`, `OneAtATime` | `TypeOK`, `CallsReachTheirService`, `HandlerSeesItsRequest`, `OneCallAtATime` |
| | `Refinement` | `ImplementsUnaryCall` |
| `GatewayProofs` | `Components` | `ComponentsAsSpecified` |
| | `TypeCorrect`, `Match`, `Visible` | `TypeOK`, `EffectsMatchOrder`, `AcceptedIsVisible` |
| | `Once` | `ExactlyOncePerKey` |
| | `Kept`, `Nothing` | `CompletedIsKept`, `FailedLeavesNothing` |
| | `StatusStays` | `FinalStatusStays` |

### The engine

That `undone` is the reverse of the end of `executed` depends on `completed`, from
which `rollback` takes its steps, being equal to `executed`. `IInv` says for each run

* `CompletedIsPrefix`: `completed` is `1, ..., cur - 1`;
* `ExecutedIsPrefix`: so is `executed`, or one step longer between the return of
  `Execute` and the append to `completed`;
* `UndoneIsSuffix`: `undone` counts down from `cur - 1`, and `back` says how far it
  has come;
* `CurAtPc`: where the loop index may stand at each point of control;
* `LogKeepsUp`: there is a row or a failed insert for STARTED and for each
  completed step.

Each action is looked at for the types, the run that moves and the runs that do not
(`SameRunInv`). For the refinement, `HeldAtPc` reads the number of steps in effect off
the program counter, and `StepSimulation` maps every action to one of the contract or
to a stutter.

The rows have an invariant of their own, on top of `IInv`. `Level(r)` is the rank of
the last row that run `r` may have written where it stands; it only grows. `LogInv`
says that the rows are in order, none above the level, and each true. A step either
writes no row (`NoRow`: what the rows say stays true) or one whose rank is above the
old level and not above the new one (`OneRow`): so it comes after all the others, and
no row is written twice even if inserts between them failed.

### The services

An answer comes from Redis, from the map or from the critical section, and the three
must agree although Redis is asked without the lock. The invariants tie them together:

* Payment: what is on record was asked for and is within the limit
  (`PaymentWasAsked`); unless a refund was sent or a restart forgot the payment, a key
  in Redis and a successful answer both mean that there is a record (`KeyIsPaid`,
  `AnswerIsPaid`).
* Inventory: a reservation is filed under its order and was asked for; a key in Redis
  was put there for a call that was answered; an order without a key is reserved by
  one call only, and holds nothing before that call has had the lock (`ReservedOnce`);
  unless a release was sent or a restart came, a key or an answer means that items are
  held (`KeyIsHeld`, `AnswerIsHeld`): those of a request with the same key, which is the
  one that was answered if no other order came with it (`SuccessHolds`). That stock is conserved is one lemma (`Exchange`)
  about exchanging one order's reservation, used for `Reserve` and `Release` alike. It
  holds in int32 because a conversion on the way changes no sum (`Int32Add`). That the
  stock does not fall below zero needs the exact sum: as long as all quantities are
  positive, stock and reservations add up without a conversion (`Exact`).
* Order: wherever an order is seen (map, Redis, answers) it was made by the call that
  minted its id out of that call's request, and is in the map unless a restart came
  since (`Made`); no two orders in the map share a key (`UniqueKey`).

For payment and inventory, an order that is undisturbed after a step was so before it
(`UndisturbedBefore`), so that these facts carry over from state to state; for orders it
is `MadeStays`.

`Qty` and `StockConserved` are sums over finite sets of any size. Induction theorems
with an operator as parameter cannot be used with these provers; `SumTheorems` gets
its inductions from `WFMin` (a non-empty set of subsets of a finite set has a minimal
element), first for the function behind the recursion and then for what a change of
one summand does to a sum.

### The log

`Digits` writes an instant as its second and two digits, `Shapes` gives the three
forms of the text, and `RoundTrip` reads each back. `Weight` turns a text into a number
of base 128 that orders texts like SQLite does (`WeightOrders`), so that among the rows
of a saga there is a heaviest one and `GetLatest` finds it (`LatestExists`).
`BeforeSecond` says that an earlier text is never of a later second. These lemmas are
all: the properties hold of any table of such texts, whenever and in whatever order its
rows were stamped, so `TypeOK` is the only invariant needed.

### Processes and calls

`IInv` says what each call's two ends can be together (`Good`), that while a call is open
none further on in the life of its request has been made (`Later`), and that no call is
made before the request's first (`FirstMade`). `Place` numbers the calls of a POST; `AfterIsLater` says that what
follows a call has a larger number, from which one call at a time follows. The
refinement maps each action to a step of the `UnaryCall` of the call it is about and
to stutters of all the others.

### The composed system

`GatewayProofs` instantiates the proof modules of the engine and the services under
the substitutions of `ApiGateway` and proves nothing of them again. `SagaAssumed`,
`InvAssumed`, `PayAssumed` and `OrdAssumed` show that the requests the gateway makes
meet the parts' assumptions: that all reservations and all charges of an order are
equal, for instance, because every saga takes them from the order it was told of, and
that the second conversion to int32 changes nothing after the first (`CreateItems`,
`SecondConversion`). Then each part's
`NextInv` says that its invariant survives any step that is one of its own
(`SagaKept`, `InvKept`, `PayKept`, `OrdKept`), and it remains to show that a step of
the system is one: the gateway must not reserve an order without a key twice
(`NoKeyOwn`), nor make one call twice. For that it has to be known where the runs are:

* `PartsInv`: the invariants of the parts.
* `WebInv`: what `CreateOrder` was asked, what the handler was told, and that a saga
  runs only after a 201.
* `CallInv`: every call of a saga is about the order its handler was told of, and has
  the content that this order prescribes. `ToldFacts` traces the order back to the POST
  that made it, through Redis, the scan or the insert.
* `StepInv`: the calls of a run are those that its place in `Start` or `rollback`
  accounts for (`StepAt`, `UndoAt`). A step behind it was answered with success, the
  step it failed at with a refusal or not at all, a step before it was not called. A
  compensation that was made was answered or has failed on the gateway's side.
* `OldInv`, `LateInv`: only a restart makes answers old; an update that finds no order
  is about one that a restart has lost.
* `GivenBack`: what was released or refunded stays so while nobody repeats the POST.

`GInv` is their conjunction, with the types. A call that has failed for the gateway may
still be carried out; that is why `StepAt` and `UndoAt` speak of answers and not of
what the services hold, and why the properties except `Broken` calls.

The services say more than their own properties need, for the sake of this proof:
`CallerInv` in `InventoryProofs` and `PaymentProofs` (a reservation or payment was made
by a call that was answered with success; a release or refund known to Redis was
answered), `StaysReleased` and `StaysRefunded`, `StatusInv` in `OrderProofs` (a status
other than PENDING was given by an update that was carried out).

`Kept` and `Nothing` then read off the place of a saga which of its calls were answered,
and from the answers what the services hold. They and `StatusStays` are about a POST
that is not repeated (`Alone`); `gateway_retry_confirmed` shows what a repetition does.
`Once` needs no such condition: no two orders in the map share a key
(`OrdP!UniqueKey`), reservations do not either (`InvP!OneReservationPerKey`), and who
is charged for has an order (`PaidIsStored`), so that only one of two POSTs with one
key can have each of these.

### Assumptions

* `NAssumption`, `SagaLogAssumption`, `ChargesAssumption`, `RequestsAssumption`,
  `OrderRequestsAssumption`, `LoadsAssumption`: types of the constants.
  `ChargesAssumption` also says that all charges of an order are equal, and
  `RequestsAssumption` that all reservations of an order are, with int32 quantities and
  finitely many lines, and that there are finitely many orders. The gateway takes items,
  key and amount of every call from one order, which does not change after it was
  created.
* `HalfAssumption`: an int32 has at least one bit.
* `BodyAssumption`, `ServiceAssumption`, `NilAssumption` in `ApiGateway`: types of what
  POSTs carry and of the services' constants, and finitely many POSTs. Prices and
  quantities are any integers; the validation rejects those that are not positive.
  From these follow the four assumptions on requests above for the gateway's
  requests; they are proved in `GatewayProofs`, not assumed again.
* `UnusedAssumption` in four modules and its like in `SagaLog`: `Nil`, which stands for
  Go's nil or for "no entry in the map", is none of the values it is distinguished from.
* `OneLinePerProduct` and `AllPositive` for `NeverOversold` only. The first cannot be
  dropped: `inventory_lines` is the counterexample. Nor can the second: a quantity that
  arrives negative adds to the stock until it overflows.
* `EnvFits` in `DeploymentProofs`: every client dials the port its service listens on,
  and no two processes share one. `DefaultsFit` proves it for the fallbacks that the
  four `main`s have when no variable is set.

### Only model-checked

* `EverySagaEnds`, `EveryOrderSettles`, `EveryCallReturns`: fairness is beyond the
  provers used.
* The properties of the five runs that end in a violation: they are false.

## Not modelled

* Telemetry, logging, trace and span ids, HTTP and JSON encoding, the accessors of
  the generated messages, the unused fake order service and `CreateOrderStep`.
* The gRPC library, Redis, SQLite and `net/http`: what the code can see of them is in
  the actions marked external in `PROJECT.json`.
* Recovery: `sagalog/domain.go:9` speaks of an orchestrator that reads the log on
  restart. There is no such code. `Crash` leaves a saga where it was, and
  `EverySagaEnds` and `EveryOrderSettles` exclude the runs of a dead process.
* `float64` amounts: totals are integers here. Sums of prices that are not
  exact in binary, at the limit, are not covered.
* The `payload` column: the engine always passes an empty one.
* Deadlines: there are none in the code.

## Plan

Done: the engine with its contract, the three services and their restarts, the log, the
composed system, processes and calls, and proofs of every safety property of the
components and of the composed system. What could follow:

1. Orders of two lines in the run of the composed system; the proofs cover them.
2. An abstract specification of an idempotent operation, implemented by
   `Reserve`/`Release`, `Charge`/`Refund` and `CreateOrder`.
3. A run for the release that a Redis key suppresses after a second reservation
   (`inventory.proto:8`; the hazard at `client.go:112`), and one for the status of the
   order a repeated POST is answered with.
4. Contexts, connections and processes of `Deployment` under the sagas of `ApiGateway`.
