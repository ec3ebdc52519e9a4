-------------------------- MODULE DeploymentProofs --------------------------
(***************************************************************************)
(* Proofs about Deployment for any requests, any number of faults and any  *)
(* environment whose addresses belong together.                            *)
(***************************************************************************)
EXTENDS Deployment, FiniteSetTheorems, TLAPS

-----------------------------------------------------------------------------
(* The environment                                                           *)

\* Each client dials the port of its service, and no two processes share one.
EnvFits ==
    /\ getEnv("ORDER_SERVICE_ADDR", "9090") = getEnv("order.PORT", "9090")
    /\ getEnv("PAYMENT_SERVICE_ADDR", "9091") = getEnv("payment.PORT", "9091")
    /\ getEnv("INVENTORY_SERVICE_ADDR", "9092") = getEnv("inventory.PORT", "9092")
    /\ \A p, q \in Processes : Port(p) = Port(q) => p = q

\* The fallbacks of the four mains belong together: nothing has to be set.
LEMMA DefaultsFit ==
    ASSUME \A x \in {"order.PORT", "payment.PORT", "inventory.PORT", "HTTP_ADDR",
                     "ORDER_SERVICE_ADDR", "PAYMENT_SERVICE_ADDR", "INVENTORY_SERVICE_ADDR"} :
               Env[x] = ""
    PROVE  EnvFits
<1>1. /\ getEnv("order.PORT", "9090") = "9090" /\ getEnv("payment.PORT", "9091") = "9091"
      /\ getEnv("inventory.PORT", "9092") = "9092" /\ getEnv("HTTP_ADDR", "8080") = "8080"
      /\ getEnv("ORDER_SERVICE_ADDR", "9090") = "9090"
      /\ getEnv("PAYMENT_SERVICE_ADDR", "9091") = "9091"
      /\ getEnv("INVENTORY_SERVICE_ADDR", "9092") = "9092"
  BY DEF getEnv
<1>2. /\ Port("order") = "9090" /\ Port("payment") = "9091"
      /\ Port("inventory") = "9092" /\ Port("gateway") = "8080"
  BY <1>1 DEF Port
<1> QED
  BY <1>1, <1>2 DEF EnvFits, Processes, Services

\* Whoever listens where a client dials is the service it is the client of.
LEMMA DialsItsService ==
    ASSUME EnvFits, NEW s \in Services, NEW p \in At(Dial(s))
    PROVE  p = s
<1>1. Dial(s) = Port(s)
  BY DEF EnvFits, Dial, Port, Services
<1>2. p \in Processes /\ Port(p) = Dial(s)
  BY DEF At
<1>3. s \in Processes
  BY DEF Processes
<1> QED
  BY <1>1, <1>2, <1>3 DEF EnvFits

-----------------------------------------------------------------------------
(* Calls and what follows them                                               *)

\* A call is a pair of its request and its name.
LEMMA CallShape ==
    ASSUME NEW c \in Calls
    PROVE  /\ c[1] \in Requests /\ c[2] \in Names \cup {"Get"} /\ c = <<c[1], c[2]>>
           /\ c[1] \notin Posts => c[2] = "Get"
  BY DEF Calls, Requests, Names

\* Every call goes to a service that has its method (the tables of the generated
\* code).
LEMMA MethodIsRegistered ==
    ASSUME NEW c \in Calls
    PROVE  Service(c) \in Services /\ Method(c) \in Registered(Service(c))
<1>1. c[2] \in Names \cup {"Get"}
  BY CallShape
<1>a. /\ DOMAIN OrderClient = {"Create", "Get", "Confirm", "Cancel"}
      /\ DOMAIN PaymentClient = {"Charge", "Refund"}
      /\ DOMAIN InventoryClient = {"Reserve", "Release"}
  BY DEF OrderClient, PaymentClient, InventoryClient
<1>2. CASE c[2] \in {"Create", "Get", "Confirm", "Cancel"}
  <2>1. Service(c) = "order"
    BY <1>2, <1>a DEF Service
  <2> QED
    BY <1>2, <2>1 DEF Method, Registered, Order_ServiceDesc, OrderClient, Services
<1>3. CASE c[2] \in {"Charge", "Refund"}
  <2>1. Service(c) = "payment"
    BY <1>3, <1>a DEF Service
  <2> QED
    BY <1>3, <2>1 DEF Method, Registered, Payment_ServiceDesc, PaymentClient, Services
<1>4. CASE c[2] \in {"Reserve", "Release"}
  <2>1. Service(c) = "inventory"
    BY <1>4, <1>a DEF Service
  <2> QED
    BY <1>4, <2>1 DEF Method, Registered, Inventory_ServiceDesc, InventoryClient, Services
<1> QED
  BY <1>1, <1>2, <1>3, <1>4 DEF Names

\* The place of a call in the life of its request.
Place(n) == CASE n = "Create"  -> 1 [] n = "Reserve" -> 2 [] n = "Charge" -> 3
              [] n = "Confirm" -> 4 [] n = "Refund"  -> 5 [] n = "Release" -> 6
              [] n = "Cancel"  -> 7 [] OTHER -> 0

\* What follows a call is further on; nothing follows a GET or a failed Create.
LEMMA AfterIsLater ==
    ASSUME NEW n \in Names \cup {"Get"}, NEW m \in {AfterSuccess(n), AfterFailure(n)}
    PROVE  /\ m = Nil \/ (m \in Names /\ Place(n) < Place(m))
           /\ Place(n) \in Nat
           /\ n = "Get" => m = Nil
           /\ AfterFailure("Create") = Nil /\ AfterFailure("Get") = Nil
           /\ m # "Create"
  BY UnusedAssumption DEF Names, AfterSuccess, AfterFailure, Place

\* The metadata of a call's request.
Md(c) == [key |-> Key[c[1]], id |-> c[1]]

\* Whatever context the call was made under, its handler sees the metadata of
\* its request (tracing.go, both of them).
LEMMA HandlerSees ==
    ASSUME NEW c \in Calls
    PROVE  /\ GetMetadataValue(TraceServerInterceptor(Incoming(Ctx(c)))) = Md(c)
           /\ Md(c) \in Metadata /\ Md(c) # Nil
<1>1. Md(c) \in Metadata /\ Md(c) # Nil
  <2>1. Md(c) \in Metadata
    BY CallShape DEF Md, Metadata
  <2> QED
    BY <2>1, UnusedAssumption
<1>2. Ctx(c).outgoing = Md(c)
  BY DEF Ctx, SagaCtx, AttachTracingMetadata, Md
<1>3. Incoming(Ctx(c)).incoming = Md(c)
  BY <1>2 DEF Incoming
<1>4. TraceServerInterceptor(Incoming(Ctx(c))).value = Md(c)
  BY <1>1, <1>3 DEF TraceServerInterceptor, Incoming
<1> QED
  BY <1>1, <1>4 DEF GetMetadataValue

-----------------------------------------------------------------------------
(* The inductive invariant.  Good says what is true of a call by itself;     *)
(* Later and FirstMade relate the calls of one request.                      *)

\* The stub waits, or nobody will react to its end.
Open == {"waiting", "gone", "cancelled"}

\* The state x of call c: it is sent to its service and nowhere else, has run
\* once if it has, and while a handler works on it, over a connection that
\* lives, its stub has not returned anything to react to.
Good(c, x) ==
    /\ x \in CallState
    /\ x.client = "none" => x = NoCall
    /\ x.by = IF x.server = "none" THEN Nil ELSE Service(c)
    /\ x.server # "unknown"
    /\ x.server \in {"none", "sent"} => x.runs = 0
    /\ x.server \in {"running", "done"} => x.runs = 1
    /\ x.seen = IF x.runs = 0 THEN Nil ELSE Md(c)
    /\ x.server \in {"sent", "running"} /\ ~x.lost => x.client \in Open

\* While a call is open none that comes after it has been made.
Later(c) == call[c].client \in Open =>
                \A d \in Calls : d[1] = c[1] /\ Place(c[2]) < Place(d[2]) => call[d] = NoCall

First(r) == <<r, IF r \in Posts THEN "Create" ELSE "Get">>

\* No call is made for a request before the one its handler makes.
FirstMade(c) == call[c] # NoCall => call[First(c[1])] # NoCall

IInv ==
    /\ TypeOK
    /\ \A c \in Calls : Good(c, call[c])
    /\ \A c \in Calls : Later(c)
    /\ \A c \in Calls : FirstMade(c)

\* What happens to a call at its server, or to its connection, does not make it,
\* and does not open it again.
Quiet(x, y) == (x = NoCall <=> y = NoCall) /\ (y.client \in Open => x.client \in Open)

-----------------------------------------------------------------------------
(* One call                                                                  *)

\* A call that was not made, and one that has just been made.
LEMMA GoodAtFirst ==
    ASSUME NEW c \in Calls
    PROVE  Good(c, NoCall) /\ Good(c, [NoCall EXCEPT !.client = "waiting"])
<1>1. NoCall \in CallState /\ [NoCall EXCEPT !.client = "waiting"] \in CallState
  BY DEF NoCall, CallState
<1> QED
  BY <1>1 DEF NoCall, Good, Open

\* A stub returns: with "cancelled", or after its handler has, or without one.
LEMMA GoodReturned ==
    ASSUME NEW c \in Calls, NEW x, Good(c, x), x.client = "waiting",
           NEW outcome \in {"ok", "refused", "error", "cancelled", "unimplemented", "gone"},
           x.server \in {"sent", "running"} /\ ~x.lost => outcome \in {"cancelled", "gone"}
    PROVE  /\ Good(c, [x EXCEPT !.client = outcome])
           /\ Quiet(x, [x EXCEPT !.client = outcome])
<1> DEFINE y == [x EXCEPT !.client = outcome]
<1>1. x \in CallState
  BY DEF Good
<1>2. /\ y \in CallState /\ y.client = outcome /\ y.server = x.server /\ y.by = x.by
      /\ y.lost = x.lost /\ y.runs = x.runs /\ y.seen = x.seen
  BY <1>1 DEF CallState
<1> HIDE DEF y
<1>3. x # NoCall /\ y # NoCall
  BY <1>2 DEF NoCall
<1>4. Good(c, y)
  BY <1>2 DEF Good, Open
<1>5. Quiet(x, y)
  BY <1>3 DEF Quiet, Open
<1> QED
  BY <1>4, <1>5 DEF y

\* A call is made known to its service, its handler starts, its handler returns,
\* its service dies, its connection breaks: one of the ways its other end changes.
LEMMA GoodAtServer ==
    ASSUME NEW c \in Calls, NEW x, Good(c, x), NEW y \in CallState, y.client = x.client,
           x.client # "none",
           \/ /\ x.client = "waiting" /\ x.server = "none" /\ y.server = "sent"
              /\ y.by = Service(c) /\ y.lost = x.lost /\ y.runs = x.runs /\ y.seen = x.seen
           \/ /\ x.server = "sent" /\ y.server = "running" /\ y.runs = x.runs + 1
              /\ y.seen = Md(c) /\ y.by = x.by /\ y.lost = x.lost
           \/ /\ x.server = "running" /\ y.server = "done" /\ y.runs = x.runs
              /\ y.seen = x.seen /\ y.by = x.by /\ y.lost = x.lost
           \/ /\ y.lost = TRUE /\ y.runs = x.runs /\ y.seen = x.seen /\ y.by = x.by
              /\ y.server = x.server \/ (x.server \in {"sent", "running"} /\ y.server = "killed")
    PROVE  Good(c, y) /\ Quiet(x, y)
<1>1. x # NoCall /\ y # NoCall
  BY DEF NoCall
<1>2. Quiet(x, y)
  BY <1>1 DEF Quiet
<1>3. Good(c, y)
  BY HandlerSees DEF Good, Open
<1> QED
  BY <1>2, <1>3

-----------------------------------------------------------------------------
(* All calls                                                                 *)

\* A step that is quiet for all calls keeps how they are related.
LEMMA QuietStep ==
    ASSUME \A c \in Calls : Later(c), \A c \in Calls : FirstMade(c),
           \A c \in Calls : Quiet(call[c], call'[c])
    PROVE  (\A c \in Calls : Later(c))' /\ (\A c \in Calls : FirstMade(c))'
<1>1. ASSUME NEW c \in Calls PROVE Later(c)'
  BY <1>1 DEF Later, Quiet
<1>2. ASSUME NEW c \in Calls PROVE FirstMade(c)'
  <2>1. First(c[1]) \in Calls
    <3>1. c[1] \in Posts \/ (c[1] \in Gets /\ c[1] \notin Posts)
      BY DEF Calls
    <3> QED
      BY <3>1 DEF First, Calls, Names
  <2> QED
    BY <2>1 DEF FirstMade, Quiet, First
<1> QED
  BY <1>1, <1>2

\* Places tell the calls of a request apart.
LEMMA PlaceIsUnique ==
    ASSUME NEW n \in Names \cup {"Get"}, NEW m \in Names \cup {"Get"}, Place(n) = Place(m)
    PROVE  n = m
  BY DEF Names, Place

\* At most one call of a request is open.
LEMMA OneIsOpen ==
    ASSUME IInv, NEW c \in Calls, NEW d \in Calls, c[1] = d[1],
           call[c].client \in Open, call[d].client \in Open
    PROVE  c = d
<1>1. call[c] # NoCall /\ call[d] # NoCall
  BY DEF NoCall, Open
<1>2. ~(Place(c[2]) < Place(d[2])) /\ ~(Place(d[2]) < Place(c[2]))
  BY <1>1 DEF IInv, Later
<1>3. Place(c[2]) \in Nat /\ Place(d[2]) \in Nat
  BY CallShape, AfterIsLater
<1>4. c[2] = d[2]
  BY <1>2, <1>3, CallShape, PlaceIsUnique
<1> QED
  BY <1>4, CallShape

-----------------------------------------------------------------------------
(* The steps                                                                 *)

\* The invariant holds before anything is started.
LEMMA InitInv == Init => IInv
<1> SUFFICES ASSUME Init PROVE IInv
  OBVIOUS
<1>1. \A c \in Calls : call[c] = NoCall
  BY DEF Init
<1>2. \A c \in Calls : Good(c, call[c])
  BY <1>1, GoodAtFirst
<1>3. \A c \in Calls : Later(c) /\ FirstMade(c)
  BY <1>1 DEF Later, FirstMade, Open, NoCall
<1>4. TypeOK
  <2>1. call \in [Calls -> CallState]
    BY <1>1, <1>2 DEF Init, Good
  <2>2. \A c \in Calls : call[c].runs > 0 <=> call[c].seen # Nil
    BY <1>1 DEF NoCall
  <2>3. \E l \in Loads : faults <= l.faults
    BY LoadsAssumption DEF Init
  <2> QED
    BY <2>1, <2>2, <2>3 DEF Init, TypeOK
<1> QED
  BY <1>2, <1>3, <1>4 DEF IInv

\* The processes, the contexts, the addresses and the faults.
Rest ==
    /\ boot \in [Processes -> {"down", "starting", "listening", "serving"}]
    /\ done \subseteq Requests
    /\ backoff \subseteq {Dial(s) : s \in Services}
    /\ faults \in Nat /\ \E l \in Loads : faults <= l.faults

\* The invariant of the next state, from that of its parts.
LEMMA FromParts ==
    ASSUME Rest', call' = [c \in Calls |-> call'[c]],
           (\A c \in Calls : Good(c, call[c]))',
           (\A c \in Calls : Later(c))', (\A c \in Calls : FirstMade(c))'
    PROVE  IInv'
<1>1. call' \in [Calls -> CallState]
  BY DEF Good
<1>2. (\A c \in Calls : call[c].runs > 0 <=> call[c].seen # Nil)'
  <2> SUFFICES ASSUME NEW c \in Calls PROVE call'[c].runs > 0 <=> call'[c].seen # Nil
    OBVIOUS
  <2>1. call'[c].runs \in Nat
    BY <1>1 DEF CallState
  <2> QED
    BY <2>1, HandlerSees DEF Good
<1> QED
  BY <1>1, <1>2 DEF IInv, TypeOK, Rest

\* A step that leaves the calls alone.
LEMMA CallsAlone ==
    ASSUME IInv, Rest', call' = call
    PROVE  IInv'
<1>1. \A c \in Calls : Later(c)' /\ FirstMade(c)'
  BY DEF IInv, Later, FirstMade
<1>2. \A c \in Calls : Good(c, call[c])'
  BY DEF IInv, Good
<1> QED
  BY <1>1, <1>2 DEF IInv, TypeOK, Rest

\* The mains (start, listen, serve), the client that leaves, a connection that can
\* be made again.
LEMMA QuietStepsInv ==
    ASSUME IInv,
           \/ \E p \in Processes : Start(p) \/ Listen(p) \/ Serve(p)
           \/ \E s \in Services : Reconnect(Dial(s))
           \/ \E r \in Requests : ClientLeaves(r)
           \/ UNCHANGED vars
    PROVE  IInv'
<1> Rest
  BY DEF IInv, TypeOK, Rest
<1>1. ASSUME NEW p \in Processes, Start(p) \/ Listen(p) \/ Serve(p) PROVE Rest' /\ call' = call
  BY <1>1 DEF Start, Listen, Serve, Boot, Rest
<1>2. ASSUME NEW s \in Services, Reconnect(Dial(s)) PROVE Rest' /\ call' = call
  BY <1>2 DEF Reconnect, Rest
<1>3. ASSUME NEW r \in Requests, ClientLeaves(r) PROVE Rest' /\ call' = call
  BY <1>3 DEF ClientLeaves, Rest
<1>4. CASE UNCHANGED vars
  BY <1>4, CallsAlone DEF vars, Rest
<1> QED
  BY <1>1, <1>2, <1>3, <1>4, CallsAlone

\* A process dies.
LEMMA ExitInv ==
    ASSUME IInv, NEW p \in Processes, Exit(p)
    PROVE  IInv'
<1>1. ASSUME NEW c \in Calls PROVE Good(c, call'[c]) /\ Quiet(call[c], call'[c])
  <2> DEFINE x == call[c]
             dead == [x EXCEPT !.lost = TRUE,
                               !.server = IF @ \in {"sent", "running"} THEN "killed" ELSE @]
  <2>0. Good(c, x) /\ x \in CallState
    BY DEF IInv, Good
  <2>1. CASE p = "gateway" /\ x.client = "waiting"
    <3>1. x.by # p
      BY <2>0, <2>1, UnusedAssumption DEF CallState, Services, Processes
    <3>2. call'[c] = [x EXCEPT !.client = "gone"]
      BY <2>1, <3>1 DEF Exit
    <3> HIDE DEF x
    <3>3. /\ Good(c, [x EXCEPT !.client = "gone"])
          /\ Quiet(x, [x EXCEPT !.client = "gone"])
      BY <2>0, <2>1, GoodReturned
    <3> QED
      BY <3>2, <3>3 DEF x
  <2>2. CASE x.by = p
    <3>1. p # "gateway" /\ p # Nil
      BY <2>0, <2>2, UnusedAssumption DEF CallState, Services, Processes
    <3>2. call'[c] = dead
      BY <2>2, <3>1 DEF Exit
    <3>3. /\ dead \in CallState /\ dead.client = x.client /\ dead.lost = TRUE
          /\ dead.runs = x.runs /\ dead.seen = x.seen /\ dead.by = x.by
          /\ dead.server = x.server
             \/ (x.server \in {"sent", "running"} /\ dead.server = "killed")
      BY <2>0 DEF CallState
    <3>4. x.client # "none"
      BY <2>0, <2>2, <3>1 DEF Good, NoCall
    <3> HIDE DEF dead
    <3> QED
      BY <2>0, <3>2, <3>3, <3>4, GoodAtServer
  <2>3. CASE ~(p = "gateway" /\ x.client = "waiting") /\ x.by # p
    <3>1. call'[c] = x
      BY <2>3 DEF Exit
    <3> QED
      BY <2>0, <3>1 DEF Quiet
  <2> QED
    BY <2>1, <2>2, <2>3
<1>2. Rest'
  <2>1. boot' \in [Processes -> {"down", "starting", "listening", "serving"}]
    BY DEF IInv, TypeOK, Exit
  <2>2. done' \subseteq Requests /\ backoff' \subseteq {Dial(s) : s \in Services}
    BY DEF IInv, TypeOK, Exit, Received
  <2>3. faults' \in Nat /\ \E l \in Loads : faults' <= l.faults
    <3>1. PICK l \in Loads : faults < l.faults
      BY DEF Exit, MoreFaults
    <3>2. faults \in Nat /\ l.faults \in Nat /\ faults' = faults + 1
      BY LoadsAssumption DEF IInv, TypeOK, Exit
    <3> QED
      BY <3>1, <3>2
  <2> QED
    BY <2>1, <2>2, <2>3 DEF Rest
<1>3. call' = [c \in Calls |-> call'[c]]
  <2> DEFINE After(c) ==
        CASE p = "gateway" /\ call[c].client = "waiting" -> [call[c] EXCEPT !.client = "gone"]
          [] call[c].by = p ->
               [call[c] EXCEPT !.lost = TRUE,
                               !.server = IF @ \in {"sent", "running"} THEN "killed" ELSE @]
          [] OTHER -> call[c]
  <2>1. call' = [c \in Calls |-> After(c)]
    BY Zenon DEF Exit
  <2> HIDE DEF After
  <2> QED
    BY <2>1
<1>4. (\A c \in Calls : Later(c))' /\ (\A c \in Calls : FirstMade(c))'
  BY <1>1, QuietStep DEF IInv
<1> QED
  BY <1>1, <1>2, <1>3, <1>4, FromParts

\* A connection breaks.
LEMMA DisconnectInv ==
    ASSUME IInv, NEW s \in Services, Disconnect(s)
    PROVE  IInv'
<1>1. ASSUME NEW c \in Calls PROVE Good(c, call'[c]) /\ Quiet(call[c], call'[c])
  <2> DEFINE x == call[c]
             y == [x EXCEPT !.lost = @ \/ x.by = s]
  <2>0. Good(c, x) /\ x \in CallState /\ call'[c] = y
    BY DEF IInv, Good, Disconnect
  <2>1. CASE x.by = s
    <3>1. s # Nil
      BY UnusedAssumption DEF Processes
    <3>2. /\ y \in CallState /\ y.client = x.client /\ y.lost = TRUE
          /\ y.runs = x.runs /\ y.seen = x.seen /\ y.by = x.by /\ y.server = x.server
      BY <2>0, <2>1 DEF CallState
    <3>3. x.client # "none"
      BY <2>0, <2>1, <3>1 DEF Good, NoCall
    <3> HIDE DEF y
    <3> QED
      BY <2>0, <3>2, <3>3, GoodAtServer
  <2>2. CASE x.by # s
    <3>1. y = x
      BY <2>0, <2>2 DEF CallState
    <3> QED
      BY <2>0, <3>1 DEF Quiet
  <2> QED
    BY <2>1, <2>2
<1>2. Rest'
  BY LoadsAssumption DEF IInv, TypeOK, Disconnect, MoreFaults, Rest
<1>3. call' = [c \in Calls |-> call'[c]]
  BY DEF Disconnect
<1>4. (\A c \in Calls : Later(c))' /\ (\A c \in Calls : FirstMade(c))'
  BY <1>1, QuietStep DEF IInv
<1> QED
  BY <1>1, <1>2, <1>3, <1>4, FromParts

\* A step that is quiet for one call and leaves the others alone.
LEMMA OneCallInv ==
    ASSUME IInv, Rest', NEW c \in Calls, NEW y, call' = [call EXCEPT ![c] = y],
           Good(c, y), Quiet(call[c], y)
    PROVE  IInv'
<1>1. call \in [Calls -> CallState]
  BY DEF IInv, TypeOK
<1>2. ASSUME NEW d \in Calls PROVE Good(d, call'[d]) /\ Quiet(call[d], call'[d])
  <2>1. CASE d = c
    BY <1>1, <2>1
  <2>2. CASE d # c
    <3>1. call'[d] = call[d]
      BY <1>1, <2>2
    <3> QED
      BY <3>1 DEF IInv, Quiet
  <2> QED
    BY <2>1, <2>2
<1>3. call' = [d \in Calls |-> call'[d]]
  BY <1>1
<1>4. (\A d \in Calls : Later(d))' /\ (\A d \in Calls : FirstMade(d))'
  BY <1>2, QuietStep DEF IInv
<1> QED
  BY <1>2, <1>3, <1>4, FromParts

\* A call is sent to the process found at the address of its service.
LEMMA SendInv ==
    ASSUME EnvFits, IInv, NEW c \in Calls, Send(c)
    PROVE  IInv'
<1> DEFINE x == call[c]
           y == [x EXCEPT !.server = "sent", !.by = Service(c)]
<1>0. Good(c, x) /\ x \in CallState /\ call \in [Calls -> CallState]
  BY DEF IInv, TypeOK, Good
<1>1. Service(c) \in Services
  BY MethodIsRegistered
<1>2. x.client = "waiting" /\ x.server = "none"
  BY DEF Send
<1>3. PICK p \in At(Dial(Service(c))) : call' = [call EXCEPT ![c].server = "sent", ![c].by = p]
  BY DEF Send
<1>4. p = Service(c)
  BY <1>1, DialsItsService
<1>5. call' = [call EXCEPT ![c] = y]
  BY <1>0, <1>3, <1>4
<1>6. /\ y \in CallState /\ y.client = x.client /\ y.server = "sent" /\ y.by = Service(c)
      /\ y.lost = x.lost /\ y.runs = x.runs /\ y.seen = x.seen
  BY <1>0, <1>1 DEF CallState
<1>7. Rest'
  BY DEF Send, IInv, TypeOK, Rest
<1> HIDE DEF x, y
<1>8. Good(c, y) /\ Quiet(x, y)
  BY <1>0, <1>2, <1>6, GoodAtServer
<1> QED
  BY <1>5, <1>7, <1>8, OneCallInv DEF x

\* A handler starts: its method is found and it sees the metadata of its request.
LEMMA HandleInv ==
    ASSUME IInv, NEW c \in Calls, Handle(c)
    PROVE  IInv'
<1> DEFINE x == call[c]
           md == GetMetadataValue(TraceServerInterceptor(Incoming(Ctx(c))))
           y == [x EXCEPT !.server = "running", !.runs = x.runs + 1, !.seen = Md(c)]
<1>0. Good(c, x) /\ x \in CallState /\ call \in [Calls -> CallState]
  BY DEF IInv, TypeOK, Good
<1>1. x.server = "sent" /\ x.by = Service(c)
  BY <1>0 DEF Handle, Good
<1>2. Method(c) \in Registered(x.by)
  BY <1>1, MethodIsRegistered
<1>3. call' = [call EXCEPT ![c].server = "running", ![c].runs = @ + 1, ![c].seen = md]
  BY <1>2 DEF Handle
<1>4. md = Md(c) /\ Md(c) \in Metadata
  BY HandlerSees
<1> HIDE DEF md
<1>a. call' = [call EXCEPT ![c] = y]
  BY <1>0, <1>3, <1>4
<1>5. /\ y \in CallState /\ y.client = x.client /\ y.server = "running" /\ y.runs = x.runs + 1
      /\ y.seen = Md(c) /\ y.by = x.by /\ y.lost = x.lost
  <2>1. x.runs + 1 \in Nat
    BY <1>0 DEF CallState
  <2> QED
    BY <1>0, <1>4, <2>1 DEF CallState
<1>6. x.client # "none"
  BY <1>0, <1>1 DEF Good, NoCall
<1>7. Rest'
  BY DEF Handle, IInv, TypeOK, Rest
<1> HIDE DEF x, y
<1>8. Good(c, y) /\ Quiet(x, y)
  BY <1>0, <1>1, <1>5, <1>6, GoodAtServer
<1> QED
  BY <1>a, <1>7, <1>8, OneCallInv DEF x

\* A handler returns.
LEMMA HandlerReturnsInv ==
    ASSUME IInv, NEW c \in Calls, HandlerReturns(c)
    PROVE  IInv'
<1> DEFINE x == call[c]
           y == [x EXCEPT !.server = "done"]
<1>0. Good(c, x) /\ x \in CallState /\ call \in [Calls -> CallState]
  BY DEF IInv, TypeOK, Good
<1>1. x.server = "running" /\ x.client # "none"
  BY <1>0 DEF HandlerReturns, Good, NoCall
<1>3. call' = [call EXCEPT ![c] = y]
  BY <1>0 DEF HandlerReturns
<1>5. /\ y \in CallState /\ y.client = x.client /\ y.server = "done" /\ y.runs = x.runs
      /\ y.seen = x.seen /\ y.by = x.by /\ y.lost = x.lost
  BY <1>0 DEF CallState
<1>7. Rest'
  BY DEF HandlerReturns, IInv, TypeOK, Rest
<1> HIDE DEF x, y
<1>8. Good(c, y) /\ Quiet(x, y)
  BY <1>0, <1>1, <1>5, GoodAtServer
<1> QED
  BY <1>3, <1>7, <1>8, OneCallInv DEF x

\* The first call of a request is a call.
LEMMA FirstIsCall ==
    ASSUME NEW r \in Requests
    PROVE  First(r) \in Calls /\ First(r)[1] = r
<1>1. CASE r \in Posts
  BY <1>1 DEF First, Calls, Names
<1>2. CASE r \notin Posts
  BY <1>2 DEF First, Calls, Requests
<1> QED
  BY <1>1, <1>2

\* The first call of a request is made when none has been.
LEMMA ReceiveInv ==
    ASSUME IInv, NEW r \in Requests, Receive(r)
    PROVE  IInv'
<1> DEFINE f == First(r)
           new == [NoCall EXCEPT !.client = "waiting"]
<1>0. call \in [Calls -> CallState] /\ f \in Calls /\ f[1] = r
  BY FirstIsCall DEF IInv, TypeOK
<1>1. call[f] = NoCall /\ call' = [call EXCEPT ![f].client = "waiting"]
  BY DEF Receive, First
<1>2. new.client = "waiting" /\ new # NoCall /\ Good(f, new)
  BY <1>0, GoodAtFirst DEF NoCall
<1>3. call'[f] = new /\ \A d \in Calls \ {f} : call'[d] = call[d]
  BY <1>0, <1>1
<1>4. \A d \in Calls : d[1] = r => call[d] = NoCall
  BY <1>1 DEF IInv, FirstMade
<1> HIDE DEF f, new
<1>5. ASSUME NEW c \in Calls PROVE Good(c, call'[c])
  BY <1>2, <1>3 DEF IInv
<1>6. ASSUME NEW c \in Calls PROVE Later(c)'
  <2>1. CASE c[1] # r
    <3>1. call'[c] = call[c] /\ \A d \in Calls : d[1] = c[1] => call'[d] = call[d]
      BY <1>0, <1>3, <2>1
    <3> QED
      BY <3>1 DEF IInv, Later
  <2>2. CASE c[1] = r /\ c # f
    <3>1. call'[c].client = "none"
      BY <1>3, <1>4, <2>2 DEF NoCall
    <3> QED
      BY <3>1 DEF Later, Open
  <2>3. CASE c = f
    <3>1. ASSUME NEW d \in Calls, d[1] = r, Place(c[2]) < Place(d[2]) PROVE call'[d] = NoCall
      <4>1. d # f
        <5>1. Place(c[2]) \in Nat
          BY CallShape, AfterIsLater
        <5> QED
          BY <2>3, <3>1, <5>1
      <4> QED
        BY <1>3, <1>4, <3>1, <4>1
    <3> QED
      BY <1>0, <2>3, <3>1 DEF Later
  <2> QED
    BY <2>1, <2>2, <2>3
<1>7. ASSUME NEW c \in Calls PROVE FirstMade(c)'
  <2>1. CASE c[1] = r
    BY <1>2, <1>3, <2>1 DEF FirstMade, f, First
  <2>2. CASE c[1] # r
    <3>1. c[1] \in Requests
      BY CallShape
    <3>2. First(c[1]) \in Calls /\ First(c[1]) # f /\ c # f
      BY <1>0, <2>2, <3>1, FirstIsCall
    <3>3. call'[c] = call[c] /\ call'[First(c[1])] = call[First(c[1])]
      BY <1>3, <3>2
    <3> QED
      BY <3>3 DEF IInv, FirstMade, First
  <2> QED
    BY <2>1, <2>2
<1>8. Rest' /\ call' = [c \in Calls |-> call'[c]]
  BY <1>0, <1>1 DEF Receive, IInv, TypeOK, Rest
<1> QED
  BY <1>5, <1>6, <1>7, <1>8, FromParts

\* A stub returns and the next call is made: the one that returned is not open any
\* more, or it was the last.
LEMMA ReturnsInv ==
    ASSUME IInv, NEW c \in Calls,
           NEW outcome \in {"ok", "refused", "error", "cancelled", "unimplemented"},
           Returns(c, outcome), backoff' \subseteq {Dial(s) : s \in Services},
           call[c].server \in {"sent", "running"} /\ ~call[c].lost => outcome = "cancelled",
           outcome = "cancelled" => c[2] \in {"Create", "Get"}
    PROVE  IInv'
<1> DEFINE n == IF outcome = "ok" THEN AfterSuccess(c[2]) ELSE AfterFailure(c[2])
           y == [call[c] EXCEPT !.client = outcome]
           new == [NoCall EXCEPT !.client = "waiting"]
<1>0. /\ call \in [Calls -> CallState] /\ Good(c, call[c]) /\ call[c].client = "waiting"
      /\ c[2] \in Names \cup {"Get"} /\ c[1] \in Requests
  BY CallShape DEF IInv, TypeOK, Returns
<1>1. Rest'
  BY <1>0 DEF Returns, IInv, TypeOK, Rest
<1>2. Good(c, y) /\ Quiet(call[c], y) /\ y.client = outcome /\ y # NoCall /\ call[c] # NoCall
  <2>1. PICK x : x = call[c]
    OBVIOUS
  <2>2. Good(c, [x EXCEPT !.client = outcome]) /\ Quiet(x, [x EXCEPT !.client = outcome])
    BY <1>0, <2>1, GoodReturned
  <2>3. y.client = outcome
    BY <1>0 DEF CallState
  <2> QED
    BY <1>0, <2>1, <2>2, <2>3 DEF NoCall
<1>3. /\ n = Nil \/ (n \in Names /\ Place(c[2]) < Place(n))
      /\ n # "Create" /\ Place(c[2]) \in Nat
      /\ outcome = "cancelled" => n = Nil
      /\ c[2] = "Get" => n = Nil
  <2>1. n \in {AfterSuccess(c[2]), AfterFailure(c[2])}
    OBVIOUS
  <2>2. outcome = "cancelled" => n = AfterFailure(c[2])
    OBVIOUS
  <2> HIDE DEF n
  <2> QED
    BY <1>0, <2>1, <2>2, AfterIsLater
<1>4. /\ call'[c] = y
      /\ \A d \in Calls : d # c /\ d # <<c[1], n>> => call'[d] = call[d]
      /\ \A d \in Calls : d # c /\ d = <<c[1], n>>
                             => call'[d] = [call[d] EXCEPT !.client = "waiting"]
      /\ call' = [d \in Calls |-> call'[d]]
  <2>1. c # <<c[1], n>>
    <3>1. c[2] # n
      BY <1>0, <1>3, UnusedAssumption
    <3> QED
      BY <3>1
  <2> DEFINE After(d) == CASE d = c            -> [call[d] EXCEPT !.client = outcome]
                           [] d = <<c[1], n>> -> [call[d] EXCEPT !.client = "waiting"]
                           [] OTHER            -> call[d]
  <2>2. call' = [d \in Calls |-> After(d)]
    BY DEF Returns
  <2>3. /\ After(c) = y
        /\ \A d \in Calls : d # c /\ d # <<c[1], n>> => After(d) = call[d]
        /\ \A d \in Calls : d # c /\ d = <<c[1], n>>
                               => After(d) = [call[d] EXCEPT !.client = "waiting"]
    <3> HIDE DEF n
    <3> QED
      BY <2>1
  <2> HIDE DEF After, n
  <2> QED
    BY <2>2, <2>3
<1> HIDE DEF n, y
<1>5. CASE <<c[1], n>> \notin Calls
  <2>1. ASSUME NEW d \in Calls PROVE Good(d, call'[d]) /\ Quiet(call[d], call'[d])
    <3>1. CASE d = c
      BY <1>2, <1>4, <3>1
    <3>2. CASE d # c
      <4>1. call'[d] = call[d]
        BY <1>4, <1>5, <3>2
      <4> QED
        BY <4>1 DEF IInv, Quiet
    <3> QED
      BY <3>1, <3>2
  <2>2. (\A d \in Calls : Later(d))' /\ (\A d \in Calls : FirstMade(d))'
    BY <2>1, QuietStep DEF IInv
  <2> QED
    BY <1>1, <1>4, <2>1, <2>2, FromParts
<1>6. CASE <<c[1], n>> \in Calls
  <2> DEFINE e == <<c[1], n>>
  <2>1. n \in Names /\ Place(c[2]) < Place(n) /\ n \notin {"Create", "Get"} /\ Place(n) \in Nat
    <3>1. n \in Names \cup {"Get"}
      BY <1>6, CallShape
    <3>2. n # Nil
      BY <3>1, UnusedAssumption
    <3> QED
      BY <1>3, <3>2, AfterIsLater DEF Names
  <2>2. e \in Calls /\ e[1] = c[1] /\ e[2] = n /\ e # c
    BY <1>3, <1>6, <2>1
  <2> HIDE DEF e
  <2>3. call[e] = NoCall
    BY <1>0, <2>1, <2>2 DEF IInv, Later, Open
  <2>4. call'[e] = new /\ new.client = "waiting" /\ new # NoCall /\ Good(e, new)
    <3>1. call'[e] = [call[e] EXCEPT !.client = "waiting"]
      BY <1>4, <2>2 DEF e
    <3> QED
      BY <2>2, <2>3, <3>1, GoodAtFirst DEF NoCall
  <2> HIDE DEF new
  <2>5. \A d \in Calls \ {c, e} : call'[d] = call[d]
    BY <1>4 DEF e
  <2>6. ASSUME NEW d \in Calls PROVE Good(d, call'[d])
    BY <1>2, <1>4, <2>4, <2>5 DEF IInv
  <2>7. call'[c].client \notin Open
    <3>1. outcome # "cancelled"
      BY <1>3, <2>1, UnusedAssumption
    <3> QED
      BY <1>2, <1>4, <3>1 DEF Open
  <2>8. ASSUME NEW d \in Calls PROVE Later(d)'
    <3>1. CASE d[1] # c[1]
      <4>1. call'[d] = call[d] /\ \A f \in Calls : f[1] = d[1] => call'[f] = call[f]
        BY <2>2, <2>5, <3>1
      <4> QED
        BY <4>1 DEF IInv, Later
    <3>2. CASE d = c
      BY <2>7, <3>2 DEF Later
    <3>3. CASE d[1] = c[1] /\ d # c /\ d # e
      <4>1. call'[d] = call[d]
        BY <2>5, <3>3
      <4>2. call[d].client \notin Open
        BY <1>0, <3>3, OneIsOpen DEF Open
      <4> QED
        BY <4>1, <4>2 DEF Later
    <3>4. CASE d = e
      <4>1. ASSUME NEW f \in Calls, f[1] = d[1], Place(d[2]) < Place(f[2])
            PROVE  call'[f] = NoCall
        <5>1. Place(f[2]) \in Nat
          BY CallShape, AfterIsLater
        <5>2. f # c /\ f # e /\ Place(c[2]) < Place(f[2])
          BY <1>3, <2>1, <2>2, <3>4, <4>1, <5>1
        <5>3. call[f] = NoCall
          BY <1>0, <2>2, <3>4, <4>1, <5>2 DEF IInv, Later, Open
        <5> QED
          BY <2>5, <5>2, <5>3
      <4> QED
        BY <4>1 DEF Later
    <3> QED
      BY <3>1, <3>2, <3>3, <3>4
  <2>9. ASSUME NEW d \in Calls PROVE FirstMade(d)'
    <3>1. d[1] \in Requests /\ First(d[1]) \in Calls
      BY CallShape, FirstIsCall
    <3>2. ASSUME call[First(d[1])] # NoCall PROVE call'[First(d[1])] # NoCall
      BY <1>2, <1>4, <2>3, <2>5, <3>1, <3>2
    <3>3. CASE d = e
      BY <1>2, <2>2, <3>2, <3>3 DEF IInv, FirstMade, First
    <3>4. CASE d = c
      BY <1>2, <3>2, <3>4 DEF IInv, FirstMade, First
    <3>5. CASE d # e /\ d # c
      BY <2>5, <3>2, <3>5 DEF IInv, FirstMade, First
    <3> QED
      BY <3>3, <3>4, <3>5
  <2> QED
    BY <1>1, <1>4, <2>6, <2>8, <2>9, FromParts
<1> QED
  BY <1>5, <1>6

\* The four ways in which a stub returns.
Ends(c) == ConnectFails(c) \/ Answered(c) \/ ConnectionLost(c) \/ Cancelled(c)

\* What a stub returns, and when: only a context that is done lets it return
\* while its handler is at work on a connection that lives.
LEMMA EndsWith ==
    ASSUME IInv, NEW c \in Calls, Ends(c)
    PROVE  \E outcome \in {"ok", "refused", "error", "cancelled", "unimplemented"} :
              /\ Returns(c, outcome)
              /\ backoff' \subseteq {Dial(s) : s \in Services}
              /\ call[c].server \in {"sent", "running"} /\ ~call[c].lost => outcome = "cancelled"
              /\ outcome = "cancelled" => c[2] \in {"Create", "Get"}
              /\ outcome \in {"ok", "refused"} => call[c].server = "done"
<1>0. backoff \subseteq {Dial(s) : s \in Services}
  BY DEF IInv, TypeOK
<1>1. CASE ConnectFails(c)
  <2>1. Service(c) \in Services
    BY MethodIsRegistered
  <2> QED
    BY <1>0, <1>1, <2>1 DEF ConnectFails
<1>2. CASE Answered(c)
  <2>1. PICK answer \in Answers(c) : Returns(c, answer)
    BY <1>2 DEF Answered
  <2>2. /\ answer \in {"ok", "refused", "unimplemented"}
        /\ call[c].server \notin {"sent", "running"}
        /\ answer \in {"ok", "refused"} => call[c].server = "done"
    BY <2>1 DEF Answers
  <2>3. backoff' = backoff
    BY <1>2 DEF Answered
  <2> QED
    BY <1>0, <2>1, <2>2, <2>3
<1>3. CASE ConnectionLost(c)
  BY <1>0, <1>3 DEF ConnectionLost
<1>4. CASE Cancelled(c)
  <2>1. c[2] \in {"Create", "Get"}
    BY <1>4 DEF Cancelled, Ctx, SagaCtx, AttachTracingMetadata
  <2> QED
    BY <1>0, <1>4, <2>1 DEF Cancelled
<1> QED
  BY <1>1, <1>2, <1>3, <1>4 DEF Ends

\* The invariant is inductive.
LEMMA NextInv ==
    ASSUME EnvFits, IInv, [Next]_vars
    PROVE  IInv'
<1>1. ASSUME NEW c \in Calls, Ends(c) PROVE IInv'
  <2>1. PICK outcome \in {"ok", "refused", "error", "cancelled", "unimplemented"} :
              /\ Returns(c, outcome)
              /\ backoff' \subseteq {Dial(s) : s \in Services}
              /\ call[c].server \in {"sent", "running"} /\ ~call[c].lost => outcome = "cancelled"
              /\ outcome = "cancelled" => c[2] \in {"Create", "Get"}
    BY <1>1, EndsWith
  <2> QED
    BY <2>1, ReturnsInv
<1>2. CASE Progress
  BY <1>1, <1>2, QuietStepsInv, SendInv, HandleInv, HandlerReturnsInv DEF Progress, Ends
<1>3. CASE \E p \in Processes : Start(p) \/ Listen(p) \/ Exit(p)
  BY <1>3, QuietStepsInv, ExitInv
<1>4. CASE \E s \in Services : Disconnect(s) \/ Reconnect(Dial(s))
  BY <1>4, QuietStepsInv, DisconnectInv
<1>5. CASE \E r \in Requests : Receive(r) \/ ClientLeaves(r)
  BY <1>5, QuietStepsInv, ReceiveInv
<1>6. CASE UNCHANGED vars
  BY <1>6, QuietStepsInv
<1> QED
  BY <1>2, <1>3, <1>4, <1>5, <1>6 DEF Next

-----------------------------------------------------------------------------
(* The theorems                                                              *)

\* The invariant holds in every reachable state, whatever is started, killed or
\* cut off in whatever order.
THEOREM Inductive ==
    ASSUME EnvFits
    PROVE  Spec => []IInv
  BY InitInv, NextInv, PTL DEF Spec

\* Type correctness of processes, contexts and calls.
THEOREM TypeCorrect ==
    ASSUME EnvFits
    PROVE  Spec => []TypeOK
<1>1. IInv => TypeOK
  BY DEF IInv
<1> QED
  BY <1>1, Inductive, PTL

\* No call gets to a process that does not know its method (main.go:62-71 of the
\* gateway, the mains of the services and the tables of the generated code).
THEOREM ReachesService ==
    ASSUME EnvFits
    PROVE  Spec => []CallsReachTheirService
<1>1. IInv => CallsReachTheirService
  BY DEF IInv, Good, CallsReachTheirService
<1> QED
  BY <1>1, Inductive, PTL

\* A handler sees the metadata of the HTTP request it works for, and no other
\* (tracing.go of the gateway and of the interceptors, handler.go:85).
THEOREM SeesRequest ==
    ASSUME EnvFits
    PROVE  Spec => []HandlerSeesItsRequest
<1>1. IInv => HandlerSeesItsRequest
  BY DEF IInv, Good, Md, HandlerSeesItsRequest
<1> QED
  BY <1>1, Inductive, PTL

\* The services work on one call of a POST at a time (handler.go:85-88).
THEOREM OneAtATime ==
    ASSUME EnvFits
    PROVE  Spec => []OneCallAtATime
<1>1. ASSUME IInv, NEW r \in Posts
      PROVE  Cardinality({c \in Calls : /\ c[1] = r /\ ~call[c].lost
                                        /\ call[c].server \in {"sent", "running"}}) <= 1
  <2> DEFINE S == {c \in Calls : /\ c[1] = r /\ ~call[c].lost
                                 /\ call[c].server \in {"sent", "running"}}
  <2>1. ASSUME NEW c \in S, NEW d \in S PROVE c = d
    <3>1. /\ c \in Calls /\ d \in Calls /\ c[1] = d[1]
          /\ call[c].client \in Open /\ call[d].client \in Open
      BY <1>1 DEF IInv, Good
    <3> QED
      BY <1>1, <3>1, OneIsOpen
  <2> HIDE DEF S
  <2>2. S = {} \/ \E c : S = {c}
    BY <2>1
  <2>3. Cardinality(S) <= 1
    BY <2>2, FS_EmptySet, FS_Singleton
  <2> QED
    BY <2>3 DEF S
<1>2. IInv => OneCallAtATime
  BY <1>1 DEF OneCallAtATime
<1> QED
  BY <1>2, Inductive, PTL

-----------------------------------------------------------------------------
(* Every call implements UnaryCall.                                          *)

\* The abstract outcome of a call in state x.
OutcomeOf(x) == CASE x.client = "none"    -> "unsent"
                  [] x.client = "waiting" -> "waiting"
                  [] x.client \in {"ok", "refused"} -> "answered"
                  [] OTHER -> "error"

\* A step from state x to state y of one call, as UnaryCall sees it.
UnaryStep(x, y) ==
    \/ /\ OutcomeOf(x) = "unsent" /\ OutcomeOf(y) = "waiting" /\ y.runs = x.runs
    \/ /\ OutcomeOf(x) # "unsent" /\ x.runs = 0 /\ y.runs = 1 /\ OutcomeOf(y) = OutcomeOf(x)
    \/ /\ OutcomeOf(x) = "waiting" /\ x.runs = 1 /\ OutcomeOf(y) = "answered" /\ y.runs = x.runs
    \/ /\ OutcomeOf(x) = "waiting" /\ OutcomeOf(y) = "error" /\ y.runs = x.runs
    \/ /\ OutcomeOf(y) = OutcomeOf(x) /\ y.runs = x.runs

\* The outcomes of the states of a stub.
LEMMA Outcomes ==
    ASSUME NEW x
    PROVE  /\ x.client = "none" => OutcomeOf(x) = "unsent"
           /\ x.client = "waiting" => OutcomeOf(x) = "waiting"
           /\ x.client \in {"ok", "refused"} => OutcomeOf(x) = "answered"
           /\ x.client \in {"error", "cancelled", "unimplemented", "gone"} => OutcomeOf(x) = "error"
  BY DEF OutcomeOf

\* A stub that returns ends its call, with an answer only if the handler has run.
LEMMA ReturnIsUnary ==
    ASSUME NEW c \in Calls, NEW x, Good(c, x), x.client = "waiting",
           NEW outcome \in {"ok", "refused", "error", "cancelled", "unimplemented", "gone"},
           outcome \in {"ok", "refused"} => x.server = "done"
    PROVE  UnaryStep(x, [x EXCEPT !.client = outcome])
<1> DEFINE y == [x EXCEPT !.client = outcome]
<1>1. x \in CallState
  BY DEF Good
<1>2. y.client = outcome /\ y.runs = x.runs
  BY <1>1 DEF CallState
<1> HIDE DEF y
<1>3. OutcomeOf(x) = "waiting"
  BY Outcomes
<1>4. CASE outcome \in {"ok", "refused"}
  <2>1. OutcomeOf(y) = "answered" /\ x.runs = 1
    BY <1>2, <1>4, Outcomes DEF Good
  <2> QED
    BY <1>2, <1>3, <2>1 DEF UnaryStep, y
<1>5. CASE outcome \notin {"ok", "refused"}
  <2>1. OutcomeOf(y) = "error"
    BY <1>2, <1>5, Outcomes
  <2> QED
    BY <1>2, <1>3, <2>1 DEF UnaryStep, y
<1> QED
  BY <1>4, <1>5

\* Every step is a step of UnaryCall for each call, or changes nothing of it.
LEMMA StepIsUnary ==
    ASSUME IInv, [Next]_vars, NEW d \in Calls
    PROVE  UnaryStep(call[d], call'[d])
<1> DEFINE x == call[d]
<1>0. call \in [Calls -> CallState] /\ x \in CallState /\ Good(d, x)
  BY DEF IInv, TypeOK
<1>1. ASSUME call'[d] = call[d] PROVE UnaryStep(call[d], call'[d])
  BY <1>1 DEF UnaryStep
<1>2. ASSUME NEW c \in Calls, Send(c) \/ HandlerReturns(c) PROVE UnaryStep(call[d], call'[d])
  <2>1. call'[d].client = call[d].client /\ call'[d].runs = call[d].runs
    <3>1. CASE Send(c)
      BY <1>0, <3>1 DEF Send, CallState
    <3>2. CASE HandlerReturns(c)
      BY <1>0, <3>2 DEF HandlerReturns, CallState
    <3> QED
      BY <1>2, <3>1, <3>2
  <2> QED
    BY <2>1 DEF UnaryStep, OutcomeOf
<1>3. ASSUME NEW c \in Calls, Handle(c) PROVE UnaryStep(call[d], call'[d])
  <2>1. CASE d # c
    <3>1. call'[d] = call[d]
      BY <1>0, <1>3, <2>1 DEF Handle
    <3> QED
      BY <1>1, <3>1
  <2>2. CASE d = c
    <3>1. x.server = "sent" /\ x.by = Service(c) /\ x.client # "none" /\ x.runs = 0
      BY <1>0, <1>3, <2>2 DEF Handle, Good, NoCall
    <3>2. Method(c) \in Registered(call[c].by)
      BY <2>2, <3>1, MethodIsRegistered
    <3> DEFINE md == GetMetadataValue(TraceServerInterceptor(Incoming(Ctx(c))))
    <3>3. call' = [call EXCEPT ![c].server = "running", ![c].runs = @ + 1, ![c].seen = md]
      BY <1>3, <3>2 DEF Handle
    <3> HIDE DEF md
    <3>4. call'[d].client = x.client /\ call'[d].runs = 1
      BY <1>0, <2>2, <3>1, <3>3 DEF CallState
    <3>5. OutcomeOf(x) # "unsent" /\ OutcomeOf(call'[d]) = OutcomeOf(x)
      BY <3>1, <3>4 DEF OutcomeOf
    <3> QED
      BY <3>1, <3>4, <3>5 DEF UnaryStep
  <2> QED
    BY <2>1, <2>2
<1>4. ASSUME NEW r \in Requests, Receive(r) PROVE UnaryStep(call[d], call'[d])
  <2> DEFINE f == First(r)
  <2>1. f \in Calls /\ call[f] = NoCall /\ call' = [call EXCEPT ![f].client = "waiting"]
    BY <1>4, FirstIsCall DEF Receive, First
  <2> HIDE DEF f
  <2>2. CASE d # f
    BY <1>0, <1>1, <2>1, <2>2
  <2>3. CASE d = f
    <3>1. x.client = "none" /\ call'[d].client = "waiting" /\ call'[d].runs = x.runs
      BY <1>0, <2>1, <2>3 DEF NoCall
    <3> QED
      BY <3>1, Outcomes DEF UnaryStep
  <2> QED
    BY <2>2, <2>3
<1>5. ASSUME NEW s \in Services, Disconnect(s) PROVE UnaryStep(call[d], call'[d])
  <2>1. call'[d].client = call[d].client /\ call'[d].runs = call[d].runs
    BY <1>0, <1>5 DEF Disconnect, CallState
  <2> QED
    BY <2>1 DEF UnaryStep, OutcomeOf
<1>6. ASSUME NEW p \in Processes, Exit(p) PROVE UnaryStep(call[d], call'[d])
  <2>1. CASE p = "gateway" /\ x.client = "waiting"
    <3>1. x.by # p
      BY <1>0, <2>1, UnusedAssumption DEF CallState, Services, Processes
    <3>2. call'[d] = [x EXCEPT !.client = "gone"]
      BY <1>6, <2>1, <3>1 DEF Exit
    <3> HIDE DEF x
    <3>3. UnaryStep(x, [x EXCEPT !.client = "gone"])
      BY <1>0, <2>1, ReturnIsUnary
    <3> QED
      BY <3>2, <3>3 DEF x
  <2>2. CASE ~(p = "gateway" /\ x.client = "waiting")
    <3>1. call'[d].client = x.client /\ call'[d].runs = x.runs
      <4>1. CASE x.by = p
        <5>1. call'[d] = [x EXCEPT !.lost = TRUE,
                             !.server = IF @ \in {"sent", "running"} THEN "killed" ELSE @]
          BY <1>6, <2>2, <4>1 DEF Exit
        <5> QED
          BY <1>0, <5>1 DEF CallState
      <4>2. CASE x.by # p
        BY <1>6, <2>2, <4>2 DEF Exit
      <4> QED
        BY <4>1, <4>2
    <3> QED
      BY <3>1 DEF UnaryStep, OutcomeOf
  <2> QED
    BY <2>1, <2>2
<1>7. ASSUME NEW c \in Calls, Ends(c) PROVE UnaryStep(call[d], call'[d])
  <2>1. PICK outcome \in {"ok", "refused", "error", "cancelled", "unimplemented"} :
              /\ Returns(c, outcome)
              /\ outcome \in {"ok", "refused"} => call[c].server = "done"
    BY <1>7, EndsWith
  <2> DEFINE n == IF outcome = "ok" THEN AfterSuccess(c[2]) ELSE AfterFailure(c[2])
  <2>2. /\ n = Nil \/ (n \in Names /\ Place(c[2]) < Place(n))
        /\ c[2] \in Names \cup {"Get"} /\ Place(c[2]) \in Nat
    BY CallShape, AfterIsLater
  <2>3. CASE d = c
    <3>1. <<c[1], n>> # c
      BY <2>2, CallShape, UnusedAssumption
    <3>2. call[c].client = "waiting" /\ call'[c] = [call[c] EXCEPT !.client = outcome]
      BY <2>1, <3>1 DEF Returns
    <3>3. UnaryStep(x, [x EXCEPT !.client = outcome])
      <4> HIDE DEF x
      <4>1. x.client = "waiting" /\ (outcome \in {"ok", "refused"} => x.server = "done")
        BY <2>1, <2>3, <3>2 DEF x
      <4> QED
        BY <1>0, <4>1, ReturnIsUnary
    <3> QED
      BY <2>3, <3>2, <3>3
  <2>4. CASE d # c /\ d = <<c[1], n>>
    <3>1. n \in Names /\ Place(c[2]) < Place(n) /\ d[1] = c[1] /\ d[2] = n
      BY <2>2, <2>4, CallShape, UnusedAssumption
    <3>2. call[c].client = "waiting"
      BY <2>1 DEF Returns
    <3>3. call[d] = NoCall
      BY <3>1, <3>2 DEF IInv, Later, Open
    <3>4. call'[d] = [call[d] EXCEPT !.client = "waiting"]
      BY <2>1, <2>4 DEF Returns
    <3>5. x.client = "none" /\ call'[d].client = "waiting" /\ call'[d].runs = x.runs
      BY <3>3, <3>4 DEF NoCall
    <3> QED
      BY <3>5, Outcomes DEF UnaryStep
  <2>5. CASE d # c /\ d # <<c[1], n>>
    <3>1. call'[d] = call[d]
      BY <2>1, <2>5 DEF Returns
    <3> QED
      BY <1>1, <3>1
  <2> QED
    BY <2>3, <2>4, <2>5
<1>8. ASSUME \/ \E p \in Processes : Start(p) \/ Listen(p) \/ Serve(p)
             \/ \E s \in Services : Reconnect(Dial(s))
             \/ \E r \in Requests : ClientLeaves(r)
             \/ UNCHANGED vars
      PROVE  UnaryStep(call[d], call'[d])
  BY <1>1, <1>8 DEF Start, Listen, Serve, Boot, Reconnect, ClientLeaves, vars
<1> QED
  BY <1>2, <1>3, <1>4, <1>5, <1>6, <1>7, <1>8 DEF Next, Progress, Ends

\* Every call is at most once carried out, answered only if it was, and ends once,
\* whatever is killed, started again or cut off.
THEOREM Refinement ==
    ASSUME EnvFits
    PROVE  Spec => ImplementsUnaryCall
<1>1. Init => \A c \in Calls : UC(c)!Init
  BY DEF Init, UC!Init, Outcome, NoCall
<1>2. ASSUME NEW c \in Calls, UnaryStep(call[c], call'[c])
      PROVE  UC(c)!Next \/ UNCHANGED <<Outcome(c), call[c].runs>>
  BY <1>2 DEF UnaryStep, OutcomeOf, Outcome, UC!Next, UC!Send, UC!Run, UC!Answer, UC!Fail
<1>3. IInv /\ [Next]_vars
        => [\A c \in Calls : UC(c)!Next \/ UNCHANGED <<Outcome(c), call[c].runs>>]_vars
  BY <1>2, StepIsUnary
<1> QED
  BY <1>1, <1>3, Inductive, PTL DEF Spec, ImplementsUnaryCall

=============================================================================
