--------------------------- MODULE GatewayProofs ---------------------------
(***************************************************************************)
(* Proofs about ApiGateway, the whole system, for any number of POSTs, any *)
(* faults and restarts.  The parts are not proved again: their proof       *)
(* modules are instantiated under the substitutions of ApiGateway, and     *)
(* what is shown here is that the gateway meets their assumptions and uses *)
(* them as they say they are used.                                         *)
(***************************************************************************)
EXTENDS ApiGateway, SumTheorems

SagaP == INSTANCE OrchestratorProofs WITH N <- 3

InvP == INSTANCE InventoryProofs WITH
            Calls <- InvCalls, Orders <- Runs, cache <- invCache, call <- invCall,
            Requests <- ReserveRequests

OrdP == INSTANCE OrderProofs WITH
            Orders <- Runs, Updates <- OrdUpdates, cache <- ordCache,
            Requests <- CreateRequests

PayP == INSTANCE PaymentProofs WITH
            Calls <- PayCalls, Orders <- Runs, cache <- payCache, call <- payCall,
            Charges <- ChargeRequests

-----------------------------------------------------------------------------
(* What a POST asks for on its way through the integer types.                *)

\* A conversion gives an int32, and changes no int32.
LEMMA Int32Type ==
    ASSUME NEW n \in Int
    PROVE  Int32(n) \in (-Half)..(Half - 1)
<1> DEFINE M == 2 * Half
           z == n + Half
<1>1. M \in Nat \ {0} /\ Half \in Nat /\ z \in Int /\ M = 2 * Half
  BY HalfAssumption
<1>2. z % M \in 0..(M - 1)
  <2> HIDE DEF M, z
  <2> QED
    BY <1>1
<1>3. Int32(n) = (z % M) - Half
  BY DEF Int32
<1> HIDE DEF M, z
<1> QED
  BY <1>1, <1>2, <1>3

LEMMA Int32Same ==
    ASSUME NEW n \in (-Half)..(Half - 1)
    PROVE  Int32(n) = n
<1>1. Half \in Nat /\ Half > 0
  BY HalfAssumption
<1> DEFINE m == n + Half
           M == 2 * Half
<1>2. m \in Nat /\ M \in Nat /\ M > 0 /\ m < M
  BY <1>1
<1>3. m % M = m
  <2> HIDE DEF m, M
  <2> QED
    BY <1>2
<1> QED
  BY <1>1, <1>3 DEF Int32

\* The lines of the order that a valid POST asks for: those of its body, with
\* quantities that are int32s now.
Lines(r) == CreateRequest(r).items

LEMMA CreateItems ==
    ASSUME NEW r \in Runs, Valid(r)
    PROVE  /\ CreateRequest(r).key = Body[r].key
           /\ CreateRequest(r) \in CreateRequests
           /\ Body[r].key \in Keys \cup {NoKey}
           /\ IsFiniteSet(DOMAIN Lines(r))
           /\ \A i \in DOMAIN Lines(r) :
                 /\ Lines(r)[i].qty \in (-Half)..(Half - 1) /\ Lines(r)[i].price \in Int
                 /\ Int32(Lines(r)[i].qty) = Lines(r)[i].qty
<1> DEFINE items == Body[r].items
<1>1. items \in Seq(Line) /\ Body[r].key \in Keys \cup {NoKey}
  BY BodyAssumption
<1>2. DOMAIN Lines(r) = DOMAIN items
  BY DEF Lines, CreateRequest
<1>3. ASSUME NEW i \in DOMAIN items
      PROVE  /\ Lines(r)[i].qty \in (-Half)..(Half - 1) /\ Lines(r)[i].price \in Int
             /\ Int32(Lines(r)[i].qty) = Lines(r)[i].qty
  <2>1. items[i] \in Line
    BY <1>1
  <2>2. Lines(r)[i] = [items[i] EXCEPT !.qty = Int32(@)]
    BY DEF Lines, CreateRequest
  <2>3. Lines(r)[i].qty = Int32(items[i].qty) /\ Lines(r)[i].price = items[i].price
    BY <2>1, <2>2 DEF Line
  <2>4. items[i].qty \in Int /\ items[i].price \in Int
    BY <2>1 DEF Line
  <2> QED
    BY <2>3, <2>4, Int32Type, Int32Same
<1>4. CreateRequest(r).key = Body[r].key /\ CreateRequest(r) \in CreateRequests
  BY DEF CreateRequest, CreateRequests, IdempotencyKey, Posts
<1>5. IsFiniteSet(DOMAIN items)
  <2>1. DOMAIN items = 1..Len(items) /\ Len(items) \in Nat
    BY <1>1
  <2> QED
    BY <2>1, FS_Interval
<1> QED
  BY <1>1, <1>2, <1>3, <1>4, <1>5

\* If all its quantities are int32s these are the lines of the body.
LEMMA FitsItems ==
    ASSUME NEW r \in Runs, Valid(r), Fits(r)
    PROVE  Lines(r) = Body[r].items
<1> DEFINE items == Body[r].items
<1>1. items \in Seq(Line)
  BY BodyAssumption
<1>2. ASSUME NEW i \in DOMAIN items
      PROVE  [items[i] EXCEPT !.qty = Int32(@)] = items[i]
  <2>1. items[i] \in Line
    BY <1>1
  <2>2. items[i].qty \in Int /\ items[i].qty > 0 /\ items[i].qty < Half
    BY <2>1 DEF Line, Valid, Fits
  <2>3. Int32(items[i].qty) = items[i].qty
    BY <2>2, Int32Same, HalfAssumption
  <2> QED
    BY <2>1, <2>3 DEF Line
<1>3. Lines(r) = [i \in DOMAIN items |-> items[i]]
  BY <1>2 DEF Lines, CreateRequest
<1>4. items = [i \in DOMAIN items |-> items[i]]
  BY <1>1
<1> QED
  BY <1>3, <1>4

\* The ReserveRequest for the order of POST r, and the ChargeRequest.
ReserveOf(r) == [order |-> r, key |-> Body[r].key, items |-> StockItems(Lines(r))]
ChargeOf(r)  == [order |-> r, amount |-> Ord!calculateTotal(Lines(r))]

\* Converting a second time, on the way to the inventory service, changes nothing.
LEMMA SecondConversion ==
    ASSUME NEW r \in Runs, Valid(r)
    PROVE  mapToProtoItems(Lines(r)) = StockItems(Lines(r))
  BY CreateItems DEF mapToProtoItems, StockItems

LEMMA ReserveRequestsAre ==
    /\ ReserveRequests = {ReserveOf(r) : r \in Posts}
    /\ ChargeRequests = {ChargeOf(r) : r \in Posts}
    /\ CreateRequests = {CreateRequest(r) : r \in Posts}
<1>1. ASSUME NEW r \in Posts
      PROVE  /\ [order |-> r, key |-> IdempotencyKey(r),
                 items |-> mapToProtoItems(CreateRequest(r).items)] = ReserveOf(r)
             /\ [order |-> r, amount |-> Ord!calculateTotal(CreateRequest(r).items)] = ChargeOf(r)
  <2>1. r \in Runs /\ Valid(r)
    BY DEF Posts
  <2>2. mapToProtoItems(CreateRequest(r).items) = StockItems(Lines(r))
    BY <2>1, SecondConversion DEF Lines
  <2> QED
    BY <2>2 DEF ReserveOf, ChargeOf, IdempotencyKey, Lines
<1> QED
  BY <1>1 DEF ReserveRequests, ChargeRequests, CreateRequests

\* A sum is what it is in every module that uses it.
LEMMA OneSum ==
    ASSUME NEW f
    PROVE  Ord!SumFunction(f) = SumFunctionOnSet(f, DOMAIN f)
<1>1. Ord!SumFunction(f) = Ord!SumFunctionOnSet(f, DOMAIN f)
  BY DEF Ord!SumFunction
<1>2. Ord!SumFunctionOnSet(f, DOMAIN f) = SumFunctionOnSet(f, DOMAIN f)
  BY DEF Ord!SumFunctionOnSet, SumFunctionOnSet, Ord!FoldFunctionOnSet, FoldFunctionOnSet,
         Ord!MapThenFoldSet, MapThenFoldSet
<1> QED
  BY <1>1, <1>2

\* The total of a valid POST is an integer.
LEMMA TotalIsInt ==
    ASSUME NEW r \in Runs, Valid(r)
    PROVE  Ord!calculateTotal(Lines(r)) \in Int
<1> DEFINE f == [i \in DOMAIN Lines(r) |-> Lines(r)[i].qty * Lines(r)[i].price]
           S == DOMAIN Lines(r)
<1>1. IsFiniteSet(S) /\ DOMAIN f = S
  BY CreateItems
<1>2. ASSUME NEW i \in S PROVE f[i] \in Int
  <2>1. Lines(r)[i].qty \in Int /\ Lines(r)[i].price \in Int
    BY CreateItems, HalfAssumption
  <2>2. f[i] = Lines(r)[i].qty * Lines(r)[i].price
    OBVIOUS
  <2> QED
    BY <2>1, <2>2
<1>3. Ord!calculateTotal(Lines(r)) = Ord!SumFunction(f)
  BY DEF Ord!calculateTotal
<1> HIDE DEF f, S
<1>4. SumFunctionOnSet(f, S) \in Int
  BY <1>1, <1>2, SumType
<1> QED
  BY <1>1, <1>3, <1>4, OneSum

-----------------------------------------------------------------------------
(* The parts as ApiGateway sees them and as their proofs see them are the    *)
(* same: both instances have the same substitution.                          *)

\* The engine.
LEMMA SagaSame ==
    /\ Saga!Init <=> SagaP!Init
    /\ Saga!TypeOK <=> SagaP!TypeOK
    /\ Saga!Next <=> SagaP!Next
<1>1. (Saga!Init <=> SagaP!Init) /\ (Saga!TypeOK <=> SagaP!TypeOK)
  BY DEF Saga!Init, SagaP!Init, Saga!TypeOK, SagaP!TypeOK, Saga!Step,
         SagaP!Step, Saga!Status, SagaP!Status, Saga!Error, SagaP!Error,
         Saga!Row, SagaP!Row, Saga!PC, SagaP!PC, Saga!NoStep, SagaP!NoStep
<1>2. Saga!Next <=> SagaP!Next
  BY DEF Saga!Next, SagaP!Next, Saga!Goto, SagaP!Goto, Saga!SaveLog,
         SagaP!SaveLog, Saga!Start, SagaP!Start, Saga!ExecuteCall,
         SagaP!ExecuteCall, Saga!ExecuteOk, SagaP!ExecuteOk,
         Saga!SaveStepDone, SagaP!SaveStepDone, Saga!SaveCompleted,
         SagaP!SaveCompleted, Saga!ExecuteErr, SagaP!ExecuteErr,
         Saga!RollbackFrom, SagaP!RollbackFrom, Saga!SaveCompensating,
         SagaP!SaveCompensating, Saga!CompensateCall, SagaP!CompensateCall,
         Saga!CompensateReturn, SagaP!CompensateReturn, Saga!SaveFailed,
         SagaP!SaveFailed, Saga!Ended, SagaP!Ended, Saga!Crash,
         SagaP!Crash, Saga!Advance, SagaP!Advance, Saga!NoStep,
         SagaP!NoStep, Saga!history, SagaP!history
<1> QED
  BY <1>1, <1>2

\* The inventory service.
LEMMA InvSame ==
    /\ Inv!Init <=> InvP!Init
    /\ Inv!TypeOK <=> InvP!TypeOK
    /\ Inv!Next <=> InvP!Next
    /\ Inv!Restart <=> InvP!Restart
    /\ \A c \in InvCalls :
          /\ (Inv!Handle(c) <=> InvP!Handle(c))
          /\ (Inv!Lose(c) <=> InvP!Lose(c))
          /\ (Inv!Client(c) <=> InvP!Client(c))
<1>1. (Inv!Init <=> InvP!Init) /\ (Inv!TypeOK <=> InvP!TypeOK)
  BY DEF Inv!Init, InvP!Init, Inv!TypeOK, InvP!TypeOK, Inv!Products,
         InvP!Products, Inv!Call, InvP!Call, Inv!Pc, InvP!Pc
<1>2. Inv!Next <=> InvP!Next
  BY DEF Inv!Next, InvP!Next, Inv!At, InvP!At, Inv!Reply, InvP!Reply,
         Inv!ToLock, InvP!ToLock, Inv!Reserve, InvP!Reserve,
         Inv!ReserveGet, InvP!ReserveGet, Inv!Duplicate, InvP!Duplicate,
         Inv!Available, InvP!Available, Inv!Products, InvP!Products,
         Inv!Qty, InvP!Qty, Inv!ReserveLocked, InvP!ReserveLocked,
         Inv!Release, InvP!Release, Inv!ReleaseGet, InvP!ReleaseGet,
         Inv!Deleted, InvP!Deleted, Inv!ReleaseLocked, InvP!ReleaseLocked,
         Inv!Lose, InvP!Lose, Inv!Restart, InvP!Restart, Inv!Handle,
         InvP!Handle, Inv!Client, InvP!Client, Inv!Current, InvP!Current,
         Inv!AfterRestart, InvP!AfterRestart, Inv!GenerateKey,
         InvP!GenerateKey, Inv!Int32, InvP!Int32, Inv!GetHits, InvP!GetHits, Inv!Set, InvP!Set,
         Inv!SumFunctionOnSet, InvP!SumFunctionOnSet,
         Inv!FoldFunctionOnSet, InvP!FoldFunctionOnSet, Inv!MapThenFoldSet,
         InvP!MapThenFoldSet
<1>3. /\ Inv!Restart <=> InvP!Restart
      /\ \A c \in InvCalls :
            /\ (Inv!Handle(c) <=> InvP!Handle(c))
            /\ (Inv!Lose(c) <=> InvP!Lose(c))
            /\ (Inv!Client(c) <=> InvP!Client(c))
  BY DEF Inv!At, InvP!At, Inv!Reply, InvP!Reply, Inv!ToLock, InvP!ToLock,
         Inv!Reserve, InvP!Reserve, Inv!ReserveGet, InvP!ReserveGet,
         Inv!Duplicate, InvP!Duplicate, Inv!Available, InvP!Available,
         Inv!Products, InvP!Products, Inv!Qty, InvP!Qty, Inv!ReserveLocked,
         InvP!ReserveLocked, Inv!Release, InvP!Release, Inv!ReleaseGet,
         InvP!ReleaseGet, Inv!Deleted, InvP!Deleted, Inv!ReleaseLocked,
         InvP!ReleaseLocked, Inv!Lose, InvP!Lose, Inv!Restart,
         InvP!Restart, Inv!Handle, InvP!Handle, Inv!Client, InvP!Client,
         Inv!Current, InvP!Current, Inv!AfterRestart, InvP!AfterRestart,
         Inv!GenerateKey, InvP!GenerateKey, Inv!Int32, InvP!Int32, Inv!GetHits, InvP!GetHits,
         Inv!Set, InvP!Set, Inv!SumFunctionOnSet, InvP!SumFunctionOnSet,
         Inv!FoldFunctionOnSet, InvP!FoldFunctionOnSet, Inv!MapThenFoldSet,
         InvP!MapThenFoldSet
<1> QED
  BY <1>1, <1>2, <1>3

\* The payment service.
LEMMA PaySame ==
    /\ Pay!Init <=> PayP!Init
    /\ Pay!TypeOK <=> PayP!TypeOK
    /\ Pay!Next <=> PayP!Next
    /\ Pay!Restart <=> PayP!Restart
    /\ \A c \in PayCalls :
          /\ (Pay!Handle(c) <=> PayP!Handle(c))
          /\ (Pay!Lose(c) <=> PayP!Lose(c))
          /\ (Pay!Client(c) <=> PayP!Client(c))
<1>1. (Pay!Init <=> PayP!Init) /\ (Pay!TypeOK <=> PayP!TypeOK)
  BY DEF Pay!Init, PayP!Init, Pay!TypeOK, PayP!TypeOK, Pay!Call, PayP!Call,
         Pay!Pc, PayP!Pc
<1>2. Pay!Next <=> PayP!Next
  BY DEF Pay!Next, PayP!Next, Pay!At, PayP!At, Pay!Reply, PayP!Reply,
         Pay!ToLock, PayP!ToLock, Pay!Charge, PayP!Charge, Pay!ChargeGet,
         PayP!ChargeGet, Pay!AlreadyCharged, PayP!AlreadyCharged,
         Pay!ExceedsLimit, PayP!ExceedsLimit, Pay!ChargeLocked,
         PayP!ChargeLocked, Pay!Refund, PayP!Refund, Pay!RefundGet,
         PayP!RefundGet, Pay!Deleted, PayP!Deleted, Pay!RefundLocked,
         PayP!RefundLocked, Pay!Lose, PayP!Lose, Pay!Restart, PayP!Restart,
         Pay!Handle, PayP!Handle, Pay!Client, PayP!Client, Pay!Current,
         PayP!Current, Pay!AfterRestart, PayP!AfterRestart,
         Pay!GenerateKey, PayP!GenerateKey, Pay!GetHits, PayP!GetHits,
         Pay!Set, PayP!Set, Pay!history, PayP!history
<1>3. /\ Pay!Restart <=> PayP!Restart
      /\ \A c \in PayCalls :
            /\ (Pay!Handle(c) <=> PayP!Handle(c))
            /\ (Pay!Lose(c) <=> PayP!Lose(c))
            /\ (Pay!Client(c) <=> PayP!Client(c))
  BY DEF Pay!At, PayP!At, Pay!Reply, PayP!Reply, Pay!ToLock, PayP!ToLock,
         Pay!Charge, PayP!Charge, Pay!ChargeGet, PayP!ChargeGet,
         Pay!AlreadyCharged, PayP!AlreadyCharged, Pay!ExceedsLimit,
         PayP!ExceedsLimit, Pay!ChargeLocked, PayP!ChargeLocked,
         Pay!Refund, PayP!Refund, Pay!RefundGet, PayP!RefundGet,
         Pay!Deleted, PayP!Deleted, Pay!RefundLocked, PayP!RefundLocked,
         Pay!Lose, PayP!Lose, Pay!Restart, PayP!Restart, Pay!Handle,
         PayP!Handle, Pay!Client, PayP!Client, Pay!Current, PayP!Current,
         Pay!AfterRestart, PayP!AfterRestart, Pay!GenerateKey,
         PayP!GenerateKey, Pay!GetHits, PayP!GetHits, Pay!Set, PayP!Set,
         Pay!history, PayP!history
<1> QED
  BY <1>1, <1>2, <1>3

\* The order service.
LEMMA OrdSame ==
    /\ Ord!Init <=> OrdP!Init
    /\ Ord!TypeOK <=> OrdP!TypeOK
    /\ Ord!Next <=> OrdP!Next
    /\ Ord!Restart <=> OrdP!Restart
    /\ \A r \in Runs :
          /\ (Ord!HandleCreate(r) <=> OrdP!HandleCreate(r))
          /\ (Ord!LoseCreate(r) <=> OrdP!LoseCreate(r))
    /\ \A u \in OrdUpdates :
          /\ (Ord!UpdateLocked(u) <=> OrdP!UpdateLocked(u))
          /\ (Ord!LoseUpdate(u) <=> OrdP!LoseUpdate(u))
<1>1. (Ord!Init <=> OrdP!Init) /\ (Ord!TypeOK <=> OrdP!TypeOK)
  BY DEF Ord!Init, OrdP!Init, Ord!TypeOK, OrdP!TypeOK, Ord!Status,
         OrdP!Status, Ord!calculateTotal, OrdP!calculateTotal,
         Ord!mapStatusToProto, OrdP!mapStatusToProto, Ord!OrderToProto,
         OrdP!OrderToProto, Ord!Order, OrdP!Order, Ord!Proto, OrdP!Proto,
         Ord!Create, OrdP!Create, Ord!Update, OrdP!Update, Ord!Pc, OrdP!Pc,
         Ord!SumFunction, OrdP!SumFunction, Ord!SumFunctionOnSet,
         OrdP!SumFunctionOnSet, Ord!FoldFunctionOnSet,
         OrdP!FoldFunctionOnSet, Ord!MapThenFoldSet, OrdP!MapThenFoldSet
<1>2. Ord!Next <=> OrdP!Next
  BY DEF Ord!Next, OrdP!Next, Ord!Status, OrdP!Status, Ord!calculateTotal,
         OrdP!calculateTotal, Ord!OrderFromProto, OrdP!OrderFromProto,
         Ord!mapStatusToProto, OrdP!mapStatusToProto, Ord!OrderToProto,
         OrdP!OrderToProto, Ord!CreateAt, OrdP!CreateAt, Ord!Reply,
         OrdP!Reply, Ord!CreateOrder, OrdP!CreateOrder, Ord!CreateGet,
         OrdP!CreateGet, Ord!SameKey, OrdP!SameKey, Ord!CreateLocked,
         OrdP!CreateLocked, Ord!UpdateOrderStatus, OrdP!UpdateOrderStatus,
         Ord!UpdateLocked, OrdP!UpdateLocked, Ord!LoseCreate,
         OrdP!LoseCreate, Ord!LoseUpdate, OrdP!LoseUpdate, Ord!Restart,
         OrdP!Restart, Ord!HandleCreate, OrdP!HandleCreate, Ord!Current,
         OrdP!Current, Ord!AfterRestart, OrdP!AfterRestart,
         Ord!GenerateKey, OrdP!GenerateKey, Ord!GetHits, OrdP!GetHits,
         Ord!Set, OrdP!Set, Ord!SumFunction, OrdP!SumFunction,
         Ord!SumFunctionOnSet, OrdP!SumFunctionOnSet,
         Ord!FoldFunctionOnSet, OrdP!FoldFunctionOnSet, Ord!MapThenFoldSet,
         OrdP!MapThenFoldSet
<1>3. /\ Ord!Restart <=> OrdP!Restart
      /\ \A r \in Runs :
            /\ (Ord!HandleCreate(r) <=> OrdP!HandleCreate(r))
            /\ (Ord!LoseCreate(r) <=> OrdP!LoseCreate(r))
      /\ \A u \in OrdUpdates :
            /\ (Ord!UpdateLocked(u) <=> OrdP!UpdateLocked(u))
            /\ (Ord!LoseUpdate(u) <=> OrdP!LoseUpdate(u))
  BY DEF Ord!Status, OrdP!Status, Ord!calculateTotal, OrdP!calculateTotal,
         Ord!OrderFromProto, OrdP!OrderFromProto, Ord!mapStatusToProto,
         OrdP!mapStatusToProto, Ord!OrderToProto, OrdP!OrderToProto,
         Ord!CreateAt, OrdP!CreateAt, Ord!Reply, OrdP!Reply,
         Ord!CreateOrder, OrdP!CreateOrder, Ord!CreateGet, OrdP!CreateGet,
         Ord!SameKey, OrdP!SameKey, Ord!CreateLocked, OrdP!CreateLocked,
         Ord!UpdateOrderStatus, OrdP!UpdateOrderStatus, Ord!UpdateLocked,
         OrdP!UpdateLocked, Ord!LoseCreate, OrdP!LoseCreate,
         Ord!LoseUpdate, OrdP!LoseUpdate, Ord!Restart, OrdP!Restart,
         Ord!HandleCreate, OrdP!HandleCreate, Ord!Current, OrdP!Current,
         Ord!AfterRestart, OrdP!AfterRestart, Ord!GenerateKey,
         OrdP!GenerateKey, Ord!GetHits, OrdP!GetHits, Ord!Set, OrdP!Set,
         Ord!SumFunction, OrdP!SumFunction, Ord!SumFunctionOnSet,
         OrdP!SumFunctionOnSet, Ord!FoldFunctionOnSet,
         OrdP!FoldFunctionOnSet, Ord!MapThenFoldSet, OrdP!MapThenFoldSet
<1> QED
  BY <1>1, <1>2, <1>3

\* What they compute.
LEMMA SameValues ==
    /\ Inv!Call = InvP!Call /\ Pay!Call = PayP!Call
    /\ Ord!Order = OrdP!Order /\ Ord!Proto = OrdP!Proto
    /\ Ord!Create = OrdP!Create /\ Ord!Update = OrdP!Update
    /\ \A items : Ord!calculateTotal(items) = OrdP!calculateTotal(items)
    /\ \A id : Ord!GetOrder(id) = OrdP!GetOrder(id)
<1>1. Inv!Call = InvP!Call /\ Pay!Call = PayP!Call
  BY DEF Inv!Call, InvP!Call, Pay!Call, PayP!Call, Inv!Pc, InvP!Pc, Pay!Pc, PayP!Pc
<1> QED
  BY <1>1
  DEF Ord!Order, OrdP!Order, Ord!Proto, OrdP!Proto, Ord!Create, OrdP!Create, Ord!Update,
      OrdP!Update, Ord!calculateTotal, OrdP!calculateTotal, Ord!GetOrder, OrdP!GetOrder,
      Ord!OrderToProto, OrdP!OrderToProto, Ord!mapStatusToProto, OrdP!mapStatusToProto,
      Ord!Status, OrdP!Status, Ord!Pc, OrdP!Pc, Ord!SumFunction, OrdP!SumFunction,
      Ord!SumFunctionOnSet, OrdP!SumFunctionOnSet, Ord!FoldFunctionOnSet,
      OrdP!FoldFunctionOnSet, Ord!MapThenFoldSet, OrdP!MapThenFoldSet

-----------------------------------------------------------------------------
(* The assumptions of the parts.                                             *)

\* Orchestrator: three steps.
LEMMA SagaAssumed == 3 \in Nat /\ MaxMissed \in Nat
  BY ServiceAssumption

\* InventoryService: an order is reserved with one list of items, under one key, and
\* in int32 quantities.
LEMMA InvAssumed ==
    /\ Half \in Nat \ {0}
    /\ NoKey \notin Keys /\ InvP!IsFiniteSet(Runs)
    /\ InitialStock \in [InvP!Products -> 0..(Half - 1)]
    /\ \A q \in ReserveRequests :
          /\ q.order \in Runs /\ q.key \in Keys \cup {NoKey}
          /\ InvP!IsFiniteSet(DOMAIN q.items)
          /\ \A i \in DOMAIN q.items : q.items[i].qty \in (-Half)..(Half - 1)
          /\ q # Nil
    /\ \A q1, q2 \in ReserveRequests : q1.order = q2.order => q1 = q2
    /\ Nil \notin InvP!Call
<1>1. ASSUME NEW q \in ReserveRequests
      PROVE  /\ q.order \in Runs /\ q.key \in Keys \cup {NoKey}
             /\ IsFiniteSet(DOMAIN q.items)
             /\ \A i \in DOMAIN q.items : q.items[i].qty \in (-Half)..(Half - 1)
             /\ q # Nil
  <2>1. PICK r \in Posts : q = ReserveOf(r)
    BY ReserveRequestsAre
  <2>2. r \in Runs /\ Valid(r)
    BY DEF Posts
  <2>3. /\ q.order = r /\ q.key = Body[r].key /\ DOMAIN q.items = DOMAIN Lines(r)
        /\ \A i \in DOMAIN Lines(r) : q.items[i].qty = Lines(r)[i].qty
    BY <2>1 DEF ReserveOf, StockItems
  <2>4. q # Nil
    BY NilAssumption
  <2> QED
    BY <2>2, <2>3, <2>4, CreateItems
<1>2. ASSUME NEW q1 \in ReserveRequests, NEW q2 \in ReserveRequests, q1.order = q2.order
      PROVE  q1 = q2
  BY <1>2, ReserveRequestsAre DEF ReserveOf
<1>3. \A S : InvP!IsFiniteSet(S) <=> IsFiniteSet(S)
  BY DEF InvP!IsFiniteSet, IsFiniteSet
<1>4. InitialStock \in [InvP!Products -> 0..(Half - 1)] /\ Nil \notin InvP!Call
  BY ServiceAssumption, NilAssumption, SameValues DEF InvP!Products
<1> QED
  BY <1>1, <1>2, <1>3, <1>4, BodyAssumption, HalfAssumption

\* PaymentService: an order is charged with one amount.
LEMMA PayAssumed ==
    /\ Limit \in Nat /\ Nil \notin Int
    /\ \A q \in ChargeRequests : q.order \in Runs /\ q.amount \in Int
    /\ \A q1, q2 \in ChargeRequests : q1.order = q2.order => q1 = q2
    /\ Nil \notin PayP!Call
<1>1. ASSUME NEW q \in ChargeRequests PROVE q.order \in Runs /\ q.amount \in Int
  <2>1. PICK r \in Posts : q = ChargeOf(r)
    BY ReserveRequestsAre
  <2> QED
    BY <2>1, TotalIsInt DEF ChargeOf, Posts
<1>2. ASSUME NEW q1 \in ChargeRequests, NEW q2 \in ChargeRequests, q1.order = q2.order
      PROVE  q1 = q2
  BY <1>2, ReserveRequestsAre DEF ChargeOf
<1> QED
  BY <1>1, <1>2, ServiceAssumption, NilAssumption, SameValues

\* OrderService.
LEMMA OrdAssumed ==
    /\ NoKey \notin Keys
    /\ \A q \in CreateRequests : q.key \in Keys \cup {NoKey}
    /\ Nil \notin OrdP!Order \cup OrdP!Proto \cup OrdP!Create \cup OrdP!Update
<1>1. ASSUME NEW q \in CreateRequests PROVE q.key \in Keys \cup {NoKey}
  BY CreateItems DEF CreateRequests, Posts
<1> QED
  BY <1>1, BodyAssumption, NilAssumption, SameValues

-----------------------------------------------------------------------------
(* So what is proved of a part holds of it here: its invariant is kept by every  *)
(* step that is one of its steps or leaves its variables alone.                  *)

LEMMA SagaKept == SagaP!IInv /\ (UNCHANGED sagaVars \/ Saga!Next) => SagaP!IInv'
  BY SagaAssumed, SagaSame, SagaP!NextInv DEF SagaP!vars, sagaVars

LEMMA InvKept ==
    InvP!IInv /\ InvP!CallerInv /\ (UNCHANGED invVars \/ Inv!Next)
        => InvP!IInv' /\ InvP!CallerInv'
  BY InvAssumed, InvSame, InvP!NextInv, InvP!CallerNext DEF InvP!vars, invVars

LEMMA PayKept ==
    PayP!IInv /\ PayP!CallerInv /\ (UNCHANGED payVars \/ Pay!Next)
        => PayP!IInv' /\ PayP!CallerInv'
  BY PayAssumed, PaySame, PayP!NextInv, PayP!CallerNext DEF PayP!vars, payVars

LEMMA OrdKept ==
    OrdP!IInv /\ (\A id \in Runs : OrdP!StatusInv(id)) /\ (UNCHANGED ordVars \/ Ord!Next)
        => OrdP!IInv' /\ \A id \in Runs : OrdP!StatusInv(id)'
  BY OrdAssumed, OrdSame, OrdP!NextInv, OrdP!StatusNext DEF OrdP!vars, ordVars

-----------------------------------------------------------------------------
(* The inductive invariant.  The parts' own invariants say what each service     *)
(* makes of the calls it gets; the rest ties the calls of a run to the place its *)
(* handler and its saga are at, and to the order it works on.                    *)

PartsInv ==
    /\ SagaP!IInv
    /\ InvP!IInv /\ InvP!CallerInv
    /\ PayP!IInv /\ PayP!CallerInv
    /\ OrdP!IInv /\ \A id \in Runs : OrdP!StatusInv(id)

\* The HTTP exchange: what CreateOrder was asked, and what the handler was told.
WebInv(r) ==
    /\ create[r] # Nil => create[r].req = CreateRequest(r) /\ Valid(r) /\ http[r] # "new"
    /\ told[r] # Nil <=> http[r] = "201"
    /\ told[r] # Nil => Answered(create[r]) /\ told[r] = create[r].reply
    /\ pc[r] # "new" => http[r] = "201"
    /\ r \in gone => r \in dead \/ pc[r] \in {"new", "completed", "failed"}

\* Every call of a saga is about the order its handler was told of.
CallInv(r) ==
    /\ invCall[<<r, "Reserve">>] # Nil =>
          /\ told[r] # Nil /\ invCall[<<r, "Reserve">>].op = "Reserve"
          /\ invCall[<<r, "Reserve">>].req = ReserveOf(told[r].id)
    /\ invCall[<<r, "Release">>] # Nil =>
          /\ told[r] # Nil /\ invCall[<<r, "Release">>].op = "Release"
          /\ invCall[<<r, "Release">>].order = told[r].id
    /\ payCall[<<r, "Charge">>] # Nil =>
          /\ told[r] # Nil /\ payCall[<<r, "Charge">>].op = "Charge"
          /\ payCall[<<r, "Charge">>].req = ChargeOf(told[r].id)
    /\ payCall[<<r, "Refund">>] # Nil =>
          /\ told[r] # Nil /\ payCall[<<r, "Refund">>].op = "Refund"
          /\ payCall[<<r, "Refund">>].order = told[r].id
    /\ update[<<r, "Confirm">>] # Nil =>
          /\ told[r] # Nil /\ update[<<r, "Confirm">>].id = told[r].id
          /\ update[<<r, "Confirm">>].status = "CONFIRMED"
    /\ update[<<r, "Cancel">>] # Nil =>
          /\ told[r] # Nil /\ update[<<r, "Cancel">>].id = told[r].id
          /\ update[<<r, "Cancel">>].status = "CANCELLED"

\* The call id of step j, and its record, when the saga is at step c and point p of
\* Start, and the calls in failed have failed on the gateway's side.
StepAt(j, c, p, id, failed, rec) ==
    /\ j < c \/ (j = c /\ p = "stepDone") => Answered(rec) /\ rec.ok
    /\ j = c /\ p \in {"stepFailed", "compensate", "compensating", "failed"} =>
          id \in failed \/ (Answered(rec) /\ ~rec.ok)
    /\ j > c \/ (j = c /\ p \in {"new", "execute"}) => rec = Nil

\* The same for the call that compensates it, with k the step rollback is at.
UndoAt(j, c, p, k, id, failed, rec) ==
    /\ rec # Nil => /\ j < c
                    /\ \/ p = "failed"
                       \/ p = "compensate" /\ k < j
                       \/ p = "compensating" /\ k <= j
    /\ /\ j < c
       /\ p = "failed" \/ (p \in {"compensate", "compensating"} /\ k < j)
       => id \in failed \/ Answered(rec)

StepInv(r) ==
    /\ StepAt(1, cur[r], pc[r], <<r, "Reserve">>, broken, invCall[<<r, "Reserve">>])
    /\ StepAt(2, cur[r], pc[r], <<r, "Charge">>, broken, payCall[<<r, "Charge">>])
    /\ StepAt(3, cur[r], pc[r], <<r, "Confirm">>, broken, update[<<r, "Confirm">>])
    /\ UndoAt(1, cur[r], pc[r], back[r], <<r, "Release">>, broken, invCall[<<r, "Release">>])
    /\ UndoAt(2, cur[r], pc[r], back[r], <<r, "Refund">>, broken, payCall[<<r, "Refund">>])
    /\ update[<<r, "Cancel">>] # Nil => pc[r] = "failed"

\* Only a restart makes answers old and forgets payments.
OldInv ==
    /\ "inventory" \notin restarted =>
          \A c \in InvCalls : invCall[c] # Nil => invCall[c].pc # "old"
    /\ "payment" \notin restarted =>
          /\ \A c \in PayCalls : payCall[c] # Nil => payCall[c].pc # "old"
          /\ \A o \in Runs : forgotten[o] = 0
    /\ "order" \notin restarted =>
          /\ \A r \in Runs : create[r] # Nil => create[r].pc # "old"
          /\ \A u \in OrdUpdates : update[u] # Nil => update[u].pc # "old"

\* An update that found no order, or was answered before a restart, is about an
\* order that a restart has lost.
LateInv(u) ==
    update[u] # Nil /\ (update[u].pc = "old" \/ (update[u].pc = "done" /\ ~update[u].ok))
        => create[update[u].id].pc = "old"

\* What was given back stays given back, unless the POST is repeated.
GivenBack(r) ==
    Alone(r) => /\ InvP!Released(r) => reservations[r] = Nil
                /\ PayP!Refunded(r) => payments[r] = Nil

GInv ==
    /\ PartsInv
    /\ http \in [Runs -> {"new", "creating", "201", "400", "502"}]
    /\ told \in [Runs -> Ord!Proto \cup {Nil}]
    /\ broken \subseteq InvCalls \cup PayCalls \cup OrdUpdates \cup (Runs \X {"Create"})
    /\ gone \subseteq Runs /\ restarts \in [Services -> Nat]
    /\ \A r \in Runs : WebInv(r) /\ CallInv(r) /\ StepInv(r) /\ GivenBack(r)
    /\ OldInv
    /\ \A u \in OrdUpdates : LateInv(u)

-----------------------------------------------------------------------------
(* What a run knows of its order.                                              *)

\* mapProtoOrderToEntity loses nothing of an answer.
LEMMA EntityIsProto ==
    ASSUME NEW po \in Ord!Proto
    PROVE  mapProtoOrderToEntity(po) = po /\ mapOrderToResponse(po) = po /\ po # Nil
<1>1. PICK o \in Ord!Order : po = Ord!OrderToProto(o)
  BY DEF Ord!Proto
<1>2. po = [id |-> o.id, items |-> o.items, total |-> o.total,
            status |-> Ord!mapStatusToProto(o.status)]
  BY <1>1 DEF Ord!OrderToProto
<1> QED
  BY <1>2, NilAssumption DEF mapProtoOrderToEntity, mapOrderToResponse

\* An answered CreateOrder call has an answer.
LEMMA AnswerIsProto ==
    ASSUME OrdP!TypeOK, NEW r \in Runs, Answered(create[r])
    PROVE  create[r].reply \in Ord!Proto /\ create[r].reply # Nil
<1>1. create[r] \in OrdP!Create
  BY DEF OrdP!TypeOK, Answered
<1> QED
  BY <1>1, SameValues, NilAssumption DEF OrdP!Create, Answered

\* The order r was told of is that of a valid POST with the key of r, has the lines
\* and the total of that POST, and is r's own if there is no key.
LEMMA ToldFacts ==
    ASSUME OrdP!IInv, \A x \in Runs : WebInv(x), NEW r \in Runs, told[r] # Nil
    PROVE  /\ told[r].id \in Runs /\ Valid(told[r].id) /\ told[r].id \in Posts
           /\ Answered(create[told[r].id]) /\ http[told[r].id] # "new"
           /\ create[told[r].id].pc = "done" => orders[told[r].id] # Nil
           /\ told[r].items = Lines(told[r].id)
           /\ told[r].total = Ord!calculateTotal(Lines(told[r].id))
           /\ Body[told[r].id].key = Body[r].key
           /\ Body[r].key = NoKey => told[r].id = r
           /\ ReserveRequest(r) = ReserveOf(told[r].id)
           /\ ChargeRequest(r) = ChargeOf(told[r].id)
           /\ ReserveRequest(r) \in ReserveRequests /\ ChargeRequest(r) \in ChargeRequests
<1>1. Answered(create[r]) /\ told[r] = create[r].reply /\ create[r] # Nil /\ OrdP!TypeOK
  BY DEF WebInv, Answered, OrdP!IInv
<1>2. create[r].reply # Nil
  BY <1>1, AnswerIsProto
<1> DEFINE o == told[r].id
<1>3. /\ o \in Runs /\ OrdP!Made(told[r])
      /\ create[o].req.key = create[r].req.key
      /\ create[r].req.key = NoKey => o = r
  BY <1>1, <1>2 DEF OrdP!IInv, OrdP!ReplyIsMade
<1>4. /\ create[o] # Nil /\ Answered(create[o])
      /\ told[r].items = create[o].req.items
      /\ told[r].total = OrdP!calculateTotal(told[r].items)
      /\ create[o].pc = "done" => orders[o] # Nil
  BY <1>3 DEF OrdP!Made, Answered
<1>5. /\ create[o].req = CreateRequest(o) /\ Valid(o) /\ http[o] # "new"
      /\ create[r].req = CreateRequest(r) /\ Valid(r)
  BY <1>1, <1>3, <1>4 DEF WebInv
<1>6. /\ CreateRequest(o).items = Lines(o) /\ CreateRequest(o).key = Body[o].key
      /\ CreateRequest(r).key = Body[r].key
  BY <1>3, <1>5, CreateItems DEF Lines
<1>7. told[r].items = Lines(o) /\ told[r].total = Ord!calculateTotal(Lines(o))
  BY <1>4, <1>5, <1>6, SameValues
<1>8. ReserveRequest(r) = ReserveOf(o)
  <2>1. mapToProtoItems(Lines(o)) = StockItems(Lines(o))
    BY <1>3, <1>5, SecondConversion
  <2> QED
    BY <1>3, <1>5, <1>6, <1>7, <2>1 DEF ReserveRequest, ReserveOf, IdempotencyKey
<1>9. ChargeRequest(r) = ChargeOf(o)
  BY <1>7 DEF ChargeRequest, ChargeOf
<1>10. o \in Posts
  BY <1>3, <1>5 DEF Posts
<1>11. ReserveRequest(r) \in ReserveRequests /\ ChargeRequest(r) \in ChargeRequests
  BY <1>8, <1>9, <1>10, ReserveRequestsAre
<1> QED
  BY <1>3, <1>4, <1>5, <1>6, <1>7, <1>8, <1>9, <1>10, <1>11

\* Nobody but r works on an order that was made without a key.
LEMMA NoKeyOwn ==
    ASSUME OrdP!IInv, \A x \in Runs : WebInv(x), NEW r \in Runs, NEW q \in Runs,
           told[r] # Nil, told[q] # Nil, told[q].id = told[r].id, Body[r].key = NoKey
    PROVE  q = r
  BY ToldFacts

-----------------------------------------------------------------------------
(* The gateway uses its parts as they say they are used.                       *)

AsSpecified ==
    /\ UNCHANGED sagaVars \/ Saga!Next
    /\ UNCHANGED invVars \/ Inv!Next
    /\ UNCHANGED payVars \/ Pay!Next
    /\ UNCHANGED ordVars \/ Ord!Next

\* A run that has begun, or has failed, knows its order.
LEMMA BegunIsTold ==
    ASSUME NEW r \in Runs, WebInv(r), pc[r] # "new"
    PROVE  told[r] # Nil
  BY DEF WebInv

LEMMA ExecuteCallParts ==
    ASSUME GInv, NEW r \in Runs, ExecuteCall(r)
    PROVE  AsSpecified
<1>1. told[r] # Nil
  <2>1. pc[r] = "execute"
    BY DEF ExecuteCall, Saga!ExecuteCall, Saga!Goto
  <2> QED
    BY <2>1, BegunIsTold DEF GInv
<1>2. Saga!Next
  BY DEF ExecuteCall, Saga!Next, Saga!Advance
<1>3. told[r].id \in Runs /\ ReserveRequest(r) \in ReserveRequests /\ ChargeRequest(r) \in ChargeRequests
      /\ ReserveRequest(r) = ReserveOf(told[r].id) /\ Body[told[r].id].key = Body[r].key
  BY <1>1, ToldFacts DEF GInv, PartsInv
<1>4. ASSUME Inv!Reserve(<<r, "Reserve">>, ReserveRequest(r)) PROVE Inv!Next
  <2>1. ASSUME ReserveRequest(r).key = NoKey, NEW d \in InvCalls, invCall[d] # Nil,
               invCall[d].op = "Reserve", invCall[d].req = ReserveRequest(r)
        PROVE  FALSE
    <3>1. PICK q \in Runs, x \in {"Reserve", "Release"} : d = <<q, x>>
      BY DEF InvCalls
    <3>2. x = "Reserve" /\ told[q] # Nil /\ invCall[d].req = ReserveOf(told[q].id)
      BY <2>1, <3>1 DEF GInv, CallInv
    <3>3. told[q].id = told[r].id /\ Body[r].key = NoKey
      BY <1>3, <2>1, <3>2 DEF ReserveOf
    <3>4. q = r
      BY <1>1, <3>2, <3>3, NoKeyOwn DEF GInv, PartsInv
    <3>5. invCall[<<r, "Reserve">>] = Nil
      BY <1>4 DEF Inv!Reserve
    <3> QED
      BY <2>1, <3>1, <3>2, <3>4, <3>5
  <2>2. <<r, "Reserve">> \in InvCalls
    BY DEF InvCalls
  <2>3. Inv!Client(<<r, "Reserve">>)
    BY <1>3, <1>4, <2>1 DEF Inv!Client
  <2> QED
    BY <2>2, <2>3 DEF Inv!Next
<1>5. ASSUME Pay!Charge(<<r, "Charge">>, ChargeRequest(r)) PROVE Pay!Next
  <2>1. <<r, "Charge">> \in PayCalls
    BY DEF PayCalls
  <2> QED
    BY <1>3, <1>5, <2>1 DEF Pay!Next, Pay!Client
<1>6. ASSUME Ord!UpdateOrderStatus(<<r, "Confirm">>, told[r].id, "CONFIRMED") PROVE Ord!Next
  <2>1. <<r, "Confirm">> \in OrdUpdates /\ "CONFIRMED" \in Ord!Status
    BY DEF OrdUpdates, Ord!Status
  <2> QED
    BY <1>3, <1>6, <2>1 DEF Ord!Next
<1> QED
  BY <1>2, <1>4, <1>5, <1>6 DEF ExecuteCall, AsSpecified

LEMMA CompensateCallParts ==
    ASSUME GInv, NEW r \in Runs, CompensateCall(r)
    PROVE  AsSpecified
<1>1. told[r] # Nil
  <2>1. pc[r] = "compensate"
    BY DEF CompensateCall, Saga!CompensateCall, Saga!Goto
  <2> QED
    BY <2>1, BegunIsTold DEF GInv
<1>2. Saga!Next
  BY DEF CompensateCall, Saga!Next, Saga!Advance
<1>3. told[r].id \in Runs
  BY <1>1, ToldFacts DEF GInv, PartsInv
<1>4. Inv!Release(<<r, "Release">>, told[r].id) => Inv!Next
  <2>1. <<r, "Release">> \in InvCalls
    BY DEF InvCalls
  <2> QED
    BY <1>3, <2>1 DEF Inv!Next, Inv!Client
<1>5. Pay!Refund(<<r, "Refund">>, told[r].id) => Pay!Next
  <2>1. <<r, "Refund">> \in PayCalls
    BY DEF PayCalls
  <2> QED
    BY <1>3, <2>1 DEF Pay!Next, Pay!Client
<1> QED
  BY <1>2, <1>4, <1>5 DEF CompensateCall, AsSpecified

LEMMA CancelCallParts ==
    ASSUME GInv, NEW r \in Runs, CancelCall(r)
    PROVE  AsSpecified
<1>1. told[r] # Nil
  BY BegunIsTold DEF GInv, CancelCall, MustCancel
<1>2. told[r].id \in Runs
  BY <1>1, ToldFacts DEF GInv, PartsInv
<1>3. <<r, "Cancel">> \in OrdUpdates /\ "CANCELLED" \in Ord!Status
  BY DEF OrdUpdates, Ord!Status
<1>4. Ord!Next
  BY <1>2, <1>3 DEF CancelCall, Ord!Next
<1> QED
  BY <1>4 DEF CancelCall, AsSpecified

LEMMA PostOrderParts ==
    ASSUME NEW r \in Runs, PostOrder(r)
    PROVE  AsSpecified
<1>1. CASE Valid(r)
  <2>1. CreateRequest(r) \in CreateRequests
    BY <1>1, CreateItems
  <2>2. Ord!Next
    BY <1>1, <2>1 DEF PostOrder, Ord!Next
  <2> QED
    BY <2>2 DEF PostOrder, AsSpecified
<1>2. CASE ~Valid(r)
  BY <1>2 DEF PostOrder, AsSpecified
<1> QED
  BY <1>1, <1>2

\* The steps of the gateway that make no call.
LEMMA QuietParts ==
    ASSUME NEW r \in Runs,
           \/ CreateReturned(r) \/ CreateFailed(r) \/ CancelRpcError(r)
           \/ SagaStart(r) \/ SagaSave(r) \/ ExecuteReturn(r) \/ ExecuteRpcError(r)
           \/ CompensateReturn(r) \/ CompensateRpcError(r)
    PROVE  AsSpecified
<1>1. CASE CreateReturned(r) \/ CreateFailed(r) \/ CancelRpcError(r)
  BY <1>1 DEF CreateReturned, CreateFailed, CancelRpcError, AsSpecified
<1>2. CASE SagaStart(r) \/ SagaSave(r)
  BY <1>2 DEF SagaStart, SagaSave, AsSpecified, Saga!Next, Saga!Advance
<1>3. CASE ExecuteReturn(r) \/ ExecuteRpcError(r)
  BY <1>3 DEF ExecuteReturn, ExecuteRpcError, AsSpecified, Saga!Next, Saga!Advance
<1>4. CASE CompensateReturn(r) \/ CompensateRpcError(r)
  BY <1>4 DEF CompensateReturn, CompensateRpcError, AsSpecified, Saga!Next, Saga!Advance
<1> QED
  BY <1>1, <1>2, <1>3, <1>4

LEMMA ServerParts ==
    ASSUME Serve \/ Lose \/ \E s \in Services : Restart(s)
    PROVE  AsSpecified
<1>1. CASE Serve
  BY <1>1 DEF Serve, AsSpecified, Inv!Next, Pay!Next, Ord!Next
<1>2. CASE Lose
  BY <1>2 DEF Lose, AsSpecified, Inv!Next, Pay!Next, Ord!Next
<1>3. ASSUME NEW s \in Services, Restart(s) PROVE AsSpecified
  BY <1>3 DEF Restart, AsSpecified, Inv!Next, Pay!Next, Ord!Next
<1> QED
  BY <1>1, <1>2, <1>3

\* The sagas that a crash of the gateway ends are those of its process: the POSTs
\* under way, and no others.
LEMMA CrashParts ==
    ASSUME GInv, Crash
    PROVE  AsSpecified
<1> DEFINE Alive == {r \in Runs : pc[r] # "new" /\ ~Saga!Ended(r)}
           Hit   == {r \in UnderWay : pc[r] # "new" /\ ~Saga!Ended(r)}
<1>1. dead' = dead \cup Hit
  BY DEF Crash
<1>2. Hit \subseteq Alive
  BY DEF UnderWay
<1>3. ASSUME NEW r \in Alive PROVE r \in dead \/ r \in Hit
  <2>1. http[r] = "201" /\ pc[r] \notin {"completed", "failed"}
    BY DEF GInv, WebInv, Saga!Ended
  <2>2. ~Finished(r)
    BY <2>1 DEF Finished
  <2>3. r \notin gone => r \in UnderWay
    BY <2>1, <2>2 DEF UnderWay
  <2>4. r \in gone => r \in dead
    BY <2>1 DEF GInv, WebInv
  <2> QED
    BY <2>3, <2>4
<1>4. dead \cup Hit = dead \cup Alive
  BY <1>2, <1>3
<1>5. CASE Alive \subseteq dead
  <2>1. dead' = dead
    BY <1>1, <1>4, <1>5
  <2>2. UNCHANGED sagaVars
    BY <2>1 DEF Crash, sagaVars
  <2> QED
    BY <2>2 DEF Crash, AsSpecified
<1>6. CASE ~(Alive \subseteq dead)
  <2>1. \E r \in Runs \ dead : pc[r] # "new" /\ ~Saga!Ended(r)
    BY <1>6
  <2>2. dead' = dead \cup Alive
    BY <1>1, <1>4
  <2>3. Saga!Crash
    BY <2>1, <2>2 DEF Crash, Saga!Crash, Saga!history
  <2> QED
    BY <2>3 DEF Crash, AsSpecified, Saga!Next
<1> QED
  BY <1>5, <1>6

\* Every step of the system is a step of each part or leaves it alone.
LEMMA StepParts ==
    ASSUME GInv, [Next]_vars
    PROVE  AsSpecified
<1>1. CASE UNCHANGED vars
  BY <1>1 DEF vars, AsSpecified
<1>2. ASSUME NEW r \in Runs, PostOrder(r) \/ Gateway(r) \/ Fault(r) PROVE AsSpecified
  BY <1>2, PostOrderParts, ExecuteCallParts, CompensateCallParts, CancelCallParts, QuietParts
  DEF Gateway, Fault
<1> QED
  BY <1>1, <1>2, ServerParts, CrashParts DEF Next

\* So the invariants of the parts are kept.
LEMMA PartsKept ==
    ASSUME GInv, [Next]_vars
    PROVE  PartsInv'
<1>1. AsSpecified
  BY StepParts
<1>2. SagaP!IInv'
  BY <1>1, SagaKept DEF GInv, PartsInv, AsSpecified
<1>3. InvP!IInv' /\ InvP!CallerInv'
  BY <1>1, InvKept DEF GInv, PartsInv, AsSpecified
<1>4. PayP!IInv' /\ PayP!CallerInv'
  BY <1>1, PayKept DEF GInv, PartsInv, AsSpecified
<1>5. OrdP!IInv' /\ \A id \in Runs : OrdP!StatusInv(id)'
  BY <1>1, OrdKept DEF GInv, PartsInv, AsSpecified
<1> QED
  BY <1>2, <1>3, <1>4, <1>5 DEF PartsInv

-----------------------------------------------------------------------------
(* What the steps do to the calls: the ones already made are only moved on by    *)
(* their servers.                                                                *)

CallsMove ==
    /\ \A c \in InvCalls : InvP!OnlyMoves(c)
    /\ \A c \in PayCalls : PayP!OnlyMoves(c)
    /\ \A r \in Runs : OrdP!OnlyMoves(r)
    /\ \A u \in OrdUpdates : OrdP!OnlyMovesUpdate(u)

LEMMA InvCallsSame ==
    ASSUME UNCHANGED invCall, NEW c \in InvCalls, InvP!TypeOK
    PROVE  InvP!OnlyMoves(c)
<1>1. invCall[c] # Nil => invCall[c].pc \in InvP!Pc
  BY DEF InvP!TypeOK, InvP!Call
<1> QED
  BY <1>1 DEF InvP!OnlyMoves, InvP!KeepsRequest, InvP!Answered, InvP!Pc

LEMMA PayCallsSame ==
    ASSUME UNCHANGED payCall, NEW c \in PayCalls
    PROVE  PayP!OnlyMoves(c)
  BY DEF PayP!OnlyMoves, PayP!KeepsRequest, PayP!Answered

LEMMA CreatesSame ==
    ASSUME UNCHANGED create, NEW r \in Runs
    PROVE  OrdP!OnlyMoves(r)
  BY DEF OrdP!OnlyMoves

LEMMA UpdatesSame ==
    ASSUME UNCHANGED update, NEW u \in OrdUpdates
    PROVE  OrdP!OnlyMovesUpdate(u)
  BY DEF OrdP!OnlyMovesUpdate, OrdP!Answered

\* A step of the servers or of the network.
LEMMA ServerMoves ==
    ASSUME GInv, Serve \/ Lose \/ \E s \in Services : Restart(s)
    PROVE  CallsMove /\ UNCHANGED <<webVars, sagaVars, broken>>
<1>1. UNCHANGED <<webVars, sagaVars, broken>>
  BY DEF Serve, Lose, Restart, netVars
<1>2. InvP!TypeOK /\ PayP!TypeOK /\ OrdP!IInv
  BY DEF GInv, PartsInv, InvP!IInv, PayP!IInv
<1>3. /\ UNCHANGED invVars \/ InvP!Restart \/ \E c \in InvCalls : InvP!Handle(c) \/ InvP!Lose(c)
      /\ UNCHANGED payVars \/ PayP!Restart \/ \E c \in PayCalls : PayP!Handle(c) \/ PayP!Lose(c)
      /\ UNCHANGED ordVars \/ OrdP!Server
  <2>1. CASE Serve
    BY <2>1, InvSame, PaySame, OrdSame DEF Serve, OrdP!Server
  <2>2. CASE Lose
    BY <2>2, InvSame, PaySame, OrdSame DEF Lose, OrdP!Server
  <2>3. ASSUME NEW s \in Services, Restart(s)
        PROVE  /\ UNCHANGED invVars \/ InvP!Restart
               /\ UNCHANGED payVars \/ PayP!Restart
               /\ UNCHANGED ordVars \/ OrdP!Server
    BY <2>3, InvSame, PaySame, OrdSame DEF Restart, OrdP!Server
  <2> QED
    BY <2>1, <2>2, <2>3
<1>4. ASSUME NEW c \in InvCalls PROVE InvP!OnlyMoves(c)
  <2>1. CASE UNCHANGED invVars
    BY <1>2, <2>1, InvCallsSame DEF invVars
  <2>2. CASE InvP!Restart \/ \E d \in InvCalls : InvP!Handle(d) \/ InvP!Lose(d)
    BY <1>2, <2>2, InvAssumed, InvP!ServerMoves
  <2> QED
    BY <1>3, <2>1, <2>2
<1>5. ASSUME NEW c \in PayCalls PROVE PayP!OnlyMoves(c)
  <2>1. CASE UNCHANGED payVars
    BY <2>1, PayCallsSame DEF payVars
  <2>2. CASE PayP!Restart \/ \E d \in PayCalls : PayP!Handle(d) \/ PayP!Lose(d)
    BY <1>2, <2>2, PayAssumed, PayP!ServerMoves
  <2> QED
    BY <1>3, <2>1, <2>2
<1>6. (\A r \in Runs : OrdP!OnlyMoves(r)) /\ \A u \in OrdUpdates : OrdP!OnlyMovesUpdate(u)
  <2>1. CASE UNCHANGED ordVars
    BY <2>1, CreatesSame, UpdatesSame DEF ordVars
  <2>2. CASE OrdP!Server
    BY <1>2, <2>2, OrdAssumed, OrdP!ServerMoves
  <2> QED
    BY <1>3, <2>1, <2>2
<1> QED
  BY <1>1, <1>4, <1>5, <1>6 DEF CallsMove

\* The steps of the saga of run q.
SagaStep(q) ==
    \/ SagaStart(q) \/ SagaSave(q) \/ ExecuteCall(q) \/ ExecuteReturn(q) \/ ExecuteRpcError(q)
    \/ CompensateCall(q) \/ CompensateReturn(q) \/ CompensateRpcError(q)

\* A saga step is taken by a live goroutine and is about one run.
LEMMA SagaMoves ==
    ASSUME SagaP!IInv, NEW q \in Runs, SagaStep(q)
    PROVE  /\ UNCHANGED <<webVars, restarts, dead, orders, ordCache, create>>
           /\ q \notin dead /\ pc[q] \notin {"completed", "failed"} /\ pc'[q] # "new"
           /\ pc[q] = "new" => q \notin gone /\ http[q] = "201"
           /\ \A x \in Runs \ {q} : pc'[x] = pc[x] /\ cur'[x] = cur[x] /\ back'[x] = back[x]
           /\ broken \subseteq broken'
<1>1. pc \in [Runs -> SagaP!PC] /\ cur \in [Runs -> 1..4] /\ back \in [Runs -> 0..3]
  BY DEF SagaP!IInv, SagaP!TypeOK
<1>2. CASE SagaStart(q)
  BY <1>1, <1>2 DEF SagaStart, Saga!Start, Saga!Goto, netVars, ordVars
<1>3. CASE SagaSave(q)
  BY <1>1, <1>3 DEF SagaSave, Saga!SaveStepDone, Saga!SaveCompleted, Saga!SaveCompensating,
                    Saga!SaveFailed, Saga!Goto, netVars, ordVars
<1>4. CASE ExecuteCall(q)
  BY <1>1, <1>4 DEF ExecuteCall, Saga!ExecuteCall, Saga!Goto, netVars, ordVars,
                    Ord!UpdateOrderStatus
<1>5. CASE ExecuteReturn(q) \/ ExecuteRpcError(q)
  BY <1>1, <1>5 DEF ExecuteReturn, ExecuteRpcError, RpcError, Saga!ExecuteOk, Saga!ExecuteErr,
                    Saga!Goto, netVars, ordVars
<1>6. CASE CompensateCall(q)
  BY <1>1, <1>6 DEF CompensateCall, Saga!CompensateCall, Saga!Goto, netVars, ordVars
<1>7. CASE CompensateReturn(q) \/ CompensateRpcError(q)
  BY <1>1, <1>7 DEF CompensateReturn, CompensateRpcError, RpcError, Saga!CompensateReturn,
                    Saga!Goto, netVars, ordVars
<1> QED
  BY <1>2, <1>3, <1>4, <1>5, <1>6, <1>7 DEF SagaStep

-----------------------------------------------------------------------------
(* The HTTP exchange.                                                          *)

LEMMA WebStays ==
    ASSUME NEW r \in Runs, WebInv(r), http'[r] = http[r], told'[r] = told[r], OrdP!OnlyMoves(r),
           pc'[r] # "new" => pc[r] # "new" \/ http[r] = "201",
           r \in gone' => r \in dead' \/ pc'[r] \in {"new", "completed", "failed"}
    PROVE  WebInv(r)'
  BY DEF WebInv, Answered, OrdP!OnlyMoves

LEMMA WebKept ==
    ASSUME GInv, [Next]_vars, NEW r \in Runs
    PROVE  WebInv(r)'
<1>1. /\ WebInv(r) /\ http \in [Runs -> {"new", "creating", "201", "400", "502"}]
      /\ told \in [Runs -> Ord!Proto \cup {Nil}] /\ SagaP!IInv /\ OrdP!IInv
      /\ OrdP!TypeOK
  BY DEF GInv, PartsInv, OrdP!IInv
<1>2. ASSUME NEW q \in Runs, PostOrder(q) PROVE WebInv(r)'
  <2>1. UNCHANGED <<told, gone, sagaVars>> /\ http[q] = "new"
    BY <1>2 DEF PostOrder
  <2>2. CASE q # r
    <3>1. http'[r] = http[r]
      BY <1>1, <1>2, <2>2 DEF PostOrder
    <3>2. create'[r] = create[r]
      BY <1>1, <1>2, <2>2 DEF PostOrder, Ord!CreateOrder, ordVars, OrdP!TypeOK
    <3>3. OrdP!OnlyMoves(r)
      BY <3>2 DEF OrdP!OnlyMoves
    <3> QED
      BY <1>1, <2>1, <3>1, <3>3, WebStays DEF WebInv, sagaVars
  <2>3. CASE q = r
    <3>1. told[r] = Nil /\ pc[r] = "new" /\ create[r] = Nil
      BY <1>1, <2>1, <2>3 DEF WebInv
    <3>2. http'[r] \in {"creating", "400"}
      BY <1>1, <1>2, <2>3 DEF PostOrder
    <3>3. create'[r] # Nil => create'[r].req = CreateRequest(r) /\ Valid(r)
      BY <1>1, <1>2, <2>3, <3>1 DEF PostOrder, Ord!CreateOrder, ordVars, OrdP!TypeOK
    <3> QED
      BY <2>1, <3>1, <3>2, <3>3 DEF WebInv, sagaVars
  <2> QED
    BY <2>2, <2>3
<1>3. ASSUME NEW q \in Runs, CreateReturned(q) \/ CreateFailed(q) PROVE WebInv(r)'
  <2>1. /\ UNCHANGED <<gone, sagaVars, create>> /\ http[q] = "creating"
    BY <1>3 DEF CreateReturned, CreateFailed, ordVars
  <2>2. OrdP!OnlyMoves(r)
    BY <2>1, CreatesSame
  <2>3. CASE q # r
    <3>1. http'[r] = http[r] /\ told'[r] = told[r]
      BY <1>1, <1>3, <2>3 DEF CreateReturned, CreateFailed
    <3> QED
      BY <1>1, <2>1, <2>2, <3>1, WebStays DEF WebInv, sagaVars
  <2>4. CASE q = r /\ CreateFailed(q)
    <3>1. told'[r] = told[r] /\ told[r] = Nil /\ http'[r] = "502" /\ pc[r] = "new"
      BY <1>1, <2>1, <2>4 DEF CreateFailed, WebInv
    <3> QED
      BY <1>1, <2>1, <3>1 DEF WebInv, sagaVars
  <2>5. CASE q = r /\ CreateReturned(q)
    <3>1. Answered(create[r]) /\ create[r].reply \in Ord!Proto
      BY <1>1, <2>5, AnswerIsProto DEF CreateReturned
    <3>2. told'[r] = create[r].reply /\ http'[r] = "201" /\ told'[r] # Nil
      BY <1>1, <2>5, <3>1, EntityIsProto DEF CreateReturned
    <3> QED
      BY <1>1, <2>1, <3>1, <3>2 DEF WebInv, sagaVars, Answered
  <2> QED
    BY <1>3, <2>3, <2>4, <2>5
<1>4. ASSUME NEW q \in Runs, CancelCall(q) \/ CancelRpcError(q) PROVE WebInv(r)'
  <2>1. UNCHANGED <<webVars, sagaVars, create>>
    BY <1>4 DEF CancelCall, CancelRpcError, Ord!UpdateOrderStatus, ordVars
  <2> QED
    BY <1>1, <2>1, CreatesSame, WebStays DEF WebInv, webVars, sagaVars
<1>5. ASSUME NEW q \in Runs, SagaStep(q) PROVE WebInv(r)'
  <2>1. UNCHANGED <<webVars, dead, create>>
    BY <1>1, <1>5, SagaMoves
  <2>2. pc'[r] # "new" => pc[r] # "new" \/ http[r] = "201"
    BY <1>1, <1>5, SagaMoves
  <2>3. r \in gone => r \in dead \/ pc'[r] \in {"new", "completed", "failed"}
    <3>1. CASE r = q
      BY <1>1, <1>5, <3>1, SagaMoves DEF WebInv
    <3>2. CASE r # q
      BY <1>1, <1>5, <3>2, SagaMoves DEF WebInv
    <3> QED
      BY <3>1, <3>2
  <2> QED
    BY <1>1, <2>1, <2>2, <2>3, CreatesSame, WebStays DEF webVars
<1>6. CASE Serve \/ Lose \/ \E s \in Services : Restart(s)
  BY <1>1, <1>6, ServerMoves, WebStays DEF CallsMove, webVars, sagaVars, WebInv
<1>7. CASE Crash
  <2>1. UNCHANGED <<http, told, create, pc>>
    BY <1>7 DEF Crash, ordVars
  <2>2. r \in gone' => r \in dead' \/ pc'[r] \in {"new", "completed", "failed"}
    BY <1>1, <1>7 DEF Crash, WebInv, Saga!Ended
  <2> QED
    BY <1>1, <2>1, <2>2, CreatesSame, WebStays
<1>8. CASE UNCHANGED vars
  BY <1>1, <1>8, CreatesSame, WebStays DEF vars, webVars, sagaVars, ordVars, WebInv
<1> QED
  BY <1>2, <1>3, <1>4, <1>5, <1>6, <1>7, <1>8 DEF Next, Gateway, Fault, SagaStep

-----------------------------------------------------------------------------
(* The calls of a saga.                                                        *)

\* The three calls of Execute: which one is made, and what it says.
ExecuteMade(q) ==
    /\ told[q] # Nil /\ pc[q] = "execute" /\ pc'[q] = "executing"
    /\ UNCHANGED <<webVars, netVars, cur, back, create, orders, ordCache, reservations, payments,
                   forgotten>>
    /\ \A c \in InvCalls \ {<<q, "Reserve">>} : invCall'[c] = invCall[c]
    /\ \A c \in PayCalls \ {<<q, "Charge">>} : payCall'[c] = payCall[c]
    /\ \A u \in OrdUpdates \ {<<q, "Confirm">>} : update'[u] = update[u]
    /\ \/ /\ cur[q] = 1 /\ UNCHANGED <<payCall, update>>
          /\ invCall[<<q, "Reserve">>] = Nil
          /\ invCall'[<<q, "Reserve">>] =
                [op |-> "Reserve", req |-> ReserveOf(told[q].id), pc |-> "get", ok |-> FALSE]
       \/ /\ cur[q] = 2 /\ UNCHANGED <<invCall, update>>
          /\ payCall[<<q, "Charge">>] = Nil
          /\ payCall'[<<q, "Charge">>] =
                [op |-> "Charge", req |-> ChargeOf(told[q].id), pc |-> "get", ok |-> FALSE]
       \/ /\ cur[q] = 3 /\ UNCHANGED <<invCall, payCall>>
          /\ update[<<q, "Confirm">>] = Nil
          /\ update'[<<q, "Confirm">>] =
                [id |-> told[q].id, status |-> "CONFIRMED", pc |-> "lock", ok |-> FALSE]

LEMMA ExecuteMakes ==
    ASSUME GInv, NEW q \in Runs, ExecuteCall(q)
    PROVE  ExecuteMade(q)
<1>1. /\ InvP!TypeOK /\ PayP!TypeOK /\ OrdP!TypeOK /\ SagaP!TypeOK
      /\ <<q, "Reserve">> \in InvCalls /\ <<q, "Charge">> \in PayCalls
      /\ <<q, "Confirm">> \in OrdUpdates
  BY DEF GInv, PartsInv, InvP!IInv, PayP!IInv, OrdP!IInv, SagaP!IInv, InvCalls, PayCalls, OrdUpdates
<1>2. /\ pc[q] = "execute" /\ pc'[q] = "executing"
      /\ UNCHANGED <<webVars, netVars, cur, back, create, orders, ordCache>>
  BY <1>1 DEF ExecuteCall, Saga!ExecuteCall, Saga!Goto, SagaP!TypeOK, ordVars, Ord!UpdateOrderStatus
<1>3. told[q] # Nil
  BY <1>2, BegunIsTold DEF GInv
<1>4. ReserveRequest(q) = ReserveOf(told[q].id) /\ ChargeRequest(q) = ChargeOf(told[q].id)
  BY <1>3, ToldFacts DEF GInv, PartsInv
<1>5. CASE cur[q] = 1 /\ Inv!Reserve(<<q, "Reserve">>, ReserveRequest(q)) /\ UNCHANGED <<payVars, ordVars>>
  BY <1>1, <1>2, <1>3, <1>4, <1>5 DEF Inv!Reserve, InvP!TypeOK, payVars, ordVars, ExecuteMade
<1>6. CASE cur[q] = 2 /\ Pay!Charge(<<q, "Charge">>, ChargeRequest(q)) /\ UNCHANGED <<invVars, ordVars>>
  BY <1>1, <1>2, <1>3, <1>4, <1>6 DEF Pay!Charge, Pay!history, PayP!TypeOK, invVars, ordVars, ExecuteMade
<1>7. CASE /\ cur[q] = 3 /\ Ord!UpdateOrderStatus(<<q, "Confirm">>, told[q].id, "CONFIRMED")
           /\ UNCHANGED <<invVars, payVars>>
  BY <1>1, <1>2, <1>3, <1>7 DEF Ord!UpdateOrderStatus, OrdP!TypeOK, invVars, payVars, ExecuteMade
<1> QED
  BY <1>5, <1>6, <1>7 DEF ExecuteCall

\* The two calls of Compensate.
CompensateMade(q) ==
    /\ told[q] # Nil /\ pc[q] = "compensate" /\ pc'[q] = "compensating"
    /\ back[q] \in 1..(cur[q] - 1) /\ cur[q] \in 1..3
    /\ UNCHANGED <<webVars, netVars, cur, back, create, orders, ordCache, update, reservations,
                   payments, forgotten>>
    /\ \A c \in InvCalls \ {<<q, "Release">>} : invCall'[c] = invCall[c]
    /\ \A c \in PayCalls \ {<<q, "Refund">>} : payCall'[c] = payCall[c]
    /\ \/ /\ back[q] = 1 /\ UNCHANGED payCall
          /\ invCall[<<q, "Release">>] = Nil
          /\ invCall'[<<q, "Release">>] =
                [op |-> "Release", order |-> told[q].id, pc |-> "get", ok |-> FALSE]
       \/ /\ back[q] = 2 /\ UNCHANGED invCall
          /\ payCall[<<q, "Refund">>] = Nil
          /\ payCall'[<<q, "Refund">>] =
                [op |-> "Refund", order |-> told[q].id, pc |-> "get", ok |-> FALSE]

LEMMA CompensateMakes ==
    ASSUME GInv, NEW q \in Runs, CompensateCall(q)
    PROVE  CompensateMade(q)
<1>1. /\ InvP!TypeOK /\ PayP!TypeOK /\ SagaP!TypeOK /\ SagaP!RunInv(q)
      /\ <<q, "Release">> \in InvCalls /\ <<q, "Refund">> \in PayCalls
  BY DEF GInv, PartsInv, InvP!IInv, PayP!IInv, SagaP!IInv, InvCalls, PayCalls
<1>2. /\ pc[q] = "compensate" /\ pc'[q] = "compensating" /\ back[q] >= 1
      /\ UNCHANGED <<webVars, netVars, cur, back, create, orders, ordCache, update>>
  BY <1>1 DEF CompensateCall, Saga!CompensateCall, Saga!Goto, SagaP!TypeOK, ordVars
<1>3. told[q] # Nil
  BY <1>2, BegunIsTold DEF GInv
<1>4. back[q] \in 1..(cur[q] - 1) /\ cur[q] \in 1..3 /\ completed[q][back[q]] = back[q]
  <2>1. cur[q] \in 1..4 /\ back[q] \in 0..3 /\ undone[q] \in Seq(SagaP!Step) /\ Len(completed[q]) = cur[q] - 1
    BY <1>1 DEF SagaP!TypeOK, SagaP!RunInv, SagaP!CompletedIsPrefix
  <2>2. Len(undone[q]) = cur[q] - 1 - back[q] /\ cur[q] <= 3 /\ Len(undone[q]) \in Nat
    BY <1>1, <1>2, <2>1 DEF SagaP!RunInv, SagaP!UndoneIsSuffix, SagaP!CurAtPc
  <2>3. back[q] \in 1..(cur[q] - 1) /\ cur[q] \in 1..3
    BY <1>2, <2>1, <2>2
  <2> QED
    BY <1>1, <2>1, <2>3 DEF SagaP!RunInv, SagaP!CompletedIsPrefix
<1>5. CASE completed[q][back[q]] = 1 /\ Inv!Release(<<q, "Release">>, told[q].id) /\ UNCHANGED payVars
  BY <1>1, <1>2, <1>3, <1>4, <1>5 DEF Inv!Release, InvP!TypeOK, payVars, CompensateMade
<1>6. CASE completed[q][back[q]] = 2 /\ Pay!Refund(<<q, "Refund">>, told[q].id) /\ UNCHANGED invVars
  BY <1>1, <1>2, <1>3, <1>4, <1>6 DEF Pay!Refund, Pay!history, PayP!TypeOK, invVars, CompensateMade
<1> QED
  BY <1>5, <1>6 DEF CompensateCall

\* And the call that cancels the order.
CancelMade(q) ==
    /\ told[q] # Nil /\ pc[q] = "failed"
    /\ UNCHANGED <<webVars, netVars, sagaVars, invVars, payVars, create, orders, ordCache>>
    /\ \A u \in OrdUpdates \ {<<q, "Cancel">>} : update'[u] = update[u]
    /\ update[<<q, "Cancel">>] = Nil
    /\ update'[<<q, "Cancel">>] =
          [id |-> told[q].id, status |-> "CANCELLED", pc |-> "lock", ok |-> FALSE]

LEMMA CancelMakes ==
    ASSUME GInv, NEW q \in Runs, CancelCall(q)
    PROVE  CancelMade(q)
<1>1. OrdP!TypeOK /\ <<q, "Cancel">> \in OrdUpdates
  BY DEF GInv, PartsInv, OrdP!IInv, OrdUpdates
<1>2. told[q] # Nil /\ pc[q] = "failed"
  BY BegunIsTold DEF GInv, CancelCall, MustCancel
<1> QED
  BY <1>1, <1>2 DEF CancelCall, Ord!UpdateOrderStatus, OrdP!TypeOK, CancelMade

\* A step of the gateway that makes no call of a saga.
Quiet ==
    \/ \E q \in Runs : \/ PostOrder(q) \/ CreateReturned(q) \/ CreateFailed(q) \/ CancelRpcError(q)
                       \/ SagaStart(q) \/ SagaSave(q) \/ ExecuteReturn(q) \/ ExecuteRpcError(q)
                       \/ CompensateReturn(q) \/ CompensateRpcError(q)
    \/ Crash \/ UNCHANGED vars

LEMMA QuietMoves ==
    ASSUME Quiet
    PROVE  /\ UNCHANGED <<invVars, payVars, restarts, update, orders, ordCache>>
           /\ broken \subseteq broken'
<1>1. ASSUME NEW q \in Runs,
             PostOrder(q) \/ CreateReturned(q) \/ CreateFailed(q) \/ CancelRpcError(q)
      PROVE  /\ UNCHANGED <<invVars, payVars, restarts, update, orders, ordCache>>
             /\ broken \subseteq broken'
  BY <1>1 DEF PostOrder, Ord!CreateOrder, CreateReturned, CreateFailed, CancelRpcError, RpcError,
              ordVars, netVars
<1>2. ASSUME NEW q \in Runs, SagaStart(q) \/ SagaSave(q) \/ ExecuteReturn(q) \/ ExecuteRpcError(q)
                             \/ CompensateReturn(q) \/ CompensateRpcError(q)
      PROVE  /\ UNCHANGED <<invVars, payVars, restarts, update, orders, ordCache>>
             /\ broken \subseteq broken'
  BY <1>2 DEF SagaStart, SagaSave, ExecuteReturn, ExecuteRpcError, CompensateReturn,
              CompensateRpcError, RpcError, ordVars, netVars
<1>3. CASE Crash \/ UNCHANGED vars
  BY <1>3 DEF Crash, vars, ordVars, netVars
<1> QED
  BY <1>1, <1>2, <1>3 DEF Quiet

\* There are no other steps.
LEMMA Steps ==
    ASSUME [Next]_vars
    PROVE  \/ Quiet
           \/ \E q \in Runs : ExecuteCall(q) \/ CompensateCall(q) \/ CancelCall(q)
           \/ Serve \/ Lose \/ \E s \in Services : Restart(s)
  BY DEF Quiet, Next, Gateway, Fault

\* What a run was told it keeps.
LEMMA ToldStays ==
    ASSUME GInv, [Next]_vars, NEW r \in Runs, told[r] # Nil
    PROVE  told'[r] = told[r]
<1>1. http[r] = "201" /\ told \in [Runs -> Ord!Proto \cup {Nil}] /\ SagaP!IInv
  BY DEF GInv, WebInv, PartsInv
<1>2. ASSUME NEW q \in Runs, PostOrder(q) \/ CreateReturned(q) \/ CreateFailed(q) \/ CancelRpcError(q)
      PROVE  told'[r] = told[r]
  BY <1>1, <1>2 DEF PostOrder, CreateReturned, CreateFailed, CancelRpcError, webVars
<1>3. ASSUME NEW q \in Runs, SagaStep(q) PROVE told'[r] = told[r]
  BY <1>1, <1>3, SagaMoves DEF webVars
<1>4. ASSUME NEW q \in Runs, CancelCall(q) PROVE told'[r] = told[r]
  BY <1>4, CancelMakes DEF CancelMade, webVars
<1>5. CASE Serve \/ Lose \/ \E s \in Services : Restart(s)
  BY <1>5, ServerMoves DEF webVars
<1>6. CASE Crash \/ UNCHANGED vars
  BY <1>6 DEF Crash, vars, webVars
<1> QED
  BY <1>2, <1>3, <1>4, <1>5, <1>6, Steps DEF SagaStep, Next, Gateway, Fault

\* The calls of run r.
LEMMA OwnCalls ==
    ASSUME NEW r \in Runs
    PROVE  /\ <<r, "Reserve">> \in InvCalls /\ <<r, "Release">> \in InvCalls
           /\ <<r, "Charge">> \in PayCalls /\ <<r, "Refund">> \in PayCalls
           /\ <<r, "Confirm">> \in OrdUpdates /\ <<r, "Cancel">> \in OrdUpdates
  BY DEF InvCalls, PayCalls, OrdUpdates

\* Whose call it is, and for which order.
LEMMA WhoseInvCall ==
    ASSUME GInv, NEW c \in InvCalls, invCall[c] # Nil
    PROVE  \E q \in Runs :
              /\ told[q] # Nil
              /\ invCall[c].op = "Reserve" => c = <<q, "Reserve">> /\ invCall[c].req = ReserveOf(told[q].id)
              /\ invCall[c].op = "Release" => c = <<q, "Release">> /\ invCall[c].order = told[q].id
<1>1. PICK q \in Runs, x \in {"Reserve", "Release"} : c = <<q, x>>
  BY DEF InvCalls
<1>2. CallInv(q)
  BY DEF GInv
<1>3. CASE x = "Reserve"
  BY <1>1, <1>2, <1>3 DEF CallInv
<1>4. CASE x = "Release"
  BY <1>1, <1>2, <1>4 DEF CallInv
<1> QED
  BY <1>3, <1>4

LEMMA WhosePayCall ==
    ASSUME GInv, NEW c \in PayCalls, payCall[c] # Nil
    PROVE  \E q \in Runs :
              /\ told[q] # Nil
              /\ payCall[c].op = "Charge" => c = <<q, "Charge">> /\ payCall[c].req = ChargeOf(told[q].id)
              /\ payCall[c].op = "Refund" => c = <<q, "Refund">> /\ payCall[c].order = told[q].id
<1>1. PICK q \in Runs, x \in {"Charge", "Refund"} : c = <<q, x>>
  BY DEF PayCalls
<1>2. CallInv(q)
  BY DEF GInv
<1>3. CASE x = "Charge"
  BY <1>1, <1>2, <1>3 DEF CallInv
<1>4. CASE x = "Refund"
  BY <1>1, <1>2, <1>4 DEF CallInv
<1> QED
  BY <1>3, <1>4

LEMMA WhoseUpdate ==
    ASSUME GInv, NEW u \in OrdUpdates, update[u] # Nil
    PROVE  \E q \in Runs :
              /\ told[q] # Nil /\ update[u].id = told[q].id
              /\ \/ u = <<q, "Confirm">> /\ update[u].status = "CONFIRMED"
                 \/ u = <<q, "Cancel">> /\ update[u].status = "CANCELLED"
<1>1. PICK q \in Runs, x \in {"Confirm", "Cancel"} : u = <<q, x>>
  BY DEF OrdUpdates
<1>2. CallInv(q)
  BY DEF GInv
<1>3. CASE x = "Confirm"
  BY <1>1, <1>2, <1>3 DEF CallInv
<1>4. CASE x = "Cancel"
  BY <1>1, <1>2, <1>4 DEF CallInv
<1> QED
  BY <1>3, <1>4

\* The calls that were made keep their requests, and are told apart by their names.
MovesOf(r) ==
    /\ \A op \in {"Reserve", "Release"} : InvP!OnlyMoves(<<r, op>>)
    /\ \A op \in {"Charge", "Refund"} : PayP!OnlyMoves(<<r, op>>)
    /\ \A op \in {"Confirm", "Cancel"} : OrdP!OnlyMovesUpdate(<<r, op>>)

LEMMA CallStays ==
    ASSUME NEW r \in Runs, CallInv(r), MovesOf(r), told[r] # Nil => told'[r] = told[r]
    PROVE  CallInv(r)'
<1>1. ASSUME invCall'[<<r, "Reserve">>] # Nil
      PROVE  /\ told'[r] # Nil /\ invCall'[<<r, "Reserve">>].op = "Reserve"
             /\ invCall'[<<r, "Reserve">>].req = ReserveOf(told'[r].id)
  BY <1>1 DEF CallInv, MovesOf, InvP!OnlyMoves, InvP!KeepsRequest
<1>2. ASSUME invCall'[<<r, "Release">>] # Nil
      PROVE  /\ told'[r] # Nil /\ invCall'[<<r, "Release">>].op = "Release"
             /\ invCall'[<<r, "Release">>].order = told'[r].id
  BY <1>2 DEF CallInv, MovesOf, InvP!OnlyMoves, InvP!KeepsRequest
<1>3. ASSUME payCall'[<<r, "Charge">>] # Nil
      PROVE  /\ told'[r] # Nil /\ payCall'[<<r, "Charge">>].op = "Charge"
             /\ payCall'[<<r, "Charge">>].req = ChargeOf(told'[r].id)
  BY <1>3 DEF CallInv, MovesOf, PayP!OnlyMoves, PayP!KeepsRequest
<1>4. ASSUME payCall'[<<r, "Refund">>] # Nil
      PROVE  /\ told'[r] # Nil /\ payCall'[<<r, "Refund">>].op = "Refund"
             /\ payCall'[<<r, "Refund">>].order = told'[r].id
  BY <1>4 DEF CallInv, MovesOf, PayP!OnlyMoves, PayP!KeepsRequest
<1>5. ASSUME update'[<<r, "Confirm">>] # Nil
      PROVE  /\ told'[r] # Nil /\ update'[<<r, "Confirm">>].id = told'[r].id
             /\ update'[<<r, "Confirm">>].status = "CONFIRMED"
  BY <1>5 DEF CallInv, MovesOf, OrdP!OnlyMovesUpdate
<1>6. ASSUME update'[<<r, "Cancel">>] # Nil
      PROVE  /\ told'[r] # Nil /\ update'[<<r, "Cancel">>].id = told'[r].id
             /\ update'[<<r, "Cancel">>].status = "CANCELLED"
  BY <1>6 DEF CallInv, MovesOf, OrdP!OnlyMovesUpdate
<1>7. (\A o : ReserveOf(o)' = ReserveOf(o)) /\ (\A o : ChargeOf(o)' = ChargeOf(o))
  BY DEF ReserveOf, ChargeOf
<1> QED
  BY <1>1, <1>2, <1>3, <1>4, <1>5, <1>6, <1>7 DEF CallInv

\* A run whose calls are as they were.
LEMMA SameMoves ==
    ASSUME GInv, NEW r \in Runs,
           \A op \in {"Reserve", "Release"} : invCall'[<<r, op>>] = invCall[<<r, op>>],
           \A op \in {"Charge", "Refund"} : payCall'[<<r, op>>] = payCall[<<r, op>>],
           \A op \in {"Confirm", "Cancel"} : update'[<<r, op>>] = update[<<r, op>>]
    PROVE  MovesOf(r)
<1>1. ASSUME NEW op \in {"Reserve", "Release"} PROVE InvP!OnlyMoves(<<r, op>>)
  <2>1. InvP!TypeOK /\ <<r, op>> \in InvCalls
    BY DEF GInv, PartsInv, InvP!IInv, InvCalls
  <2>2. invCall[<<r, op>>] # Nil => invCall[<<r, op>>].pc \in InvP!Pc
    BY <2>1 DEF InvP!TypeOK, InvP!Call
  <2> QED
    BY <2>2 DEF InvP!OnlyMoves, InvP!KeepsRequest, InvP!Answered, InvP!Pc
<1> QED
  BY <1>1 DEF MovesOf, PayP!OnlyMoves, PayP!KeepsRequest, PayP!Answered,
              OrdP!OnlyMovesUpdate, OrdP!Answered

LEMMA ServerMovesOf ==
    ASSUME GInv, NEW r \in Runs, Serve \/ Lose \/ \E s \in Services : Restart(s)
    PROVE  MovesOf(r)
  BY ServerMoves, OwnCalls DEF CallsMove, MovesOf

\* The calls of the other runs are left alone when a saga makes one.
LEMMA OthersMove ==
    ASSUME GInv, NEW q \in Runs, NEW r \in Runs \ {q},
           ExecuteMade(q) \/ CompensateMade(q) \/ CancelMade(q)
    PROVE  MovesOf(r)
<1>1. /\ \A op \in {"Reserve", "Release"} : <<r, op>> \in InvCalls \ {<<q, "Reserve">>, <<q, "Release">>}
      /\ \A op \in {"Charge", "Refund"} : <<r, op>> \in PayCalls \ {<<q, "Charge">>, <<q, "Refund">>}
      /\ \A op \in {"Confirm", "Cancel"} : <<r, op>> \in OrdUpdates \ {<<q, "Confirm">>, <<q, "Cancel">>}
  BY DEF InvCalls, PayCalls, OrdUpdates
<1>2. /\ \A op \in {"Reserve", "Release"} : invCall'[<<r, op>>] = invCall[<<r, op>>]
      /\ \A op \in {"Charge", "Refund"} : payCall'[<<r, op>>] = payCall[<<r, op>>]
      /\ \A op \in {"Confirm", "Cancel"} : update'[<<r, op>>] = update[<<r, op>>]
  <2>1. CASE ExecuteMade(q)
    BY <1>1, <2>1 DEF ExecuteMade
  <2>2. CASE CompensateMade(q)
    BY <1>1, <2>2 DEF CompensateMade
  <2>3. CASE CancelMade(q)
    BY <1>1, <2>3 DEF CancelMade, invVars, payVars
  <2> QED
    BY <2>1, <2>2, <2>3
<1> QED
  BY <1>2, SameMoves

LEMMA CallKept ==
    ASSUME GInv, [Next]_vars, NEW r \in Runs
    PROVE  CallInv(r)'
<1>1. CallInv(r) /\ (told[r] # Nil => told'[r] = told[r])
  BY ToldStays DEF GInv
<1>2. CASE Quiet
  BY <1>1, <1>2, QuietMoves, SameMoves, CallStays DEF invVars, payVars
<1>3. CASE Serve \/ Lose \/ \E s \in Services : Restart(s)
  BY <1>1, <1>3, ServerMovesOf, CallStays
<1>4. (\A o : ReserveOf(o)' = ReserveOf(o)) /\ (\A o : ChargeOf(o)' = ChargeOf(o))
  BY DEF ReserveOf, ChargeOf
<1>5. ASSUME NEW q \in Runs, ExecuteCall(q) PROVE CallInv(r)'
  <2>1. CASE q # r
    BY <1>1, <1>5, <2>1, ExecuteMakes, OthersMove, CallStays
  <2>2. CASE q = r
    <3>0. ExecuteMade(r)
      BY <1>5, <2>2, ExecuteMakes
    <3>1. told[r] # Nil /\ told'[r] = told[r]
      BY <1>1, <3>0 DEF ExecuteMade
    <3>2. /\ \A op \in {"Release"} : invCall'[<<r, op>>] = invCall[<<r, op>>]
          /\ \A op \in {"Refund"} : payCall'[<<r, op>>] = payCall[<<r, op>>]
          /\ \A op \in {"Cancel"} : update'[<<r, op>>] = update[<<r, op>>]
      BY <3>0, OwnCalls DEF ExecuteMade
    <3>3. \/ invCall'[<<r, "Reserve">>] = invCall[<<r, "Reserve">>]
          \/ /\ invCall'[<<r, "Reserve">>].op = "Reserve"
             /\ invCall'[<<r, "Reserve">>].req = ReserveOf(told[r].id)
      BY <3>0 DEF ExecuteMade
    <3>4. \/ payCall'[<<r, "Charge">>] = payCall[<<r, "Charge">>]
          \/ /\ payCall'[<<r, "Charge">>].op = "Charge"
             /\ payCall'[<<r, "Charge">>].req = ChargeOf(told[r].id)
      BY <3>0 DEF ExecuteMade
    <3>5. \/ update'[<<r, "Confirm">>] = update[<<r, "Confirm">>]
          \/ /\ update'[<<r, "Confirm">>].id = told[r].id
             /\ update'[<<r, "Confirm">>].status = "CONFIRMED"
      BY <3>0 DEF ExecuteMade
    <3> QED
      BY <1>1, <1>4, <3>1, <3>2, <3>3, <3>4, <3>5 DEF CallInv
  <2> QED
    BY <2>1, <2>2
<1>6. ASSUME NEW q \in Runs, CompensateCall(q) PROVE CallInv(r)'
  <2>1. CASE q # r
    BY <1>1, <1>6, <2>1, CompensateMakes, OthersMove, CallStays
  <2>2. CASE q = r
    <3>0. CompensateMade(r)
      BY <1>6, <2>2, CompensateMakes
    <3>1. told[r] # Nil /\ told'[r] = told[r] /\ UNCHANGED update
      BY <1>1, <3>0 DEF CompensateMade
    <3>2. /\ invCall'[<<r, "Reserve">>] = invCall[<<r, "Reserve">>]
          /\ payCall'[<<r, "Charge">>] = payCall[<<r, "Charge">>]
      BY <3>0, OwnCalls DEF CompensateMade
    <3>3. \/ invCall'[<<r, "Release">>] = invCall[<<r, "Release">>]
          \/ /\ invCall'[<<r, "Release">>].op = "Release"
             /\ invCall'[<<r, "Release">>].order = told[r].id
      BY <3>0 DEF CompensateMade
    <3>4. \/ payCall'[<<r, "Refund">>] = payCall[<<r, "Refund">>]
          \/ /\ payCall'[<<r, "Refund">>].op = "Refund"
             /\ payCall'[<<r, "Refund">>].order = told[r].id
      BY <3>0 DEF CompensateMade
    <3> QED
      BY <1>1, <1>4, <3>1, <3>2, <3>3, <3>4 DEF CallInv
  <2> QED
    BY <2>1, <2>2
<1>7. ASSUME NEW q \in Runs, CancelCall(q) PROVE CallInv(r)'
  <2>1. CASE q # r
    BY <1>1, <1>7, <2>1, CancelMakes, OthersMove, CallStays
  <2>2. CASE q = r
    <3>0. CancelMade(r)
      BY <1>7, <2>2, CancelMakes
    <3>1. told[r] # Nil /\ told'[r] = told[r] /\ UNCHANGED <<invCall, payCall>>
      BY <1>1, <3>0 DEF CancelMade, invVars, payVars
    <3>2. update'[<<r, "Confirm">>] = update[<<r, "Confirm">>]
      BY <3>0, OwnCalls DEF CancelMade
    <3>3. update'[<<r, "Cancel">>].id = told[r].id /\ update'[<<r, "Cancel">>].status = "CANCELLED"
      BY <3>0 DEF CancelMade
    <3> QED
      BY <1>1, <1>4, <3>1, <3>2, <3>3 DEF CallInv
  <2> QED
    BY <2>1, <2>2
<1> QED
  BY <1>2, <1>3, <1>5, <1>6, <1>7, Steps

-----------------------------------------------------------------------------
(* Where a saga stands.                                                        *)

\* StepInv after a step.
StepNext(r) ==
    /\ StepAt(1, cur'[r], pc'[r], <<r, "Reserve">>, broken', invCall'[<<r, "Reserve">>])
    /\ StepAt(2, cur'[r], pc'[r], <<r, "Charge">>, broken', payCall'[<<r, "Charge">>])
    /\ StepAt(3, cur'[r], pc'[r], <<r, "Confirm">>, broken', update'[<<r, "Confirm">>])
    /\ UndoAt(1, cur'[r], pc'[r], back'[r], <<r, "Release">>, broken', invCall'[<<r, "Release">>])
    /\ UndoAt(2, cur'[r], pc'[r], back'[r], <<r, "Refund">>, broken', payCall'[<<r, "Refund">>])
    /\ update'[<<r, "Cancel">>] # Nil => pc'[r] = "failed"

LEMMA StepNextIs == ASSUME NEW r \in Runs PROVE StepNext(r) <=> StepInv(r)'
  BY DEF StepNext, StepInv, StepAt, UndoAt, Answered

\* What a server may do to the record of a call.
Moves(rec, new) ==
    /\ rec = Nil => new = Nil
    /\ Answered(rec) => Answered(new) /\ new.ok = rec.ok

LEMMA RecordMoves ==
    ASSUME NEW r \in Runs, MovesOf(r)
    PROVE  /\ Moves(invCall[<<r, "Reserve">>], invCall'[<<r, "Reserve">>])
           /\ Moves(invCall[<<r, "Release">>], invCall'[<<r, "Release">>])
           /\ Moves(payCall[<<r, "Charge">>], payCall'[<<r, "Charge">>])
           /\ Moves(payCall[<<r, "Refund">>], payCall'[<<r, "Refund">>])
           /\ Moves(update[<<r, "Confirm">>], update'[<<r, "Confirm">>])
           /\ Moves(update[<<r, "Cancel">>], update'[<<r, "Cancel">>])
<1>1. ASSUME NEW op \in {"Reserve", "Release"} PROVE Moves(invCall[<<r, op>>], invCall'[<<r, op>>])
  BY DEF MovesOf, Moves, Answered, InvP!OnlyMoves, InvP!Answered
<1>2. ASSUME NEW op \in {"Charge", "Refund"} PROVE Moves(payCall[<<r, op>>], payCall'[<<r, op>>])
  BY DEF MovesOf, Moves, Answered, PayP!OnlyMoves, PayP!Answered
<1>3. ASSUME NEW op \in {"Confirm", "Cancel"} PROVE Moves(update[<<r, op>>], update'[<<r, op>>])
  BY DEF MovesOf, Moves, Answered, OrdP!OnlyMovesUpdate, OrdP!Answered
<1> QED
  BY <1>1, <1>2, <1>3

LEMMA StepAtMoves ==
    ASSUME NEW j, NEW c, NEW p, NEW id, NEW f, NEW g, f \subseteq g, NEW rec, NEW new,
           StepAt(j, c, p, id, f, rec), Moves(rec, new)
    PROVE  StepAt(j, c, p, id, g, new)
  BY DEF StepAt, Moves

LEMMA UndoAtMoves ==
    ASSUME NEW j, NEW c, NEW p, NEW k, NEW id, NEW f, NEW g, f \subseteq g, NEW rec, NEW new,
           UndoAt(j, c, p, k, id, f, rec), Moves(rec, new)
    PROVE  UndoAt(j, c, p, k, id, g, new)
  BY DEF UndoAt, Moves

\* While the saga of r stands still.
LEMMA StepStays ==
    ASSUME NEW r \in Runs, StepInv(r), MovesOf(r), broken \subseteq broken',
           pc'[r] = pc[r], cur'[r] = cur[r], back'[r] = back[r]
    PROVE  StepInv(r)'
<1>1. update'[<<r, "Cancel">>] # Nil => pc'[r] = "failed"
  BY RecordMoves DEF StepInv, Moves
<1>2. /\ StepAt(1, cur'[r], pc'[r], <<r, "Reserve">>, broken', invCall'[<<r, "Reserve">>])
      /\ StepAt(2, cur'[r], pc'[r], <<r, "Charge">>, broken', payCall'[<<r, "Charge">>])
      /\ StepAt(3, cur'[r], pc'[r], <<r, "Confirm">>, broken', update'[<<r, "Confirm">>])
  BY RecordMoves, StepAtMoves DEF StepInv
<1>3. /\ UndoAt(1, cur'[r], pc'[r], back'[r], <<r, "Release">>, broken', invCall'[<<r, "Release">>])
      /\ UndoAt(2, cur'[r], pc'[r], back'[r], <<r, "Refund">>, broken', payCall'[<<r, "Refund">>])
  BY RecordMoves, UndoAtMoves DEF StepInv
<1> QED
  BY <1>1, <1>2, <1>3, StepNextIs DEF StepNext

\* The loop of Start, the loop of rollback, and the rows around them.
LEMMA SaveSteps ==
    ASSUME GInv, NEW r \in Runs, SagaStart(r) \/ SagaSave(r)
    PROVE  StepInv(r)'
<1>1. /\ cur[r] \in 1..4 /\ back[r] \in 0..3 /\ StepInv(r) /\ SagaP!TypeOK
      /\ Len(completed[r]) = cur[r] - 1
  BY DEF GInv, PartsInv, SagaP!IInv, SagaP!TypeOK, SagaP!RunInv, SagaP!CompletedIsPrefix
<1>2. UNCHANGED <<broken, invCall, payCall, update>>
  BY DEF SagaStart, SagaSave, netVars, invVars, payVars, ordVars
<1>3. CASE SagaStart(r)
  <2>1. pc[r] = "new" /\ pc'[r] = "execute" /\ cur'[r] = cur[r] /\ back'[r] = back[r]
    BY <1>1, <1>3 DEF SagaStart, Saga!Start, Saga!Goto, SagaP!TypeOK
  <2>2. StepNext(r)
    BY <1>1, <1>2, <2>1 DEF StepInv, StepNext, StepAt, UndoAt
  <2> QED
    BY <2>2, StepNextIs
<1>4. CASE Saga!SaveStepDone(r)
  <2>1. pc[r] = "stepDone" /\ pc'[r] = "execute" /\ cur'[r] = cur[r] + 1 /\ back'[r] = back[r]
    BY <1>1, <1>4 DEF Saga!SaveStepDone, Saga!Goto, SagaP!TypeOK
  <2>2. StepNext(r)
    BY <1>1, <1>2, <2>1 DEF StepInv, StepNext, StepAt, UndoAt
  <2> QED
    BY <2>2, StepNextIs
<1>5. CASE Saga!SaveCompleted(r)
  <2>1. /\ pc[r] = "execute" /\ pc'[r] = "completed" /\ cur[r] > 3
        /\ cur'[r] = cur[r] /\ back'[r] = back[r]
    BY <1>1, <1>5 DEF Saga!SaveCompleted, Saga!Goto, SagaP!TypeOK
  <2>2. StepNext(r)
    BY <1>1, <1>2, <2>1 DEF StepInv, StepNext, StepAt, UndoAt
  <2> QED
    BY <2>2, StepNextIs
<1>6. CASE Saga!SaveCompensating(r)
  <2>1. /\ pc[r] = "stepFailed" /\ pc'[r] = "compensate" /\ cur'[r] = cur[r]
        /\ back'[r] = cur[r] - 1
    BY <1>1, <1>6 DEF Saga!SaveCompensating, Saga!RollbackFrom, Saga!Goto, SagaP!TypeOK
  <2>2. StepNext(r)
    BY <1>1, <1>2, <2>1 DEF StepInv, StepNext, StepAt, UndoAt
  <2> QED
    BY <2>2, StepNextIs
<1>7. CASE Saga!SaveFailed(r)
  <2>1. /\ pc[r] = "compensate" /\ pc'[r] = "failed" /\ back[r] = 0
        /\ cur'[r] = cur[r] /\ back'[r] = back[r]
    BY <1>1, <1>7 DEF Saga!SaveFailed, Saga!Goto, SagaP!TypeOK
  <2>2. StepNext(r)
    BY <1>1, <1>2, <2>1 DEF StepInv, StepNext, StepAt, UndoAt
  <2> QED
    BY <2>2, StepNextIs
<1> QED
  BY <1>3, <1>4, <1>5, <1>6, <1>7 DEF SagaSave

\* A step is begun, or one of its compensations.
LEMMA CallSteps ==
    ASSUME GInv, NEW r \in Runs, ExecuteCall(r) \/ CompensateCall(r) \/ CancelCall(r)
    PROVE  StepInv(r)'
<1>1. cur[r] \in 1..4 /\ back[r] \in 0..3 /\ StepInv(r)
  BY DEF GInv, PartsInv, SagaP!IInv, SagaP!TypeOK
<1>2. CASE ExecuteCall(r)
  <2>1. ExecuteMade(r)
    BY <1>2, ExecuteMakes
  <2>2. /\ pc[r] = "execute" /\ pc'[r] = "executing"
        /\ cur'[r] = cur[r] /\ back'[r] = back[r] /\ broken' = broken
    BY <2>1 DEF ExecuteMade, netVars
  <2>3. /\ invCall'[<<r, "Release">>] = invCall[<<r, "Release">>]
        /\ payCall'[<<r, "Refund">>] = payCall[<<r, "Refund">>]
        /\ update'[<<r, "Cancel">>] = update[<<r, "Cancel">>]
    BY <2>1, OwnCalls DEF ExecuteMade
  <2>4. /\ cur[r] # 1 => invCall'[<<r, "Reserve">>] = invCall[<<r, "Reserve">>]
        /\ cur[r] # 2 => payCall'[<<r, "Charge">>] = payCall[<<r, "Charge">>]
        /\ cur[r] # 3 => update'[<<r, "Confirm">>] = update[<<r, "Confirm">>]
    BY <2>1 DEF ExecuteMade
  <2>5. StepNext(r)
    BY <1>1, <2>2, <2>3, <2>4 DEF StepInv, StepNext, StepAt, UndoAt
  <2> QED
    BY <2>5, StepNextIs
<1>3. CASE CompensateCall(r)
  <2>1. CompensateMade(r)
    BY <1>3, CompensateMakes
  <2>2. /\ pc[r] = "compensate" /\ pc'[r] = "compensating"
        /\ cur'[r] = cur[r] /\ back'[r] = back[r] /\ broken' = broken
        /\ back[r] < cur[r] /\ UNCHANGED update
    BY <1>1, <2>1 DEF CompensateMade, netVars
  <2>3. /\ invCall'[<<r, "Reserve">>] = invCall[<<r, "Reserve">>]
        /\ payCall'[<<r, "Charge">>] = payCall[<<r, "Charge">>]
    BY <2>1, OwnCalls DEF CompensateMade
  <2>4. /\ back[r] # 1 => invCall'[<<r, "Release">>] = invCall[<<r, "Release">>]
        /\ back[r] # 2 => payCall'[<<r, "Refund">>] = payCall[<<r, "Refund">>]
    BY <2>1 DEF CompensateMade
  <2>5. StepNext(r)
    BY <1>1, <2>2, <2>3, <2>4 DEF StepInv, StepNext, StepAt, UndoAt
  <2> QED
    BY <2>5, StepNextIs
<1>4. CASE CancelCall(r)
  <2>1. CancelMade(r)
    BY <1>4, CancelMakes
  <2>2. /\ pc[r] = "failed" /\ pc' = pc /\ cur' = cur /\ back' = back /\ broken' = broken
        /\ invCall' = invCall /\ payCall' = payCall
    BY <2>1 DEF CancelMade, netVars, sagaVars, invVars, payVars
  <2>3. update'[<<r, "Confirm">>] = update[<<r, "Confirm">>]
    BY <2>1, OwnCalls DEF CancelMade
  <2>4. StepNext(r)
    BY <1>1, <2>2, <2>3 DEF StepInv, StepNext
  <2> QED
    BY <2>4, StepNextIs
<1> QED
  BY <1>2, <1>3, <1>4

\* The call of the step at hand has come back, or has failed.
LEMMA ReturnSteps ==
    ASSUME GInv, NEW r \in Runs,
           \/ ExecuteReturn(r) \/ ExecuteRpcError(r)
           \/ CompensateReturn(r) \/ CompensateRpcError(r)
    PROVE  StepInv(r)'
<1>1. cur[r] \in 1..4 /\ back[r] \in 0..3 /\ StepInv(r) /\ SagaP!TypeOK /\ SagaP!RunInv(r)
  BY DEF GInv, PartsInv, SagaP!IInv, SagaP!TypeOK
<1>2. UNCHANGED <<invCall, payCall, update>> /\ broken \subseteq broken'
  BY DEF ExecuteReturn, ExecuteRpcError, CompensateReturn, CompensateRpcError, RpcError, netVars,
         invVars, payVars, ordVars
<1>3. CASE ExecuteReturn(r) \/ ExecuteRpcError(r)
  <2>1. pc[r] = "executing" /\ cur'[r] = cur[r] /\ back'[r] = back[r]
    BY <1>1, <1>3 DEF ExecuteReturn, ExecuteRpcError, Saga!ExecuteOk, Saga!ExecuteErr, Saga!Goto,
                      SagaP!TypeOK
  <2>2. cur[r] \in 1..3
    BY <1>1, <2>1 DEF SagaP!RunInv, SagaP!CurAtPc
  <2>3. /\ cur[r] = 1 => ExecuteId(r) = <<r, "Reserve">> /\ ExecuteRecord(r) = invCall[<<r, "Reserve">>]
        /\ cur[r] = 2 => ExecuteId(r) = <<r, "Charge">> /\ ExecuteRecord(r) = payCall[<<r, "Charge">>]
        /\ cur[r] = 3 => ExecuteId(r) = <<r, "Confirm">> /\ ExecuteRecord(r) = update[<<r, "Confirm">>]
    BY <2>2 DEF ExecuteId, ExecuteRecord
  <2>4. \/ pc'[r] = "stepDone" /\ Answered(ExecuteRecord(r)) /\ ExecuteRecord(r).ok
        \/ pc'[r] = "stepFailed" /\ Answered(ExecuteRecord(r)) /\ ~ExecuteRecord(r).ok
        \/ pc'[r] = "stepFailed" /\ ExecuteId(r) \in broken'
    BY <1>1, <1>3 DEF ExecuteReturn, ExecuteRpcError, RpcError, Saga!ExecuteOk, Saga!ExecuteErr,
                      Saga!Goto, SagaP!TypeOK
  <2>5. CASE cur[r] = 1
    BY <1>1, <1>2, <2>1, <2>3, <2>4, <2>5, StepNextIs DEF StepInv, StepNext, StepAt, UndoAt
  <2>6. CASE cur[r] = 2
    BY <1>1, <1>2, <2>1, <2>3, <2>4, <2>6, StepNextIs DEF StepInv, StepNext, StepAt, UndoAt
  <2>7. CASE cur[r] = 3
    BY <1>1, <1>2, <2>1, <2>3, <2>4, <2>7, StepNextIs DEF StepInv, StepNext, StepAt, UndoAt
  <2> QED
    BY <2>2, <2>5, <2>6, <2>7
<1>4. CASE CompensateReturn(r) \/ CompensateRpcError(r)
  <2>1. /\ pc[r] = "compensating" /\ pc'[r] = "compensate"
        /\ cur'[r] = cur[r] /\ back'[r] = back[r] - 1
    BY <1>1, <1>4 DEF CompensateReturn, CompensateRpcError, Saga!CompensateReturn, Saga!Goto,
                      SagaP!TypeOK
  <2>2. back[r] \in 1..2 /\ completed[r][back[r]] = back[r] /\ cur[r] \in 1..3 /\ back[r] < cur[r]
    <3>1. back[r] \in 1..(cur[r] - 1) /\ cur[r] <= 3
      BY <1>1, <2>1 DEF SagaP!RunInv, SagaP!UndoneIsSuffix, SagaP!CurAtPc
    <3>2. Len(completed[r]) = cur[r] - 1 /\ \A i \in 1..Len(completed[r]) : completed[r][i] = i
      BY <1>1 DEF SagaP!RunInv, SagaP!CompletedIsPrefix
    <3> QED
      BY <1>1, <3>1, <3>2
  <2>3. /\ back[r] = 1 => /\ CompensateId(r) = <<r, "Release">>
                          /\ CompensateRecord(r) = invCall[<<r, "Release">>]
        /\ back[r] = 2 => /\ CompensateId(r) = <<r, "Refund">>
                          /\ CompensateRecord(r) = payCall[<<r, "Refund">>]
    BY <2>2 DEF CompensateId, CompensateRecord
  <2>4. CompensateId(r) \in broken' \/ Answered(CompensateRecord(r))
    BY <1>4 DEF CompensateReturn, CompensateRpcError, RpcError
  <2>5. CASE back[r] = 1
    BY <1>1, <1>2, <2>1, <2>2, <2>3, <2>4, <2>5, StepNextIs DEF StepInv, StepNext, StepAt, UndoAt
  <2>6. CASE back[r] = 2
    BY <1>1, <1>2, <2>1, <2>2, <2>3, <2>4, <2>6, StepNextIs DEF StepInv, StepNext, StepAt, UndoAt
  <2> QED
    BY <2>2, <2>5, <2>6
<1> QED
  BY <1>3, <1>4

LEMMA StepKept ==
    ASSUME GInv, [Next]_vars, NEW r \in Runs
    PROVE  StepInv(r)'
<1>1. StepInv(r) /\ SagaP!IInv
  BY DEF GInv, PartsInv
<1>2. ASSUME NEW q \in Runs, SagaStep(q) PROVE StepInv(r)'
  <2>1. CASE q = r
    BY <1>2, <2>1, SaveSteps, CallSteps, ReturnSteps DEF SagaStep
  <2>2. CASE q # r
    <3>1. pc'[r] = pc[r] /\ cur'[r] = cur[r] /\ back'[r] = back[r] /\ broken \subseteq broken'
      BY <1>1, <1>2, <2>2, SagaMoves
    <3>2. MovesOf(r)
      <4>1. CASE ExecuteCall(q) \/ CompensateCall(q)
        BY <2>2, <4>1, ExecuteMakes, CompensateMakes, OthersMove
      <4>2. CASE Quiet
        BY <4>2, QuietMoves, SameMoves DEF invVars, payVars
      <4> QED
        BY <1>2, <4>1, <4>2 DEF SagaStep, Quiet
    <3> QED
      BY <1>1, <3>1, <3>2, StepStays
  <2> QED
    BY <2>1, <2>2
<1>3. ASSUME NEW q \in Runs, CancelCall(q) PROVE StepInv(r)'
  <2>1. CASE q = r
    BY <1>3, <2>1, CallSteps
  <2>2. CASE q # r
    <3>1. CancelMade(q)
      BY <1>3, CancelMakes
    <3>2. pc'[r] = pc[r] /\ cur'[r] = cur[r] /\ back'[r] = back[r] /\ broken \subseteq broken'
      BY <3>1 DEF CancelMade, sagaVars, netVars
    <3>3. MovesOf(r)
      BY <2>2, <3>1, OthersMove
    <3> QED
      BY <1>1, <3>2, <3>3, StepStays
  <2> QED
    BY <2>1, <2>2
<1>4. CASE Serve \/ Lose \/ \E s \in Services : Restart(s)
  BY <1>1, <1>4, ServerMoves, ServerMovesOf, StepStays DEF sagaVars
<1>5. CASE \/ Crash \/ UNCHANGED vars
           \/ \E q \in Runs : PostOrder(q) \/ CreateReturned(q) \/ CreateFailed(q) \/ CancelRpcError(q)
  <2>1. Quiet
    BY <1>5 DEF Quiet
  <2>2. pc' = pc /\ cur' = cur /\ back' = back
    BY <1>5 DEF Crash, vars, PostOrder, CreateReturned, CreateFailed, CancelRpcError, sagaVars
  <2>3. MovesOf(r) /\ broken \subseteq broken'
    BY <2>1, QuietMoves, SameMoves DEF invVars, payVars
  <2> QED
    BY <1>1, <2>2, <2>3, StepStays
<1> QED
  BY <1>2, <1>3, <1>4, <1>5, Steps DEF Quiet, SagaStep

-----------------------------------------------------------------------------
(* Restarts.                                                                   *)

\* A CreateOrder call is made by the handler of a POST, and not touched by any other
\* step of the gateway.
LEMMA QuietCreates ==
    ASSUME GInv, Quiet, NEW x \in Runs
    PROVE  create'[x] = create[x] \/ (create[x] = Nil /\ create'[x].pc = "get")
<1>1. OrdP!TypeOK
  BY DEF GInv, PartsInv, OrdP!IInv
<1>2. ASSUME NEW q \in Runs, PostOrder(q)
      PROVE  create'[x] = create[x] \/ (create[x] = Nil /\ create'[x].pc = "get")
  <2>1. CASE UNCHANGED ordVars
    BY <2>1 DEF ordVars
  <2>2. CASE Ord!CreateOrder(q, CreateRequest(q))
    BY <1>1, <2>2 DEF Ord!CreateOrder, OrdP!TypeOK
  <2> QED
    BY <1>2, <2>1, <2>2 DEF PostOrder
<1>3. ASSUME NEW q \in Runs, CreateReturned(q) \/ CreateFailed(q) \/ CancelRpcError(q)
      PROVE  create' = create
  BY <1>3 DEF CreateReturned, CreateFailed, CancelRpcError, ordVars
<1>4. ASSUME NEW q \in Runs, SagaStart(q) \/ SagaSave(q) \/ ExecuteReturn(q) \/ ExecuteRpcError(q)
                             \/ CompensateReturn(q) \/ CompensateRpcError(q)
      PROVE  create' = create
  BY <1>4 DEF SagaStart, SagaSave, ExecuteReturn, ExecuteRpcError, CompensateReturn,
              CompensateRpcError, ordVars
<1>5. CASE Crash \/ UNCHANGED vars
  BY <1>5 DEF Crash, vars, ordVars
<1> QED
  BY <1>2, <1>3, <1>4, <1>5 DEF Quiet

LEMMA RestartedGrows == GInv /\ [Next]_vars => restarted \subseteq restarted'
<1> SUFFICES ASSUME GInv, [Next]_vars PROVE restarted \subseteq restarted'
  OBVIOUS
<1>1. CASE Quiet
  BY <1>1, QuietMoves DEF restarted
<1>2. ASSUME NEW q \in Runs, ExecuteCall(q) \/ CompensateCall(q) \/ CancelCall(q)
      PROVE  restarts' = restarts
  BY <1>2 DEF ExecuteCall, CompensateCall, CancelCall, netVars
<1>3. CASE Serve \/ Lose
  BY <1>3 DEF Serve, Lose, netVars, restarted
<1>4. ASSUME NEW s \in Services, Restart(s) PROVE restarted \subseteq restarted'
  <2>1. restarts \in [Services -> Nat] /\ restarts' = [restarts EXCEPT ![s] = @ + 1]
    BY <1>4 DEF GInv, Restart
  <2> QED
    BY <2>1 DEF restarted
<1>5. (\E q \in Runs : ExecuteCall(q) \/ CompensateCall(q) \/ CancelCall(q))
         => restarted \subseteq restarted'
  BY <1>2 DEF restarted
<1> QED
  BY <1>1, <1>3, <1>4, <1>5, Steps

\* A service that was restarted is among them.
LEMMA NowRestarted ==
    ASSUME GInv, NEW s \in Services, Restart(s)
    PROVE  s \in restarted'
<1>1. restarts \in [Services -> Nat] /\ restarts' = [restarts EXCEPT ![s] = @ + 1]
  BY DEF GInv, Restart
<1> QED
  BY <1>1 DEF restarted

\* What the servers do when none is restarted.
LEMMA ServeSteps ==
    ASSUME Serve \/ Lose
    PROVE  /\ UNCHANGED restarts
           /\ UNCHANGED invVars \/ \E c \in InvCalls : InvP!Handle(c) \/ InvP!Lose(c)
           /\ UNCHANGED payVars \/ \E c \in PayCalls : PayP!Handle(c) \/ PayP!Lose(c)
           /\ \/ UNCHANGED ordVars
              \/ \E x \in Runs : OrdP!HandleCreate(x) \/ OrdP!LoseCreate(x)
              \/ \E u \in OrdUpdates : OrdP!UpdateLocked(u) \/ OrdP!LoseUpdate(u)
<1>1. CASE Serve
  BY <1>1, InvSame, PaySame, OrdSame DEF Serve, netVars
<1>2. CASE Lose
  BY <1>2, InvSame, PaySame, OrdSame DEF Lose, netVars
<1> QED
  BY <1>1, <1>2

LEMMA InvNotOld ==
    ASSUME GInv, [Next]_vars, "inventory" \notin restarted', NEW c \in InvCalls, invCall'[c] # Nil
    PROVE  invCall'[c].pc # "old"
<1>1. InvP!TypeOK /\ (invCall[c] # Nil => invCall[c].pc # "old")
  BY RestartedGrows DEF GInv, PartsInv, InvP!IInv, OldInv
<1>2. CASE Quiet
  BY <1>1, <1>2, QuietMoves DEF invVars
<1>3. ASSUME NEW q \in Runs, ExecuteCall(q) PROVE invCall'[c].pc # "old"
  <2>1. ExecuteMade(q)
    BY <1>3, ExecuteMakes
  <2>2. invCall'[c] = invCall[c] \/ invCall'[c].pc = "get"
    BY <2>1 DEF ExecuteMade
  <2> QED
    BY <1>1, <2>2
<1>4. ASSUME NEW q \in Runs, CompensateCall(q) PROVE invCall'[c].pc # "old"
  <2>1. CompensateMade(q)
    BY <1>4, CompensateMakes
  <2>2. invCall'[c] = invCall[c] \/ invCall'[c].pc = "get"
    BY <2>1 DEF CompensateMade
  <2> QED
    BY <1>1, <2>2
<1>5. ASSUME NEW q \in Runs, CancelCall(q) PROVE invCall'[c].pc # "old"
  BY <1>1, <1>5, CancelMakes DEF CancelMade, invVars
<1>6. CASE Serve \/ Lose
  <2>1. CASE UNCHANGED invVars
    BY <1>1, <2>1 DEF invVars
  <2>2. ASSUME NEW d \in InvCalls, InvP!Handle(d) \/ InvP!Lose(d) PROVE invCall'[c].pc # "old"
    <3>1. CASE d = c
      BY <1>1, <2>2, <3>1, InvAssumed, InvP!NotOld
    <3>2. CASE d # c
      BY <1>1, <2>2, <3>2, InvAssumed, InvP!OtherCalls
    <3> QED
      BY <3>1, <3>2
  <2> QED
    BY <1>6, <2>1, <2>2, ServeSteps
<1>7. ASSUME NEW s \in Services, Restart(s) PROVE invCall'[c].pc # "old"
  BY <1>1, <1>7, NowRestarted DEF Restart, invVars
<1> QED
  BY <1>2, <1>3, <1>4, <1>5, <1>6, <1>7, Steps

LEMMA PayNotOld ==
    ASSUME GInv, [Next]_vars, "payment" \notin restarted'
    PROVE  /\ \A c \in PayCalls : payCall'[c] # Nil => payCall'[c].pc # "old"
           /\ \A o \in Runs : forgotten'[o] = 0
<1>1. /\ PayP!TypeOK /\ \A c \in PayCalls : payCall[c] # Nil => payCall[c].pc # "old"
      /\ \A o \in Runs : forgotten[o] = 0
  BY RestartedGrows DEF GInv, PartsInv, PayP!IInv, OldInv
<1>2. SUFFICES /\ forgotten' = forgotten
               /\ \A c \in PayCalls : payCall'[c] # Nil => payCall'[c].pc # "old"
  BY <1>1
<1>3. CASE Quiet
  BY <1>1, <1>3, QuietMoves DEF payVars
<1>4. ASSUME NEW q \in Runs, ExecuteCall(q)
      PROVE  forgotten' = forgotten /\ \A c \in PayCalls : payCall'[c] # Nil => payCall'[c].pc # "old"
  <2>1. ExecuteMade(q)
    BY <1>4, ExecuteMakes
  <2>2. \A c \in PayCalls : payCall'[c] = payCall[c] \/ payCall'[c].pc = "get"
    BY <2>1 DEF ExecuteMade
  <2>3. forgotten' = forgotten
    BY <2>1 DEF ExecuteMade
  <2> QED
    BY <1>1, <2>2, <2>3
<1>5. ASSUME NEW q \in Runs, CompensateCall(q)
      PROVE  forgotten' = forgotten /\ \A c \in PayCalls : payCall'[c] # Nil => payCall'[c].pc # "old"
  <2>1. CompensateMade(q)
    BY <1>5, CompensateMakes
  <2>2. \A c \in PayCalls : payCall'[c] = payCall[c] \/ payCall'[c].pc = "get"
    BY <2>1 DEF CompensateMade
  <2>3. forgotten' = forgotten
    BY <2>1 DEF CompensateMade
  <2> QED
    BY <1>1, <2>2, <2>3
<1>6. ASSUME NEW q \in Runs, CancelCall(q)
      PROVE  forgotten' = forgotten /\ \A c \in PayCalls : payCall'[c] # Nil => payCall'[c].pc # "old"
  BY <1>1, <1>6, CancelMakes DEF CancelMade, payVars
<1>7. CASE Serve \/ Lose
  <2>1. CASE UNCHANGED payVars
    BY <1>1, <2>1 DEF payVars
  <2>2. ASSUME NEW d \in PayCalls, PayP!Handle(d) \/ PayP!Lose(d)
        PROVE  /\ forgotten' = forgotten
               /\ \A c \in PayCalls : payCall'[c] # Nil => payCall'[c].pc # "old"
    <3>1. forgotten' = forgotten
      BY <2>2 DEF PayP!Handle, PayP!Lose, PayP!ChargeGet, PayP!ChargeLocked, PayP!RefundGet,
                  PayP!RefundLocked, PayP!history
    <3>2. payCall'[d].pc # "old"
      BY <1>1, <2>2, PayAssumed, PayP!NotOld
    <3>3. \A c \in PayCalls \ {d} : payCall'[c] = payCall[c]
      BY <1>1, <2>2, PayAssumed, PayP!OtherCalls
    <3> QED
      BY <1>1, <3>1, <3>2, <3>3
  <2> QED
    BY <1>7, <2>1, <2>2, ServeSteps
<1>8. ASSUME NEW s \in Services, Restart(s) PROVE UNCHANGED payVars
  BY <1>8, NowRestarted DEF Restart
<1>9. (\E s \in Services : Restart(s)) => UNCHANGED payVars
  BY <1>8
<1> QED
  BY <1>1, <1>3, <1>4, <1>5, <1>6, <1>7, <1>9, Steps DEF payVars

LEMMA OrdNotOld ==
    ASSUME GInv, [Next]_vars, "order" \notin restarted'
    PROVE  /\ \A x \in Runs : create'[x] # Nil => create'[x].pc # "old"
           /\ \A u \in OrdUpdates : update'[u] # Nil => update'[u].pc # "old"
<1> DEFINE Fine == /\ \A x \in Runs : create'[x] # Nil => create'[x].pc # "old"
                   /\ \A u \in OrdUpdates : update'[u] # Nil => update'[u].pc # "old"
<1>1. /\ OrdP!IInv /\ OrdP!TypeOK
      /\ \A x \in Runs : create[x] # Nil => create[x].pc # "old"
      /\ \A u \in OrdUpdates : update[u] # Nil => update[u].pc # "old"
  BY RestartedGrows DEF GInv, PartsInv, OrdP!IInv, OldInv
<1>2. CASE Quiet
  <2>1. update' = update
    BY <1>2, QuietMoves
  <2> QED
    BY <1>1, <1>2, <2>1, QuietCreates
<1>3. ASSUME NEW q \in Runs, ExecuteCall(q) PROVE Fine
  <2>1. ExecuteMade(q)
    BY <1>3, ExecuteMakes
  <2>2. create' = create /\ \A u \in OrdUpdates : update'[u] = update[u] \/ update'[u].pc = "lock"
    BY <2>1 DEF ExecuteMade
  <2> QED
    BY <1>1, <2>2
<1>4. ASSUME NEW q \in Runs, CompensateCall(q) PROVE Fine
  <2>1. CompensateMade(q)
    BY <1>4, CompensateMakes
  <2>2. create' = create /\ update' = update
    BY <2>1 DEF CompensateMade
  <2> QED
    BY <1>1, <2>2
<1>5. ASSUME NEW q \in Runs, CancelCall(q) PROVE Fine
  <2>1. CancelMade(q)
    BY <1>5, CancelMakes
  <2>2. create' = create /\ \A u \in OrdUpdates : update'[u] = update[u] \/ update'[u].pc = "lock"
    BY <2>1 DEF CancelMade
  <2> QED
    BY <1>1, <2>2
<1>6. CASE Serve \/ Lose
  <2>1. CASE UNCHANGED ordVars
    BY <1>1, <2>1 DEF ordVars
  <2>2. ASSUME NEW a \in Runs, OrdP!HandleCreate(a) \/ OrdP!LoseCreate(a) PROVE Fine
    <3>1. create'[a].pc # "old"
      BY <1>1, <2>2, OrdAssumed, OrdP!NotOld
    <3>2. (\A x \in Runs \ {a} : create'[x] = create[x]) /\ update' = update
      BY <1>1, <2>2, OrdAssumed, OrdP!CreateMoves
    <3> QED
      BY <1>1, <3>1, <3>2
  <2>3. ASSUME NEW v \in OrdUpdates, OrdP!UpdateLocked(v) \/ OrdP!LoseUpdate(v) PROVE Fine
    <3>1. update'[v].pc \in {"done", "lost"}
      BY <1>1, <2>3, OrdAssumed, OrdP!UpdateMoves
    <3>2. (\A u \in OrdUpdates \ {v} : update'[u] = update[u]) /\ create' = create
      BY <1>1, <2>3, OrdAssumed, OrdP!UpdateMoves
    <3> QED
      BY <1>1, <3>1, <3>2
  <2> QED
    BY <1>6, <2>1, <2>2, <2>3, ServeSteps
<1>7. ASSUME NEW s \in Services, Restart(s) PROVE Fine
  BY <1>1, <1>7, NowRestarted DEF Restart, ordVars
<1> QED
  BY <1>2, <1>3, <1>4, <1>5, <1>6, <1>7, Steps

LEMMA OldKept ==
    ASSUME GInv, [Next]_vars
    PROVE  OldInv'
  BY InvNotOld, PayNotOld, OrdNotOld DEF OldInv

-----------------------------------------------------------------------------
(* Updates that came too late, and what was given back.                        *)

LEMMA AllCreatesMove ==
    ASSUME GInv, [Next]_vars, NEW x \in Runs, create[x] # Nil
    PROVE  OrdP!OnlyMoves(x)
<1>1. CASE Quiet
  BY <1>1, QuietCreates DEF OrdP!OnlyMoves
<1>2. ASSUME NEW q \in Runs, ExecuteCall(q) \/ CompensateCall(q) \/ CancelCall(q)
      PROVE  create' = create
  BY <1>2, ExecuteMakes, CompensateMakes, CancelMakes DEF ExecuteMade, CompensateMade, CancelMade
<1>3. CASE Serve \/ Lose \/ \E s \in Services : Restart(s)
  BY <1>3, ServerMoves DEF CallsMove
<1> QED
  BY <1>1, <1>2, <1>3, Steps, CreatesSame

\* An update is of the order that its run was told.
LEMMA UpdateIsTold ==
    ASSUME GInv, NEW q \in Runs, NEW op \in {"Confirm", "Cancel"},
           update[<<q, op>>] # Nil
    PROVE  told[q] # Nil /\ update[<<q, op>>].id = told[q].id
<1>1. CallInv(q)
  BY DEF GInv
<1>2. CASE op = "Confirm"
  BY <1>1, <1>2 DEF CallInv
<1>3. CASE op = "Cancel"
  BY <1>1, <1>3 DEF CallInv
<1> QED
  BY <1>2, <1>3

\* A step that leaves an update alone, or only sends it.
LEMMA LateStays ==
    ASSUME GInv, [Next]_vars, NEW u \in OrdUpdates,
           update'[u] = update[u] \/ update'[u].pc \in {"lock", "lost"}
    PROVE  LateInv(u)'
<1> SUFFICES ASSUME update'[u] # Nil,
                    update'[u].pc = "old" \/ (update'[u].pc = "done" /\ ~update'[u].ok)
             PROVE  create'[update'[u].id].pc = "old"
  BY DEF LateInv
<1>1. update'[u] = update[u] /\ create[update[u].id].pc = "old" /\ update[u].id \in Runs
  <2>1. update'[u] = update[u] /\ LateInv(u)
    BY DEF GInv
  <2>2. update[u] \in OrdP!Update
    BY <2>1 DEF GInv, PartsInv, OrdP!IInv, OrdP!TypeOK
  <2> QED
    BY <2>1, <2>2 DEF LateInv, OrdP!Update
<1>2. create[update[u].id] # Nil
  <2>1. PICK q \in Runs, op \in {"Confirm", "Cancel"} : u = <<q, op>>
    BY DEF OrdUpdates
  <2>2. update[u] # Nil
    BY <1>1 DEF GInv, PartsInv, OrdP!IInv, OrdP!TypeOK
  <2>3. told[q] # Nil /\ update[u].id = told[q].id
    BY <2>1, <2>2, UpdateIsTold
  <2> QED
    BY <2>3, ToldFacts DEF GInv, PartsInv, Answered
<1> QED
  BY <1>1, <1>2, AllCreatesMove DEF OrdP!OnlyMoves

\* The order of an update was made.
LEMMA UpdatedWasMade ==
    ASSUME GInv, NEW u \in OrdUpdates, update[u] # Nil
    PROVE  /\ update[u].id \in Runs /\ Answered(create[update[u].id])
           /\ create[update[u].id].pc = "done" => orders[update[u].id] # Nil
<1>1. PICK q \in Runs, op \in {"Confirm", "Cancel"} : u = <<q, op>>
  BY DEF OrdUpdates
<1>2. told[q] # Nil /\ update[u].id = told[q].id
  BY <1>1, UpdateIsTold
<1> QED
  BY <1>2, ToldFacts DEF GInv, PartsInv

LEMMA LateKept ==
    ASSUME GInv, [Next]_vars, NEW u \in OrdUpdates
    PROVE  LateInv(u)'
<1>1. OrdP!IInv /\ OrdP!TypeOK /\ LateInv(u)
  BY DEF GInv, PartsInv, OrdP!IInv
<1>2. CASE Quiet
  BY <1>2, QuietMoves, LateStays
<1>3. ASSUME NEW q \in Runs, ExecuteCall(q) PROVE LateInv(u)'
  <2>1. ExecuteMade(q)
    BY <1>3, ExecuteMakes
  <2>2. update'[u] = update[u] \/ update'[u].pc = "lock"
    BY <2>1 DEF ExecuteMade
  <2> QED
    BY <2>2, LateStays
<1>4. ASSUME NEW q \in Runs, CompensateCall(q) PROVE LateInv(u)'
  <2>1. CompensateMade(q)
    BY <1>4, CompensateMakes
  <2>2. update'[u] = update[u]
    BY <2>1 DEF CompensateMade
  <2> QED
    BY <2>2, LateStays
<1>5. ASSUME NEW q \in Runs, CancelCall(q) PROVE LateInv(u)'
  <2>1. CancelMade(q)
    BY <1>5, CancelMakes
  <2>2. update'[u] = update[u] \/ update'[u].pc = "lock"
    BY <2>1 DEF CancelMade
  <2> QED
    BY <2>2, LateStays
<1>6. CASE Serve \/ Lose
  <2>1. CASE UNCHANGED ordVars
    BY <2>1, LateStays DEF ordVars
  <2>2. ASSUME NEW a \in Runs, OrdP!HandleCreate(a) \/ OrdP!LoseCreate(a) PROVE LateInv(u)'
    BY <1>1, <2>2, OrdAssumed, OrdP!CreateMoves, LateStays
  <2>3. ASSUME NEW v \in OrdUpdates, OrdP!UpdateLocked(v) \/ OrdP!LoseUpdate(v) PROVE LateInv(u)'
    <3>1. CASE v # u
      BY <1>1, <2>3, <3>1, OrdAssumed, OrdP!UpdateMoves, LateStays
    <3>2. CASE v = u /\ OrdP!LoseUpdate(u)
      BY <1>1, <3>2, OrdAssumed, OrdP!UpdateMoves, LateStays
    <3>3. CASE v = u /\ OrdP!UpdateLocked(u)
      <4>1. /\ update[u] # Nil /\ update'[u].id = update[u].id /\ update'[u].pc = "done"
            /\ update'[u].ok <=> orders[update[u].id] # Nil
            /\ create' = create
        BY <1>1, <3>3, OrdAssumed, OrdP!UpdateMoves
      <4>2. ~update'[u].ok => create[update[u].id].pc = "old"
        BY <4>1, UpdatedWasMade DEF Answered
      <4> QED
        BY <4>1, <4>2 DEF LateInv
    <3> QED
      BY <2>3, <3>1, <3>2, <3>3
  <2> QED
    BY <1>6, <2>1, <2>2, <2>3, ServeSteps
<1>7. ASSUME NEW s \in Services, Restart(s) PROVE LateInv(u)'
  <2>1. CASE UNCHANGED ordVars
    BY <2>1, LateStays DEF ordVars
  <2>2. CASE Ord!Restart
    <3>1. CASE update[u] = Nil
      <4>1. update'[u] = Nil
        BY <2>2, <3>1 DEF Ord!Restart
      <4> QED
        BY <4>1 DEF LateInv
    <3>2. CASE update[u] # Nil
      <4>1. /\ update[u].id \in Runs /\ create[update[u].id] # Nil
            /\ create[update[u].id].pc \in {"done", "old"}
        BY <3>2, UpdatedWasMade DEF Answered
      <4>2. create'[update[u].id].pc = Ord!AfterRestart(create[update[u].id].pc)
        <5> DEFINE x == update[u].id
        <5>1. create[x] \in OrdP!Create
          BY <1>1, <4>1 DEF OrdP!TypeOK
        <5>2. create'[x] = [create[x] EXCEPT !.pc = Ord!AfterRestart(@)]
          BY <2>2, <4>1 DEF Ord!Restart
        <5> QED
          BY <5>1, <5>2 DEF OrdP!Create
      <4>3. create'[update[u].id].pc = "old"
        BY <4>1, <4>2 DEF Ord!AfterRestart
      <4>4. update'[u].id = update[u].id
        <5>1. update[u] \in OrdP!Update
          BY <1>1, <3>2 DEF OrdP!TypeOK
        <5>2. update'[u] = [update[u] EXCEPT !.pc = Ord!AfterRestart(@)]
          BY <2>2, <3>2 DEF Ord!Restart
        <5> QED
          BY <5>1, <5>2 DEF OrdP!Update
      <4> QED
        BY <4>3, <4>4 DEF LateInv
    <3> QED
      BY <3>1, <3>2
  <2> QED
    BY <1>7, <2>1, <2>2 DEF Restart
<1> QED
  BY <1>2, <1>3, <1>4, <1>5, <1>6, <1>7, Steps

\* Only the POST itself works on an order, unless it is repeated.
LEMMA AloneOwn ==
    ASSUME GInv, NEW r \in Runs, Alone(r), NEW q \in Runs, told[q] # Nil, told[q].id = r
    PROVE  q = r
<1>1. Body[r].key = Body[q].key /\ (Body[q].key = NoKey => r = q)
  BY ToldFacts DEF GInv, PartsInv
<1>2. http[q] # "new"
  BY DEF GInv, WebInv
<1> QED
  BY <1>1, <1>2 DEF Alone

\* A POST that was sent stays sent.
LEMMA AloneBefore ==
    ASSUME GInv, [Next]_vars, NEW r \in Runs, Alone(r)'
    PROVE  Alone(r)
<1>1. ASSUME NEW q \in Runs, http[q] # "new" PROVE http'[q] # "new"
  <2>1. http \in [Runs -> {"new", "creating", "201", "400", "502"}] /\ SagaP!IInv
    BY DEF GInv, PartsInv
  <2>2. ASSUME NEW x \in Runs, PostOrder(x) \/ CreateReturned(x) \/ CreateFailed(x) \/ CancelRpcError(x)
        PROVE  http'[q] # "new"
    BY <1>1, <2>1, <2>2 DEF PostOrder, CreateReturned, CreateFailed, CancelRpcError, webVars
  <2>3. ASSUME NEW x \in Runs, SagaStep(x) PROVE http'[q] # "new"
    BY <1>1, <2>1, <2>3, SagaMoves DEF webVars
  <2>4. ASSUME NEW x \in Runs, CancelCall(x) PROVE http'[q] # "new"
    BY <1>1, <2>4 DEF CancelCall, webVars
  <2>5. CASE Serve \/ Lose \/ \E s \in Services : Restart(s)
    BY <1>1, <2>5, ServerMoves DEF webVars
  <2>6. CASE Crash \/ UNCHANGED vars
    BY <1>1, <2>6 DEF Crash, vars, webVars
  <2> QED
    BY <2>2, <2>3, <2>4, <2>5, <2>6 DEF Next, Gateway, Fault, SagaStep
<1> QED
  BY <1>1 DEF Alone

\* A call that has an answer now was made before this step.
LEMMA AnsweredWasMade ==
    ASSUME GInv, [Next]_vars
    PROVE  /\ \A c \in InvCalls : InvP!Answered(c)' => InvP!OnlyMoves(c) /\ invCall[c] # Nil
           /\ \A c \in PayCalls : PayP!Answered(c)' => PayP!OnlyMoves(c) /\ payCall[c] # Nil
<1>1. InvP!TypeOK
  BY DEF GInv, PartsInv, InvP!IInv
<1>2. /\ \A c \in InvCalls : InvP!OnlyMoves(c) \/ invCall'[c].pc = "get"
      /\ \A c \in PayCalls : PayP!OnlyMoves(c) \/ payCall'[c].pc = "get"
  <2>1. ASSUME \A c \in InvCalls : invCall'[c] = invCall[c] \/ invCall'[c].pc = "get",
               \A c \in PayCalls : payCall'[c] = payCall[c] \/ payCall'[c].pc = "get"
        PROVE  /\ \A c \in InvCalls : InvP!OnlyMoves(c) \/ invCall'[c].pc = "get"
               /\ \A c \in PayCalls : PayP!OnlyMoves(c) \/ payCall'[c].pc = "get"
    <3>1. ASSUME NEW c \in InvCalls, invCall'[c] = invCall[c] PROVE InvP!OnlyMoves(c)
      <4>1. invCall[c] # Nil => invCall[c].pc \in InvP!Pc
        BY <1>1 DEF InvP!TypeOK, InvP!Call
      <4> QED
        BY <3>1, <4>1 DEF InvP!OnlyMoves, InvP!KeepsRequest, InvP!Answered, InvP!Pc
    <3>2. ASSUME NEW c \in PayCalls, payCall'[c] = payCall[c] PROVE PayP!OnlyMoves(c)
      BY <3>2 DEF PayP!OnlyMoves, PayP!KeepsRequest, PayP!Answered
    <3> QED
      BY <2>1, <3>1, <3>2
  <2>2. CASE Quiet
    BY <2>1, <2>2, QuietMoves DEF invVars, payVars
  <2>3. ASSUME NEW q \in Runs, ExecuteMade(q)
        PROVE  /\ \A c \in InvCalls : invCall'[c] = invCall[c] \/ invCall'[c].pc = "get"
               /\ \A c \in PayCalls : payCall'[c] = payCall[c] \/ payCall'[c].pc = "get"
    BY <2>3 DEF ExecuteMade
  <2>4. ASSUME NEW q \in Runs, CompensateMade(q)
        PROVE  /\ \A c \in InvCalls : invCall'[c] = invCall[c] \/ invCall'[c].pc = "get"
               /\ \A c \in PayCalls : payCall'[c] = payCall[c] \/ payCall'[c].pc = "get"
    BY <2>4 DEF CompensateMade
  <2>5. ASSUME NEW q \in Runs, CancelMade(q) PROVE invCall' = invCall /\ payCall' = payCall
    BY <2>5 DEF CancelMade, invVars, payVars
  <2>6. CASE \E q \in Runs : ExecuteCall(q) \/ CompensateCall(q) \/ CancelCall(q)
    <3>1. PICK q \in Runs : ExecuteMade(q) \/ CompensateMade(q) \/ CancelMade(q)
      BY <2>6, ExecuteMakes, CompensateMakes, CancelMakes
    <3> QED
      BY <2>1, <2>3, <2>4, <2>5, <3>1
  <2>7. CASE Serve \/ Lose \/ \E s \in Services : Restart(s)
    BY <2>7, ServerMoves DEF CallsMove
  <2> QED
    BY <2>2, <2>6, <2>7, Steps
<1> QED
  BY <1>2 DEF InvP!Answered, InvP!OnlyMoves, PayP!Answered, PayP!OnlyMoves

\* Once a Release, or a Refund, of r's own order is answered nobody is about to
\* reserve it, or to charge it: r made the other call before and has its answer.
LEMMA NothingComesAfterRelease ==
    ASSUME GInv, [Next]_vars, NEW r \in Runs, Alone(r), InvP!Released(r)',
           NEW c \in InvCalls, InvP!At(c, "Reserve", "get") \/ InvP!At(c, "Reserve", "lock")
    PROVE  invCall[c].req.order # r
<1>1. PICK d \in InvCalls : InvP!Answered(d)' /\ invCall'[d].op = "Release" /\ invCall'[d].order = r
  BY DEF InvP!Released
<1>2. invCall[d] # Nil /\ invCall[d].op = "Release" /\ invCall[d].order = r
  <2>1. InvP!OnlyMoves(d) /\ invCall[d] # Nil /\ invCall[d] \in InvP!Call
    BY <1>1, AnsweredWasMade DEF GInv, PartsInv, InvP!IInv, InvP!TypeOK
  <2>2. invCall[d].op = "Release"
    BY <1>1, <2>1 DEF InvP!OnlyMoves, InvP!KeepsRequest
  <2> QED
    BY <1>1, <2>1, <2>2 DEF InvP!OnlyMoves, InvP!KeepsRequest
<1>4. PICK q \in Runs : told[q] # Nil /\ told[q].id = r /\ d = <<q, "Release">>
  BY <1>2, WhoseInvCall
<1>5. q = r
  BY <1>4, AloneOwn
<1>6. Answered(invCall[<<r, "Reserve">>])
  BY <1>2, <1>4, <1>5 DEF GInv, StepInv, StepAt, UndoAt
<1> SUFFICES ASSUME invCall[c].req.order = r PROVE FALSE
  OBVIOUS
<1>8. /\ invCall[c] # Nil /\ invCall[c].op = "Reserve" /\ invCall[c].pc \in {"get", "lock"}
  BY DEF InvP!At
<1>9. PICK p \in Runs :
         told[p] # Nil /\ c = <<p, "Reserve">> /\ invCall[c].req = ReserveOf(told[p].id)
  BY <1>8, WhoseInvCall
<1>10. told[p].id = r
  BY <1>9 DEF ReserveOf
<1>11. p = r
  BY <1>9, <1>10, AloneOwn
<1> QED
  BY <1>6, <1>8, <1>9, <1>11 DEF Answered

LEMMA NothingComesAfterRefund ==
    ASSUME GInv, [Next]_vars, NEW r \in Runs, Alone(r), PayP!Refunded(r)',
           NEW c \in PayCalls, PayP!At(c, "Charge", "get") \/ PayP!At(c, "Charge", "lock")
    PROVE  payCall[c].req.order # r
<1>1. PICK d \in PayCalls : PayP!Answered(d)' /\ payCall'[d].op = "Refund" /\ payCall'[d].order = r
  BY DEF PayP!Refunded
<1>2. payCall[d] # Nil /\ payCall[d].op = "Refund" /\ payCall[d].order = r
  <2>1. PayP!OnlyMoves(d) /\ payCall[d] # Nil
    BY <1>1, AnsweredWasMade
  <2>2. payCall[d].op = "Refund"
    BY <1>1, <2>1 DEF PayP!OnlyMoves, PayP!KeepsRequest
  <2> QED
    BY <1>1, <2>1, <2>2 DEF PayP!OnlyMoves, PayP!KeepsRequest
<1>4. PICK q \in Runs : told[q] # Nil /\ told[q].id = r /\ d = <<q, "Refund">>
  BY <1>2, WhosePayCall
<1>5. q = r
  BY <1>4, AloneOwn
<1>6. Answered(payCall[<<r, "Charge">>])
  BY <1>2, <1>4, <1>5 DEF GInv, StepInv, StepAt, UndoAt
<1> SUFFICES ASSUME payCall[c].req.order = r PROVE FALSE
  OBVIOUS
<1>8. payCall[c] # Nil /\ payCall[c].op = "Charge" /\ payCall[c].pc \in {"get", "lock"}
  BY DEF PayP!At
<1>9. PICK p \in Runs :
         told[p] # Nil /\ c = <<p, "Charge">> /\ payCall[c].req = ChargeOf(told[p].id)
  BY <1>8, WhosePayCall
<1>10. told[p].id = r
  BY <1>9 DEF ChargeOf
<1>11. p = r
  BY <1>9, <1>10, AloneOwn
<1> QED
  BY <1>6, <1>8, <1>9, <1>11 DEF Answered

LEMMA GivenBackKept ==
    ASSUME GInv, [Next]_vars, NEW r \in Runs
    PROVE  GivenBack(r)'
<1> SUFFICES ASSUME Alone(r)'
             PROVE  /\ InvP!Released(r)' => reservations'[r] = Nil
                    /\ PayP!Refunded(r)' => payments'[r] = Nil
  BY DEF GivenBack
<1>1. Alone(r)
  BY AloneBefore
<1>2. /\ InvP!Released(r) => reservations[r] = Nil
      /\ PayP!Refunded(r) => payments[r] = Nil
  BY <1>1 DEF GInv, GivenBack
<1>3. AsSpecified
  BY StepParts
<1>4. [InvP!Next]_(InvP!vars) /\ [PayP!Next]_(PayP!vars)
  BY <1>3, InvSame, PaySame DEF AsSpecified, InvP!vars, PayP!vars, invVars, payVars
<1>5. InvP!IInv /\ InvP!CallerInv /\ PayP!IInv /\ PayP!CallerInv
  BY DEF GInv, PartsInv
<1>6. InvP!Released(r)' => reservations'[r] = Nil
  <2>1. InvP!Released(r)' =>
           \A c \in InvCalls : ~((InvP!At(c, "Reserve", "get") \/ InvP!At(c, "Reserve", "lock"))
                                 /\ invCall[c].req.order = r)
    BY <1>1, NothingComesAfterRelease
  <2> QED
    BY <1>2, <1>4, <1>5, <2>1, InvAssumed, InvP!StaysReleased
<1>7. PayP!Refunded(r)' => payments'[r] = Nil
  <2>1. PayP!Refunded(r)' =>
           \A c \in PayCalls : ~((PayP!At(c, "Charge", "get") \/ PayP!At(c, "Charge", "lock"))
                                 /\ payCall[c].req.order = r)
    BY <1>1, NothingComesAfterRefund
  <2> QED
    BY <1>2, <1>4, <1>5, <2>1, PayAssumed, PayP!StaysRefunded
<1> QED
  BY <1>6, <1>7

-----------------------------------------------------------------------------
(* The invariant is inductive.                                                 *)

LEMMA InitInv == Init => GInv
<1> SUFFICES ASSUME Init PROVE GInv
  OBVIOUS
<1>1. SagaP!Init /\ InvP!Init /\ PayP!Init /\ OrdP!Init
  BY SagaSame, InvSame, PaySame, OrdSame DEF Init
<1>2. SagaP!IInv
  BY <1>1, SagaAssumed, SagaP!InitInv
<1>3. InvP!IInv /\ InvP!CallerInv
  <2>1. InvP!IInv
    BY <1>1, InvAssumed, InvP!InitInv
  <2>2. InvP!CallerInv
    BY <1>1 DEF InvP!Init, InvP!CallerInv, InvP!MadeByAnswer, InvP!ReleaseKey
  <2> QED
    BY <2>1, <2>2
<1>4. PayP!IInv /\ PayP!CallerInv
  <2>1. PayP!IInv
    BY <1>1, PayAssumed, PayP!InitInv
  <2>2. PayP!CallerInv
    BY <1>1 DEF PayP!Init, PayP!CallerInv, PayP!MadeByAnswer, PayP!RefundKey
  <2> QED
    BY <2>1, <2>2
<1>5. OrdP!IInv /\ \A id \in Runs : OrdP!StatusInv(id)
  <2>1. OrdP!IInv
    BY <1>1, OrdAssumed, OrdP!InitInv
  <2>2. \A id \in Runs : OrdP!StatusInv(id)
    BY <1>1 DEF OrdP!Init, OrdP!StatusInv, OrdP!Carried
  <2> QED
    BY <2>1, <2>2
<1>6. PartsInv
  BY <1>2, <1>3, <1>4, <1>5 DEF PartsInv
<1>7. /\ http \in [Runs -> {"new", "creating", "201", "400", "502"}]
      /\ told \in [Runs -> Ord!Proto \cup {Nil}] /\ broken = {} /\ gone = {}
      /\ restarts \in [Services -> Nat]
  BY DEF Init
<1>8. /\ \A c \in InvCalls : invCall[c] = Nil
      /\ \A c \in PayCalls : payCall[c] = Nil
      /\ \A u \in OrdUpdates : update[u] = Nil
      /\ \A r \in Runs : /\ create[r] = Nil /\ told[r] = Nil /\ http[r] = "new" /\ pc[r] = "new"
                         /\ cur[r] = 1 /\ reservations[r] = Nil /\ payments[r] = Nil
                         /\ forgotten[r] = 0
  BY <1>1 DEF Init, SagaP!Init, InvP!Init, PayP!Init, OrdP!Init
<1>9. ASSUME NEW r \in Runs PROVE WebInv(r) /\ CallInv(r) /\ StepInv(r) /\ GivenBack(r)
  <2>1. /\ invCall[<<r, "Reserve">>] = Nil /\ invCall[<<r, "Release">>] = Nil
        /\ payCall[<<r, "Charge">>] = Nil /\ payCall[<<r, "Refund">>] = Nil
        /\ update[<<r, "Confirm">>] = Nil /\ update[<<r, "Cancel">>] = Nil
    BY <1>8, OwnCalls
  <2>2. WebInv(r)
    BY <1>7, <1>8 DEF WebInv
  <2>3. CallInv(r)
    BY <2>1 DEF CallInv
  <2>4. StepInv(r)
    BY <1>8, <2>1 DEF StepInv, StepAt, UndoAt
  <2> QED
    BY <1>8, <2>2, <2>3, <2>4 DEF GivenBack
<1>10. OldInv
  BY <1>8 DEF OldInv
<1>11. \A u \in OrdUpdates : LateInv(u)
  BY <1>8 DEF LateInv
<1> QED
  BY <1>6, <1>7, <1>9, <1>10, <1>11 DEF GInv

\* The calls the gateway may give up on.
Sendable == InvCalls \cup PayCalls \cup OrdUpdates \cup (Runs \X {"Create"})

LEMMA BrokenKept ==
    ASSUME GInv, [Next]_vars
    PROVE  broken' \subseteq Sendable
<1>1. broken \subseteq Sendable /\ SagaP!IInv
  BY DEF GInv, PartsInv, Sendable
<1>2. ASSUME NEW q \in Runs, NEW c, NEW rec, RpcError(c, rec), c \in Sendable
      PROVE  broken' \subseteq Sendable
  BY <1>1, <1>2 DEF RpcError
<1>3. ASSUME NEW q \in Runs, CreateFailed(q) PROVE broken' \subseteq Sendable
  <2>1. <<q, "Create">> \in Sendable
    BY DEF Sendable
  <2> QED
    BY <1>2, <1>3, <2>1 DEF CreateFailed
<1>4. ASSUME NEW q \in Runs, ExecuteRpcError(q) PROVE broken' \subseteq Sendable
  <2>1. cur[q] \in 1..3
    BY <1>1, <1>4 DEF ExecuteRpcError, Saga!ExecuteErr, Saga!Goto, SagaP!IInv, SagaP!TypeOK,
                      SagaP!RunInv, SagaP!CurAtPc
  <2>2. ExecuteId(q) \in {<<q, "Reserve">>, <<q, "Charge">>, <<q, "Confirm">>}
    BY <2>1 DEF ExecuteId
  <2>3. ExecuteId(q) \in Sendable
    BY <2>2, OwnCalls DEF Sendable
  <2> QED
    BY <1>2, <1>4, <2>3 DEF ExecuteRpcError
<1>5. ASSUME NEW q \in Runs, CompensateRpcError(q) PROVE broken' \subseteq Sendable
  <2>1. pc[q] = "compensating" /\ SagaP!RunInv(q) /\ cur[q] \in 1..4 /\ back[q] \in 0..3
    BY <1>1, <1>5 DEF CompensateRpcError, SagaP!IInv, SagaP!TypeOK
  <2>2. back[q] \in 1..(cur[q] - 1) /\ cur[q] <= 3
    BY <2>1 DEF SagaP!RunInv, SagaP!UndoneIsSuffix, SagaP!CurAtPc
  <2>3. completed[q][back[q]] = back[q]
    BY <2>1, <2>2 DEF SagaP!RunInv, SagaP!CompletedIsPrefix
  <2>4. back[q] = 1 \/ back[q] = 2
    BY <2>1, <2>2
  <2>5. CompensateId(q) \in {<<q, "Release">>, <<q, "Refund">>}
    BY <2>3, <2>4 DEF CompensateId
  <2>6. CompensateId(q) \in Sendable
    BY <2>5, OwnCalls DEF Sendable
  <2> QED
    BY <1>2, <1>5, <2>6 DEF CompensateRpcError
<1>6. ASSUME NEW q \in Runs, CancelRpcError(q) PROVE broken' \subseteq Sendable
  <2>1. <<q, "Cancel">> \in Sendable
    BY OwnCalls DEF Sendable
  <2> QED
    BY <1>2, <1>6, <2>1 DEF CancelRpcError
<1>7. ASSUME NEW q \in Runs,
             \/ PostOrder(q) \/ CreateReturned(q) \/ SagaStart(q) \/ SagaSave(q) \/ ExecuteCall(q)
             \/ ExecuteReturn(q) \/ CompensateCall(q) \/ CompensateReturn(q) \/ CancelCall(q)
      PROVE  broken' = broken
  BY <1>7 DEF PostOrder, CreateReturned, SagaStart, SagaSave, ExecuteCall, ExecuteReturn,
              CompensateCall, CompensateReturn, CancelCall, netVars
<1>8. CASE Serve \/ Lose \/ Crash \/ UNCHANGED vars \/ \E s \in Services : Restart(s)
  BY <1>1, <1>8 DEF Serve, Lose, Crash, Restart, vars, netVars
<1> QED
  BY <1>1, <1>3, <1>4, <1>5, <1>6, <1>7, <1>8 DEF Next, Gateway, Fault

LEMMA TypesKept ==
    ASSUME GInv, [Next]_vars
    PROVE  /\ http' \in [Runs -> {"new", "creating", "201", "400", "502"}]
           /\ told' \in [Runs -> Ord!Proto \cup {Nil}]
           /\ gone' \subseteq Runs /\ restarts' \in [Services -> Nat]
<1> DEFINE Types == /\ http' \in [Runs -> {"new", "creating", "201", "400", "502"}]
                    /\ told' \in [Runs -> Ord!Proto \cup {Nil}]
                    /\ gone' \subseteq Runs /\ restarts' \in [Services -> Nat]
<1>1. /\ http \in [Runs -> {"new", "creating", "201", "400", "502"}]
      /\ told \in [Runs -> Ord!Proto \cup {Nil}]
      /\ gone \subseteq Runs /\ restarts \in [Services -> Nat] /\ OrdP!TypeOK
  BY DEF GInv, PartsInv, OrdP!IInv
<1>2. ASSUME NEW q \in Runs, PostOrder(q) \/ CreateFailed(q) PROVE Types
  BY <1>1, <1>2 DEF PostOrder, CreateFailed, RpcError, netVars
<1>3. ASSUME NEW q \in Runs, CreateReturned(q) PROVE Types
  <2>1. create[q].reply \in Ord!Proto
    BY <1>1, <1>3, AnswerIsProto DEF CreateReturned
  <2>2. mapProtoOrderToEntity(create[q].reply) \in Ord!Proto
    BY <2>1, EntityIsProto
  <2> QED
    BY <1>1, <1>3, <2>2 DEF CreateReturned, netVars
<1>4. ASSUME NEW q \in Runs,
             \/ SagaStart(q) \/ SagaSave(q) \/ ExecuteCall(q) \/ ExecuteReturn(q) \/ ExecuteRpcError(q)
             \/ CompensateCall(q) \/ CompensateReturn(q) \/ CompensateRpcError(q)
             \/ CancelCall(q) \/ CancelRpcError(q)
      PROVE  UNCHANGED <<webVars, restarts>>
  BY <1>4 DEF SagaStart, SagaSave, ExecuteCall, ExecuteReturn, ExecuteRpcError, CompensateCall,
              CompensateReturn, CompensateRpcError, CancelCall, CancelRpcError, RpcError, netVars
<1>5. CASE Serve \/ Lose \/ UNCHANGED vars
  BY <1>1, <1>5 DEF Serve, Lose, vars, netVars, webVars
<1>6. CASE Crash
  BY <1>1, <1>6 DEF Crash, UnderWay, netVars
<1>7. ASSUME NEW s \in Services, Restart(s) PROVE Types
  BY <1>1, <1>7 DEF Restart, webVars
<1> QED
  BY <1>1, <1>2, <1>3, <1>4, <1>5, <1>6, <1>7 DEF Next, Gateway, Fault, webVars

LEMMA NextInv == GInv /\ [Next]_vars => GInv'
<1> SUFFICES ASSUME GInv, [Next]_vars PROVE GInv'
  OBVIOUS
<1>1. PartsInv'
  BY PartsKept
<1>2. \A r \in Runs : WebInv(r)' /\ CallInv(r)' /\ StepInv(r)' /\ GivenBack(r)'
  BY WebKept, CallKept, StepKept, GivenBackKept
<1>3. OldInv' /\ \A u \in OrdUpdates : LateInv(u)'
  BY OldKept, LateKept
<1>4. /\ http' \in [Runs -> {"new", "creating", "201", "400", "502"}]
      /\ told' \in [Runs -> Ord!Proto \cup {Nil}]
      /\ gone' \subseteq Runs /\ restarts' \in [Services -> Nat]
  BY TypesKept
<1>5. broken' \subseteq InvCalls \cup PayCalls \cup OrdUpdates \cup (Runs \X {"Create"})
  BY BrokenKept DEF Sendable
<1>6. (Ord!Proto)' = Ord!Proto /\ InvCalls' = InvCalls /\ PayCalls' = PayCalls /\ OrdUpdates' = OrdUpdates
  BY DEF InvCalls, PayCalls, OrdUpdates
<1> QED
  BY <1>1, <1>2, <1>3, <1>4, <1>5, <1>6 DEF GInv

\* All of the above holds at all times: the handlers, the sagas and the services
\* are where the calls between them say they are (GInv).
THEOREM Invariance == Spec => []GInv
<1>1. Init => GInv
  BY InitInv
<1>2. GInv /\ [Next]_vars => GInv'
  BY NextInv
<1> QED
  BY <1>1, <1>2, PTL DEF Spec

-----------------------------------------------------------------------------
(* The gateway keeps to the terms of its parts.                                *)

\* ComponentsAsSpecified: every step of the whole system is, for the engine and for
\* each service, one of its own steps or none.  In particular a POST without a key
\* never reserves twice, and what a saga sends is what the order was made of, so all
\* that is proved of a part for arbitrary clients holds inside the system.
THEOREM Components == Spec => ComponentsAsSpecified
<1>1. Init => Saga!Init /\ Inv!Init /\ Pay!Init /\ Ord!Init
  BY DEF Init
<1>2. GInv /\ [Next]_vars =>
         [/\ UNCHANGED sagaVars \/ Saga!Next
          /\ UNCHANGED invVars \/ Inv!Next
          /\ UNCHANGED payVars \/ Pay!Next
          /\ UNCHANGED ordVars \/ Ord!Next]_vars
  BY StepParts DEF AsSpecified
<1> QED
  BY <1>1, <1>2, Invariance, PTL DEF Spec, ComponentsAsSpecified

\* TypeOK: the types of the whole system, that a handler knows an order exactly when
\* it has answered 201 included.
THEOREM TypeCorrect == Spec => []TypeOK
<1>1. GInv => TypeOK
  BY SagaSame, InvSame, PaySame, OrdSame
  DEF GInv, PartsInv, WebInv, TypeOK, SagaP!IInv, InvP!IInv, PayP!IInv, OrdP!IInv
<1> QED
  BY <1>1, Invariance, PTL

-----------------------------------------------------------------------------
(* What is stored is what the POST asked for.                                  *)

LEMMA StoredFacts ==
    ASSUME GInv, NEW id \in Runs, orders[id] # Nil
    PROVE  /\ orders[id] \in Ord!Order /\ orders[id].id = id
           /\ Valid(id)
           /\ orders[id].items = Lines(id) /\ orders[id].key = Body[id].key
           /\ orders[id].total = Ord!calculateTotal(Lines(id))
           /\ create[id].pc = "done"
<1>1. /\ orders[id] \in OrdP!Order /\ orders[id].id = id /\ OrdP!Made(orders[id])
      /\ orders[id].key = create[id].req.key /\ create[id].pc = "done"
  BY DEF GInv, PartsInv, OrdP!IInv, OrdP!TypeOK, OrdP!StoredIsMade
<1>2. /\ create[id] # Nil /\ orders[id].items = create[id].req.items
      /\ orders[id].total = OrdP!calculateTotal(orders[id].items)
  BY <1>1 DEF OrdP!Made
<1>3. create[id].req = CreateRequest(id) /\ Valid(id)
  BY <1>2 DEF GInv, WebInv
<1>4. CreateRequest(id).items = Lines(id) /\ CreateRequest(id).key = Body[id].key
  BY <1>3, CreateItems DEF Lines
<1> QED
  BY <1>1, <1>2, <1>3, <1>4, SameValues

LEMMA ReservedFacts ==
    ASSUME GInv, NEW id \in Runs, reservations[id] # Nil
    PROVE  /\ Valid(id)
           /\ reservations[id].items = StockItems(Lines(id))
           /\ reservations[id].key = Body[id].key
<1>1. reservations[id] \in ReserveRequests /\ reservations[id].order = id
  BY DEF GInv, PartsInv, InvP!IInv, InvP!TypeOK, InvP!FiledByOrder
<1>2. PICK r \in Posts : reservations[id] = ReserveOf(r)
  BY <1>1, ReserveRequestsAre
<1> QED
  BY <1>1, <1>2 DEF ReserveOf, Posts

LEMMA PaidFacts ==
    ASSUME GInv, NEW id \in Runs, payments[id] # Nil
    PROVE  Valid(id) /\ payments[id] = Ord!calculateTotal(Lines(id))
<1>1. PICK q \in ChargeRequests : q.order = id /\ payments[id] = q.amount
  BY DEF GInv, PartsInv, PayP!IInv, PayP!PaymentWasAsked
<1>2. PICK r \in Posts : q = ChargeOf(r)
  BY ReserveRequestsAre
<1> QED
  BY <1>1, <1>2 DEF ChargeOf, Posts

\* EffectsMatchOrder: for any bodies, retries that carry another body, crashes and
\* restarts, what is stored, reserved and paid under an id is what the POST with that
\* id asked for, and one and the same order if a quantity did not fit into an int32.
THEOREM Match == Spec => []EffectsMatchOrder
<1>1. ASSUME GInv PROVE EffectsMatchOrder
  <2> SUFFICES ASSUME NEW id \in Runs,
                      NEW items, items = IF Fits(id) THEN Body[id].items ELSE CreateRequest(id).items
               PROVE  /\ orders[id] # Nil => orders[id].items = items
                      /\ reservations[id] # Nil => reservations[id].items = StockItems(items)
                      /\ payments[id] # Nil => payments[id] = Ord!calculateTotal(items)
    BY DEF EffectsMatchOrder
  <2>1. Valid(id) => items = Lines(id)
    BY FitsItems DEF Lines
  <2> QED
    BY <1>1, <2>1, StoredFacts, ReservedFacts, PaidFacts
<1> QED
  BY <1>1, Invariance, PTL

\* What GET /orders/{id} shows.
LEMMA Seen ==
    ASSUME GInv, NEW id \in Runs
    PROVE  /\ orders[id] = Nil => GetOrderByID(id) = [code |-> "404"]
           /\ orders[id] # Nil =>
                 GetOrderByID(id) =
                    [code |-> "200", body |-> [id |-> orders[id].id, status |-> orders[id].status,
                                               total |-> orders[id].total, items |-> orders[id].items]]
<1>1. CASE orders[id] = Nil
  BY <1>1 DEF GetOrderByID, GetOrder, Ord!GetOrder
<1>2. CASE orders[id] # Nil
  <2> DEFINE po == Ord!OrderToProto(orders[id])
  <2>1. orders[id] \in Ord!Order
    BY <1>2, StoredFacts
  <2>2. po \in Ord!Proto
    BY <2>1 DEF Ord!Proto
  <2>3. Ord!GetOrder(id) = po /\ po # Nil
    BY <1>2, <2>2, EntityIsProto DEF Ord!GetOrder
  <2>4. GetOrder(id) = po
    BY <2>2, <2>3, EntityIsProto DEF GetOrder
  <2>5. GetOrderByID(id) = [code |-> "200", body |-> mapOrderToResponse(po)]
    BY <2>3, <2>4 DEF GetOrderByID
  <2>6. orders[id].status \in Ord!Status
    BY <2>1 DEF Ord!Order
  <2>7. mapOrderToResponse(po) = [id |-> orders[id].id, status |-> orders[id].status,
                                  total |-> orders[id].total, items |-> orders[id].items]
    BY <2>6 DEF mapOrderToResponse, Ord!OrderToProto, Ord!mapStatusToProto
  <2> QED
    BY <1>2, <2>5, <2>7
<1> QED
  BY <1>1, <1>2

\* An order a handler was told of is stored, until the order service is restarted.
LEMMA ToldIsStored ==
    ASSUME GInv, NEW r \in Runs, told[r] # Nil, "order" \notin restarted
    PROVE  orders[told[r].id] # Nil
<1>1. /\ told[r].id \in Runs /\ Answered(create[told[r].id])
      /\ create[told[r].id].pc = "done" => orders[told[r].id] # Nil
  BY ToldFacts DEF GInv, PartsInv
<1>2. create[told[r].id].pc # "old"
  BY <1>1 DEF GInv, OldInv, Answered
<1> QED
  BY <1>1, <1>2 DEF Answered

\* AcceptedIsVisible: after a 201, GET finds the order with the items and the total of
\* the answer, whichever POST created it, until the order service is restarted.
THEOREM Visible == Spec => []AcceptedIsVisible
<1>1. ASSUME GInv PROVE AcceptedIsVisible
  <2> SUFFICES ASSUME NEW r \in Runs, told[r] # Nil, "order" \notin restarted
               PROVE  LET accepted == mapOrderToResponse(told[r])
                          seen     == GetOrderByID(accepted.id)
                      IN  /\ seen.code = "200"
                          /\ seen.body.items = accepted.items /\ seen.body.total = accepted.total
    BY DEF AcceptedIsVisible
  <2>1. /\ told[r].id \in Runs /\ told[r].items = Lines(told[r].id)
        /\ told[r].total = Ord!calculateTotal(Lines(told[r].id))
    BY <1>1, ToldFacts DEF GInv, PartsInv
  <2>2. orders[told[r].id] # Nil
    BY <1>1, ToldIsStored
  <2>3. /\ orders[told[r].id].items = told[r].items
        /\ orders[told[r].id].total = told[r].total
    BY <1>1, <2>1, <2>2, StoredFacts
  <2>4. /\ GetOrderByID(told[r].id).code = "200"
        /\ GetOrderByID(told[r].id).body.items = told[r].items
        /\ GetOrderByID(told[r].id).body.total = told[r].total
    BY <1>1, <2>1, <2>2, <2>3, Seen
  <2>5. /\ mapOrderToResponse(told[r]).id = told[r].id
        /\ mapOrderToResponse(told[r]).items = told[r].items
        /\ mapOrderToResponse(told[r]).total = told[r].total
    BY DEF mapOrderToResponse
  <2> QED
    BY <2>4, <2>5
<1> QED
  BY <1>1, Invariance, PTL

\* Whoever is charged for has an order.
LEMMA PaidIsStored ==
    ASSUME GInv, NEW id \in Runs, payments[id] # Nil, "order" \notin restarted
    PROVE  orders[id] # Nil
<1>1. PICK c \in PayCalls : PayP!At(c, "Charge", "done") /\ payCall[c].req.order = id
  BY DEF GInv, PartsInv, PayP!CallerInv, PayP!MadeByAnswer
<1>2. PICK q \in Runs : told[q] # Nil /\ payCall[c].req = ChargeOf(told[q].id)
  BY <1>1, WhosePayCall DEF PayP!At
<1>3. told[q].id = id
  BY <1>1, <1>2 DEF ChargeOf
<1> QED
  BY <1>2, <1>3, ToldIsStored

\* ExactlyOncePerKey: however many POSTs repeat a key and however their sagas race,
\* they have at most one order, one reservation and one payment between them, while
\* the order and the payment services stay up.
THEOREM Once == Spec => []ExactlyOncePerKey
<1>1. ASSUME GInv PROVE ExactlyOncePerKey
  <2> SUFFICES ASSUME NEW a \in Runs, NEW b \in Runs, a # b, Body[a].key = Body[b].key,
                      Body[a].key # NoKey, restarted \subseteq {"inventory"}
               PROVE  /\ orders[a] = Nil \/ orders[b] = Nil
                      /\ reservations[a] = Nil \/ reservations[b] = Nil
                      /\ (captures[a] - refunds[a]) + (captures[b] - refunds[b]) <= 1
    BY DEF ExactlyOncePerKey
  <2>1. orders[a] = Nil \/ orders[b] = Nil
    BY <1>1, StoredFacts DEF GInv, PartsInv, OrdP!IInv, OrdP!UniqueKey
  <2>2. reservations[a] = Nil \/ reservations[b] = Nil
    <3>1. InvP!OneReservationPerKey
      BY <1>1 DEF GInv, PartsInv, InvP!IInv
    <3>2. \A x \in Runs : reservations[x] # Nil => reservations[x].key = Body[x].key
      BY <1>1, ReservedFacts
    <3> QED
      BY <3>1, <3>2 DEF InvP!OneReservationPerKey
  <2>3. payments[a] = Nil \/ payments[b] = Nil
    BY <1>1, <2>1, PaidIsStored
  <2>4. /\ captures \in [Runs -> Nat] /\ refunds \in [Runs -> Nat]
        /\ \A x \in Runs : /\ forgotten[x] = 0
                           /\ captures[x] - refunds[x] - forgotten[x] =
                                 IF payments[x] = Nil THEN 0 ELSE 1
    BY <1>1 DEF GInv, PartsInv, OldInv, PayP!IInv, PayP!TypeOK, PayP!MoneyIsAccounted
  <2>5. ASSUME NEW x \in Runs
        PROVE  /\ captures[x] \in Nat /\ refunds[x] \in Nat
               /\ captures[x] - refunds[x] = IF payments[x] = Nil THEN 0 ELSE 1
    BY <2>4
  <2> QED
    BY <2>1, <2>2, <2>3, <2>5
<1> QED
  BY <1>1, Invariance, PTL

-----------------------------------------------------------------------------
(* What a saga leaves behind.                                                  *)

\* The order of a run is its own, unless the POST is repeated.
LEMMA AloneId ==
    ASSUME GInv, NEW r \in Runs, Alone(r), told[r] # Nil
    PROVE  told[r].id = r
<1>1. /\ told[r].id \in Runs /\ http[told[r].id] # "new" /\ Body[told[r].id].key = Body[r].key
      /\ Body[r].key = NoKey => told[r].id = r
  BY ToldFacts DEF GInv, PartsInv
<1> QED
  BY <1>1 DEF Alone

\* Nobody reserved, released, charged or refunded an order with the key of r but r.
LEMMA AloneKey ==
    ASSUME GInv, NEW r \in Runs, Alone(r), NEW q \in Runs, told[q] # Nil,
           Body[told[q].id].key = Body[r].key, Body[r].key # NoKey
    PROVE  q = r
<1>1. Body[told[q].id].key = Body[q].key /\ http[q] # "new"
  BY ToldFacts DEF GInv, PartsInv, WebInv
<1> QED
  BY <1>1 DEF Alone

\* A saga that completed has the answers to its three calls.
LEMMA CompletedSteps ==
    ASSUME GInv, NEW r \in Runs, pc[r] = "completed"
    PROVE  /\ Answered(invCall[<<r, "Reserve">>]) /\ invCall[<<r, "Reserve">>].ok
           /\ Answered(payCall[<<r, "Charge">>]) /\ payCall[<<r, "Charge">>].ok
           /\ Answered(update[<<r, "Confirm">>]) /\ update[<<r, "Confirm">>].ok
<1>1. StepInv(r) /\ cur[r] = 4
  BY DEF GInv, PartsInv, SagaP!IInv, SagaP!RunInv, SagaP!CurAtPc
<1> QED
  BY <1>1 DEF StepInv, StepAt

\* After a Reserve that succeeded the items are there, and nobody took them back.
LEMMA CompletedHolds ==
    ASSUME GInv, NEW r \in Runs, pc[r] = "completed", Alone(r), "inventory" \notin restarted
    PROVE  reservations[r] # Nil
<1> DEFINE c == <<r, "Reserve">>
<1>1. told[r] # Nil /\ told[r].id = r
  BY BegunIsTold, AloneId DEF GInv
<1>2. Answered(invCall[c]) /\ invCall[c].ok /\ c \in InvCalls
  BY CompletedSteps, OwnCalls
<1>3. /\ invCall[c] # Nil /\ invCall[c].op = "Reserve" /\ invCall[c].req = ReserveOf(r)
      /\ invCall[c].pc = "done"
  <2>1. CallInv(r) /\ (invCall[c] # Nil => invCall[c].pc # "old")
    BY <1>2 DEF GInv, OldInv
  <2> QED
    BY <1>1, <1>2, <2>1 DEF CallInv, Answered
<1>4. InvP!At(c, "Reserve", "done")
  BY <1>3 DEF InvP!At
<1>5. ASSUME NEW x \in InvP!Same(ReserveOf(r)), NEW q \in Runs, told[q] # Nil, told[q].id = x.order
      PROVE  q = r
  <2>1. PICK p \in Posts : x = ReserveOf(p)
    BY ReserveRequestsAre DEF InvP!Same
  <2>2. p \in Runs /\ told[q].id = p /\ (p = r \/ (Body[p].key = Body[r].key /\ Body[r].key # NoKey))
    BY <1>5, <2>1 DEF InvP!Same, ReserveOf, Posts
  <2> QED
    BY <1>5, <2>2, AloneOwn, AloneKey
<1>6. InvP!Undisturbed(ReserveOf(r))
  <2>1. ASSUME NEW x \in InvP!Same(ReserveOf(r)), InvP!ReleaseSent(x.order) PROVE FALSE
    <3>1. PICK d \in InvCalls : invCall[d] # Nil /\ invCall[d].op = "Release" /\ invCall[d].order = x.order
      BY <2>1 DEF InvP!ReleaseSent
    <3>2. PICK q \in Runs : told[q] # Nil /\ d = <<q, "Release">> /\ told[q].id = x.order
      BY <3>1, WhoseInvCall
    <3>3. d = <<r, "Release">>
      BY <1>5, <3>2
    <3> QED
      BY <3>1, <3>3 DEF GInv, StepInv, UndoAt
  <2>2. \A d \in InvCalls : ~InvP!At(d, "Reserve", "old")
    BY DEF GInv, OldInv, InvP!At
  <2> QED
    BY <2>1, <2>2 DEF InvP!Undisturbed
<1>7. InvP!HeldFor(ReserveOf(r))
  <2>1. InvP!AnswerIsHeld(c)
    BY <1>2 DEF GInv, PartsInv, InvP!IInv
  <2> QED
    BY <1>2, <1>3, <1>4, <1>6, <2>1 DEF InvP!AnswerIsHeld
<1>8. PICK x \in InvP!Same(ReserveOf(r)) : reservations[x.order] = x
  BY <1>7 DEF InvP!HeldFor
<1>9. x \in ReserveRequests /\ x # Nil /\ x.order \in Runs
  BY InvAssumed DEF InvP!Same
<1>10. PICK d \in InvCalls : invCall[d] # Nil /\ invCall[d].op = "Reserve" /\ invCall[d].req = x
  BY <1>8, <1>9 DEF GInv, PartsInv, InvP!IInv, InvP!WasAsked, InvP!Requested
<1>11. PICK q \in Runs : told[q] # Nil /\ x = ReserveOf(told[q].id)
  BY <1>10, WhoseInvCall
<1>12. told[q].id = x.order
  BY <1>11 DEF ReserveOf
<1>13. q = r
  BY <1>5, <1>11, <1>12
<1> QED
  BY <1>1, <1>8, <1>9, <1>12, <1>13

\* After a Charge that succeeded the payment is there, and nobody gave it back.
LEMMA CompletedPays ==
    ASSUME GInv, NEW r \in Runs, pc[r] = "completed", Alone(r), "payment" \notin restarted
    PROVE  payments[r] # Nil
<1> DEFINE c == <<r, "Charge">>
<1>1. told[r] # Nil /\ told[r].id = r
  BY BegunIsTold, AloneId DEF GInv
<1>2. Answered(payCall[c]) /\ payCall[c].ok /\ c \in PayCalls
  BY CompletedSteps, OwnCalls
<1>3. /\ payCall[c] # Nil /\ payCall[c].op = "Charge" /\ payCall[c].req = ChargeOf(r)
      /\ payCall[c].pc = "done" /\ forgotten[r] = 0
  <2>1. CallInv(r) /\ (payCall[c] # Nil => payCall[c].pc # "old") /\ forgotten[r] = 0
    BY <1>2 DEF GInv, OldInv
  <2> QED
    BY <1>1, <1>2, <2>1 DEF CallInv, Answered
<1>4. PayP!At(c, "Charge", "done") /\ payCall[c].req.order = r
  BY <1>3 DEF PayP!At, ChargeOf
<1>5. ~PayP!RefundSent(r)
  <2> SUFFICES ASSUME PayP!RefundSent(r) PROVE FALSE
    OBVIOUS
  <2>1. PICK d \in PayCalls : payCall[d] # Nil /\ payCall[d].op = "Refund" /\ payCall[d].order = r
    BY DEF PayP!RefundSent
  <2>2. PICK q \in Runs : told[q] # Nil /\ d = <<q, "Refund">> /\ told[q].id = r
    BY <2>1, WhosePayCall
  <2>3. d = <<r, "Refund">>
    BY <2>2, AloneOwn
  <2> QED
    BY <2>1, <2>3 DEF GInv, StepInv, UndoAt
<1>6. PayP!AnswerIsPaid(c)
  BY <1>2 DEF GInv, PartsInv, PayP!IInv
<1> QED
  BY <1>2, <1>3, <1>4, <1>5, <1>6 DEF PayP!AnswerIsPaid, PayP!Undisturbed

\* After a Confirm that succeeded the order says so, and nobody cancels it.
LEMMA CompletedConfirms ==
    ASSUME GInv, NEW r \in Runs, pc[r] = "completed", Alone(r), "order" \notin restarted
    PROVE  orders[r] # Nil /\ orders[r].status = "CONFIRMED"
<1> DEFINE u == <<r, "Confirm">>
<1>1. told[r] # Nil /\ told[r].id = r
  BY BegunIsTold, AloneId DEF GInv
<1>2. Answered(update[u]) /\ update[u].ok /\ u \in OrdUpdates
  BY CompletedSteps, OwnCalls
<1>3. update[u] # Nil /\ update[u].pc = "done" /\ update[u].id = r
  BY <1>1, <1>2 DEF GInv, CallInv, OldInv, Answered
<1>4. OrdP!Carried(u, r)
  BY <1>2, <1>3 DEF OrdP!Carried
<1>5. OrdP!StatusInv(r)
  BY DEF GInv, PartsInv
<1>6. orders[r] # Nil
  BY <1>2, <1>4, <1>5 DEF OrdP!StatusInv
<1>7. PICK v \in OrdUpdates : OrdP!Carried(v, r) /\ update[v].status = orders[r].status
  BY <1>2, <1>4, <1>5, <1>6 DEF OrdP!StatusInv
<1>8. update[v] # Nil /\ update[v].id = r
  BY <1>7 DEF OrdP!Carried
<1>9. PICK q \in Runs :
        /\ told[q] # Nil /\ told[q].id = r
        /\ \/ v = <<q, "Confirm">> /\ update[v].status = "CONFIRMED"
           \/ v = <<q, "Cancel">>
  BY <1>8, WhoseUpdate
<1>10. q = r
  BY <1>9, AloneOwn
<1>11. update[<<r, "Cancel">>] = Nil
  BY DEF GInv, StepInv
<1> QED
  BY <1>6, <1>7, <1>8, <1>9, <1>10, <1>11

\* CompletedIsKept: a saga that completed has its order confirmed, reserved and paid,
\* for good, as far as the services remember and the POST is not repeated.
THEOREM Kept == Spec => []CompletedIsKept
<1>1. ASSUME GInv PROVE CompletedIsKept
  <2> SUFFICES ASSUME NEW r \in Runs, pc[r] = "completed", Alone(r) PROVE Fulfilled(told[r].id)
    BY DEF CompletedIsKept
  <2>1. told[r].id = r
    BY <1>1, BegunIsTold, AloneId DEF GInv
  <2> QED
    BY <1>1, <2>1, CompletedHolds, CompletedPays, CompletedConfirms DEF Fulfilled
<1> QED
  BY <1>1, Invariance, PTL

\* A saga that failed: the call of its last step has failed, and every step before was
\* compensated, or its compensation has failed.
LEMMA FailedSteps ==
    ASSUME GInv, NEW r \in Runs, pc[r] = "failed"
    PROVE  /\ told[r] # Nil
           /\ Answered(invCall[<<r, "Reserve">>]) /\ invCall[<<r, "Reserve">>].ok =>
                 \/ <<r, "Reserve">> \in broken \/ <<r, "Release">> \in broken
                 \/ Answered(invCall[<<r, "Release">>])
           /\ Answered(payCall[<<r, "Charge">>]) /\ payCall[<<r, "Charge">>].ok =>
                 \/ <<r, "Charge">> \in broken \/ <<r, "Refund">> \in broken
                 \/ Answered(payCall[<<r, "Refund">>])
           /\ Answered(update[<<r, "Confirm">>]) /\ update[<<r, "Confirm">>].ok =>
                 <<r, "Confirm">> \in broken
<1>1. StepInv(r) /\ cur[r] \in 1..3
  BY DEF GInv, PartsInv, SagaP!IInv, SagaP!TypeOK, SagaP!RunInv, SagaP!CurAtPc
<1>2. told[r] # Nil
  BY BegunIsTold DEF GInv
<1>3. Answered(invCall[<<r, "Reserve">>]) /\ invCall[<<r, "Reserve">>].ok =>
         \/ <<r, "Reserve">> \in broken \/ <<r, "Release">> \in broken
         \/ Answered(invCall[<<r, "Release">>])
  BY <1>1 DEF StepInv, StepAt, UndoAt, Answered
<1>4. Answered(payCall[<<r, "Charge">>]) /\ payCall[<<r, "Charge">>].ok =>
         \/ <<r, "Charge">> \in broken \/ <<r, "Refund">> \in broken
         \/ Answered(payCall[<<r, "Refund">>])
  BY <1>1 DEF StepInv, StepAt, UndoAt, Answered
<1>5. Answered(update[<<r, "Confirm">>]) /\ update[<<r, "Confirm">>].ok => <<r, "Confirm">> \in broken
  BY <1>1 DEF StepInv, StepAt, Answered
<1> QED
  BY <1>2, <1>3, <1>4, <1>5

\* No items are left.
LEMMA FailedReleases ==
    ASSUME GInv, NEW r \in Runs, pc[r] = "failed", Alone(r), reservations[r] # Nil
    PROVE  Broken(r, {"Reserve", "Release"})
<1>1. PICK c \in InvCalls :
        InvP!At(c, "Reserve", "done") /\ invCall[c].ok /\ invCall[c].req.order = r
  BY DEF GInv, PartsInv, InvP!CallerInv, InvP!MadeByAnswer
<1>2. invCall[c] # Nil /\ invCall[c].op = "Reserve" /\ invCall[c].pc = "done"
  BY <1>1 DEF InvP!At
<1>3. PICK q \in Runs : told[q] # Nil /\ c = <<q, "Reserve">> /\ invCall[c].req = ReserveOf(told[q].id)
  BY <1>2, WhoseInvCall
<1>4. told[q].id = r
  BY <1>1, <1>3 DEF ReserveOf
<1>5. c = <<r, "Reserve">>
  BY <1>3, <1>4, AloneOwn
<1>6. Answered(invCall[<<r, "Reserve">>]) /\ invCall[<<r, "Reserve">>].ok
  BY <1>1, <1>2, <1>5 DEF Answered
<1>7. CASE Answered(invCall[<<r, "Release">>])
  <2>1. /\ invCall[<<r, "Release">>].op = "Release" /\ invCall[<<r, "Release">>].order = r
        /\ <<r, "Release">> \in InvCalls
    BY <1>7, AloneId, OwnCalls, FailedSteps DEF GInv, CallInv, Answered
  <2>2. InvP!Released(r)
    BY <1>7, <2>1 DEF InvP!Released, InvP!Answered, Answered
  <2> QED
    BY <2>2 DEF GInv, GivenBack
<1> QED
  BY <1>6, <1>7, FailedSteps DEF Broken

\* No money is kept.
LEMMA FailedRefunds ==
    ASSUME GInv, NEW r \in Runs, pc[r] = "failed", Alone(r), payments[r] # Nil
    PROVE  Broken(r, {"Charge", "Refund"})
<1>1. PICK c \in PayCalls :
        PayP!At(c, "Charge", "done") /\ payCall[c].ok /\ payCall[c].req.order = r
  BY DEF GInv, PartsInv, PayP!CallerInv, PayP!MadeByAnswer
<1>2. payCall[c] # Nil /\ payCall[c].op = "Charge" /\ payCall[c].pc = "done"
  BY <1>1 DEF PayP!At
<1>3. PICK q \in Runs : told[q] # Nil /\ c = <<q, "Charge">> /\ payCall[c].req = ChargeOf(told[q].id)
  BY <1>2, WhosePayCall
<1>4. told[q].id = r
  BY <1>1, <1>3 DEF ChargeOf
<1>5. c = <<r, "Charge">>
  BY <1>3, <1>4, AloneOwn
<1>6. Answered(payCall[<<r, "Charge">>]) /\ payCall[<<r, "Charge">>].ok
  BY <1>1, <1>2, <1>5 DEF Answered
<1>7. CASE Answered(payCall[<<r, "Refund">>])
  <2>1. /\ payCall[<<r, "Refund">>].op = "Refund" /\ payCall[<<r, "Refund">>].order = r
        /\ <<r, "Refund">> \in PayCalls
    BY <1>7, AloneId, OwnCalls, FailedSteps DEF GInv, CallInv, Answered
  <2>2. PayP!Refunded(r)
    BY <1>7, <2>1 DEF PayP!Refunded, PayP!Answered, Answered
  <2> QED
    BY <2>2 DEF GInv, GivenBack
<1> QED
  BY <1>6, <1>7, FailedSteps DEF Broken

\* The order is cancelled.
LEMMA FailedCancels ==
    ASSUME GInv, NEW r \in Runs, pc[r] = "failed", Finished(r), Alone(r),
           orders[r] # Nil, orders[r].status # "CANCELLED"
    PROVE  Broken(r, {"Confirm", "Cancel"})
<1> DEFINE u == <<r, "Cancel">>
<1>1. told[r] # Nil /\ told[r].id = r /\ http[r] = "201" /\ u \in OrdUpdates
  BY FailedSteps, AloneId, OwnCalls DEF GInv, WebInv
<1>2. Answered(update[u]) \/ u \in broken
  BY <1>1 DEF Finished
<1>3. SUFFICES ASSUME Answered(update[u]) PROVE <<r, "Confirm">> \in broken
  BY <1>2 DEF Broken
<1>4. update[u] # Nil /\ update[u].id = r
  BY <1>1, <1>3 DEF GInv, CallInv, Answered
<1>5. create[r].pc = "done"
  BY StoredFacts
<1>6. update[u].pc = "done" /\ update[u].ok
  <2>1. LateInv(u)
    BY <1>1 DEF GInv
  <2> QED
    BY <1>3, <1>4, <1>5, <2>1 DEF LateInv, Answered
<1>7. OrdP!Carried(u, r) /\ OrdP!StatusInv(r)
  BY <1>4, <1>6 DEF OrdP!Carried, GInv, PartsInv
<1>8. PICK v \in OrdUpdates : OrdP!Carried(v, r) /\ update[v].status = orders[r].status
  BY <1>1, <1>7 DEF OrdP!StatusInv
<1>9. update[v] # Nil /\ update[v].id = r /\ update[v].pc = "done" /\ update[v].ok
  BY <1>8 DEF OrdP!Carried
<1>10. PICK q \in Runs : told[q] # Nil /\ told[q].id = r /\ v = <<q, "Confirm">>
  BY <1>8, <1>9, WhoseUpdate
<1>11. v = <<r, "Confirm">>
  BY <1>10, AloneOwn
<1> QED
  BY <1>9, <1>11, FailedSteps DEF Answered

\* FailedLeavesNothing: a saga that failed has given everything back and cancelled its
\* order; what is left is the work of a call that failed on the gateway's side.
THEOREM Nothing == Spec => []FailedLeavesNothing
<1>1. ASSUME GInv PROVE FailedLeavesNothing
  <2> SUFFICES ASSUME NEW r \in Runs, pc[r] = "failed", Finished(r), Alone(r)
               PROVE  LET id == told[r].id IN
                      /\ reservations[id] # Nil => Broken(r, {"Reserve", "Release"})
                      /\ payments[id] # Nil => Broken(r, {"Charge", "Refund"})
                      /\ orders[id] # Nil /\ orders[id].status # "CANCELLED" =>
                            Broken(r, {"Confirm", "Cancel"})
    BY DEF FailedLeavesNothing
  <2>1. told[r].id = r
    BY <1>1, FailedSteps, AloneId
  <2> QED
    BY <1>1, <2>1, FailedReleases, FailedRefunds, FailedCancels
<1> QED
  BY <1>1, Invariance, PTL

-----------------------------------------------------------------------------
(* What the customer sees.                                                     *)

\* Who may write to a stored order.
LEMMA OrderStep ==
    ASSUME GInv, [Next]_vars, NEW id \in Runs, orders[id] # Nil
    PROVE  \/ orders'[id] \in {orders[id], Nil}
           \/ \E u \in OrdUpdates : update[u] # Nil /\ update[u].pc = "lock" /\ update[u].id = id
<1>1. (UNCHANGED ordVars \/ OrdP!Next) /\ OrdP!TypeOK /\ create[id].pc = "done"
  BY StepParts, OrdSame, StoredFacts DEF AsSpecified, GInv, PartsInv, OrdP!IInv
<1>2. CASE UNCHANGED ordVars
  BY <1>2 DEF ordVars
<1>3. CASE OrdP!Restart
  BY <1>3 DEF OrdP!Restart
<1>4. ASSUME NEW a \in Runs, \/ \E q \in CreateRequests : OrdP!CreateOrder(a, q)
                             \/ OrdP!CreateGet(a) \/ OrdP!LoseCreate(a)
      PROVE  orders' = orders
  BY <1>4 DEF OrdP!CreateOrder, OrdP!CreateGet, OrdP!LoseCreate
<1>5. ASSUME NEW a \in Runs, OrdP!CreateLocked(a) PROVE orders'[id] = orders[id]
  <2>1. create[a].pc = "lock"
    BY <1>5 DEF OrdP!CreateLocked, OrdP!CreateAt
  <2>2. a # id
    BY <1>1, <2>1
  <2> QED
    BY <1>1, <1>5, <2>2 DEF OrdP!CreateLocked, OrdP!TypeOK
<1>6. ASSUME NEW u \in OrdUpdates, \/ \E x \in Runs, s \in OrdP!Status : OrdP!UpdateOrderStatus(u, x, s)
                                   \/ OrdP!LoseUpdate(u)
      PROVE  orders' = orders
  BY <1>6 DEF OrdP!UpdateOrderStatus, OrdP!LoseUpdate
<1>7. ASSUME NEW u \in OrdUpdates, OrdP!UpdateLocked(u), update[u].id # id
      PROVE  orders'[id] = orders[id]
  BY <1>1, <1>7 DEF OrdP!UpdateLocked, OrdP!TypeOK
<1>8. ASSUME NEW u \in OrdUpdates, OrdP!UpdateLocked(u)
      PROVE  update[u] # Nil /\ update[u].pc = "lock"
  BY <1>8 DEF OrdP!UpdateLocked
<1> QED
  BY <1>1, <1>2, <1>3, <1>4, <1>5, <1>6, <1>7, <1>8 DEF OrdP!Next, OrdP!HandleCreate

\* An order that is confirmed or cancelled has no update on its way, unless the gateway
\* has given up on a Confirm.
LEMMA NoLateUpdate ==
    ASSUME GInv, NEW id \in Runs, Alone(id), <<id, "Confirm">> \notin broken,
           orders[id] # Nil, orders[id].status # "PENDING",
           NEW u \in OrdUpdates, update[u] # Nil, update[u].id = id
    PROVE  update[u].pc # "lock"
<1> SUFFICES ASSUME update[u].pc = "lock" PROVE FALSE
  OBVIOUS
<1>1. PICK v \in OrdUpdates : OrdP!Carried(v, id)
  BY DEF GInv, PartsInv, OrdP!StatusInv
<1>2. update[v] # Nil /\ update[v].id = id /\ update[v].pc = "done" /\ update[v].ok
  BY <1>1 DEF OrdP!Carried
<1>3. u \in {<<id, "Confirm">>, <<id, "Cancel">>} /\ v \in {<<id, "Confirm">>, <<id, "Cancel">>}
  BY <1>2, WhoseUpdate, AloneOwn
<1>4. u # v
  BY <1>2
<1>5. update[<<id, "Cancel">>] # Nil /\ update[<<id, "Confirm">>] # Nil
  BY <1>2, <1>3, <1>4
<1>6. StepInv(id) /\ cur[id] \in 1..4
  BY DEF GInv, PartsInv, SagaP!IInv, SagaP!TypeOK
<1>7. pc[id] = "failed"
  BY <1>5, <1>6 DEF StepInv
<1>8. cur[id] <= 3
  BY <1>7 DEF GInv, PartsInv, SagaP!IInv, SagaP!RunInv, SagaP!CurAtPc
<1>9. Answered(update[<<id, "Confirm">>]) /\ ~update[<<id, "Confirm">>].ok
  BY <1>5, <1>6, <1>7, <1>8 DEF StepInv, StepAt
<1> QED
  BY <1>2, <1>3, <1>4, <1>9 DEF Answered

\* FinalStatusStays: CONFIRMED stays CONFIRMED and CANCELLED stays CANCELLED for
\* whoever asks, unless the POST is repeated or the gateway gave up on a Confirm.
THEOREM StatusStays == Spec => FinalStatusStays
<1>1. ASSUME GInv, GInv', [Next]_vars, NEW id \in Runs,
             Alone(id), ~Broken(id, {"Confirm"}),
             GetOrderByID(id).code = "200", GetOrderByID(id).body.status # "PENDING"
      PROVE  GetOrderByID(id)'.code = "404" \/ GetOrderByID(id)'.body.status = GetOrderByID(id).body.status
  <2>1. orders[id] # Nil /\ orders[id].status # "PENDING" /\ <<id, "Confirm">> \notin broken
    BY <1>1, Seen DEF Broken
  <2>2. orders'[id] = orders[id] \/ orders'[id] = Nil
    BY <1>1, <2>1, OrderStep, NoLateUpdate
  <2>3. CASE orders'[id] = orders[id]
    BY <2>3 DEF GetOrderByID, GetOrder, Ord!GetOrder
  <2>4. CASE orders'[id] = Nil
    BY <2>4 DEF GetOrderByID, GetOrder, Ord!GetOrder
  <2> QED
    BY <2>2, <2>3, <2>4
<1>2. ASSUME GInv, GInv', [Next]_vars
      PROVE  [orders' = orders \/ \A id \in Runs :
                LET old == GetOrderByID(id)
                    new == GetOrderByID(id)'
                IN  /\ Alone(id) /\ ~Broken(id, {"Confirm"})
                    /\ old.code = "200" /\ old.body.status # "PENDING"
                    => new.code = "404" \/ new.body.status = old.body.status]_vars
  BY <1>1, <1>2
<1> QED
  BY <1>2, Invariance, PTL DEF Spec, FinalStatusStays

=============================================================================
