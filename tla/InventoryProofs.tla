-------------------------- MODULE InventoryProofs --------------------------
(***************************************************************************)
(* Proofs about InventoryService for any number of calls, orders, keys and *)
(* products, however the calls interleave, and any number of restarts.     *)
(***************************************************************************)
EXTENDS InventoryService, SumTheorems

-----------------------------------------------------------------------------
(* The inductive invariant.  The properties speak of the stock and of        *)
(* answers; what keeps them true is how reservations, keys in Redis and the  *)
(* handlers that are under way belong together.                              *)

\* Redis has the idempotency key of a reservation.
Remembered(key) == \E x \in cache : x[1] = GenerateKey("reserve", key)

\* The requests that Reserve takes for q: they carry its key, or are q.
Same(q) == {x \in Requests : x = q \/ (x.key = q.key /\ q.key # NoKey)}

Requested(x) == \E d \in Calls : call[d] # Nil /\ call[d].op = "Reserve" /\ call[d].req = x

\* Nothing that could have removed what is held for q has happened.
Undisturbed(q) ==
    /\ \A x \in Same(q) : Requested(x) => ~ReleaseSent(x.order)
    /\ \A d \in Calls : At(d, "Reserve", "old") => call[d].req \notin Same(q)

\* Items are held for q, or for a request that counts as the same.
HeldFor(q) == \E x \in Same(q) : reservations[x.order] = x

\* A reservation is filed under the order it is for.
FiledByOrder == \A o \in Orders : reservations[o] # Nil => reservations[o].order = o

\* and some call asked for it.
WasAsked == \A o \in Orders : reservations[o] # Nil => Requested(reservations[o])

\* An order without a key is reserved by one call, and only when that call has
\* been through the critical section does it hold anything.
ReservedOnce ==
    /\ \A c, d \in Calls :
          /\ call[c] # Nil /\ call[c].op = "Reserve" /\ call[c].req.key = NoKey
          /\ call[d] # Nil /\ call[d].op = "Reserve" /\ call[d].req = call[c].req
          => c = d
    /\ \A c \in Calls :
          /\ call[c] # Nil /\ call[c].op = "Reserve" /\ call[c].req.key = NoKey
          /\ call[c].pc \in {"get", "lock"}
          => reservations[call[c].req.order] = Nil

\* A key in Redis was put there for a call that has been answered, and vouches
\* for items that are held.
KeyIsHeld(q) ==
    q.key # NoKey /\ Remembered(q.key) =>
        /\ \E d \in Calls : /\ At(d, "Reserve", "done") \/ At(d, "Reserve", "old")
                            /\ call[d].req \in Same(q)
        /\ Undisturbed(q) => HeldFor(q)

\* So does a successful answer.
AnswerIsHeld(c) ==
    At(c, "Reserve", "done") /\ call[c].ok /\ Undisturbed(call[c].req)
        => HeldFor(call[c].req)

IInv ==
    /\ TypeOK
    /\ FiledByOrder /\ WasAsked
    /\ OneReservationPerKey
    /\ ReservedOnce
    /\ StockConserved
    /\ \A q \in Requests : KeyIsHeld(q)
    /\ \A c \in Calls : AnswerIsHeld(c)

-----------------------------------------------------------------------------
(* int32 arithmetic.                                                         *)

\* Division with remainder.
LEMMA Divide ==
    ASSUME NEW M \in Nat \ {0}, NEW z \in Int
    PROVE  z % M \in 0..(M - 1) /\ z = M * (z \div M) + (z % M) /\ z \div M \in Int
  OBVIOUS

\* Two remainders of numbers that differ by a multiple of M are the same.
LEMMA OneRemainder ==
    ASSUME NEW M \in Nat \ {0}, NEW x \in 0..(M - 1), NEW y \in 0..(M - 1),
           NEW d \in Int, x - y = M * d
    PROVE  x = y
<1>1. CASE d > 0
  <2>1. M * d = M + M * (d - 1)
    OBVIOUS
  <2>2. M * (d - 1) >= 0
    BY <1>1
  <2> QED
    BY <2>1, <2>2
<1>2. CASE d < 0
  <2>1. M * d = M * (d + 1) - M
    OBVIOUS
  <2>2. M * (d + 1) <= 0
    BY <1>2
  <2> QED
    BY <2>1, <2>2
<1>3. CASE d = 0
  BY <1>3
<1> QED
  BY <1>1, <1>2, <1>3

\* An int32 is in its range, and differs from the exact number by a multiple of
\* 2^32.
LEMMA Int32Type ==
    ASSUME NEW n \in Int
    PROVE  /\ Int32(n) \in (-Half)..(Half - 1)
           /\ \E k \in Int : n = Int32(n) + 2 * Half * k
<1> DEFINE M == 2 * Half
<1>1. M \in Nat \ {0} /\ Half \in Nat /\ n + Half \in Int
  BY HalfAssumption
<1>2. /\ (n + Half) % M \in 0..(M - 1) /\ (n + Half) \div M \in Int
      /\ n + Half = M * ((n + Half) \div M) + ((n + Half) % M)
  <2> HIDE DEF M
  <2> QED
    BY <1>1, Divide
<1>3. Int32(n) = ((n + Half) % M) - Half
  BY DEF Int32
<1>4. Int32(n) \in (-Half)..(Half - 1)
  BY <1>1, <1>2, <1>3
<1>5. n = Int32(n) + M * ((n + Half) \div M)
  <2> HIDE DEF M
  <2> QED
    BY <1>1, <1>2, <1>3
<1> QED
  BY <1>2, <1>4, <1>5

\* The int32 of n is the only one that differs from n by a multiple of 2^32.
LEMMA Int32Only ==
    ASSUME NEW n \in Int, NEW v \in (-Half)..(Half - 1), NEW k \in Int, n = v + 2 * Half * k
    PROVE  Int32(n) = v
<1>1. PICK j \in Int : n = Int32(n) + 2 * Half * j
  BY Int32Type
<1> DEFINE M == 2 * Half
           x == Int32(n) + Half
           y == v + Half
<1>2. M \in Nat \ {0} /\ x \in 0..(M - 1) /\ y \in 0..(M - 1) /\ k - j \in Int
  <2>1. Int32(n) \in (-Half)..(Half - 1)
    BY Int32Type
  <2> HIDE DEF Int32
  <2> QED
    BY <2>1, HalfAssumption
<1>5. x - y = M * k - M * j
  <2>1. n = Int32(n) + M * j /\ n = v + M * k
    BY <1>1
  <2>2. Int32(n) \in Int /\ v \in Int /\ M * j \in Int /\ M * k \in Int /\ Half \in Int
    BY <1>2, Int32Type, HalfAssumption
  <2> HIDE DEF M
  <2> QED
    BY <2>1, <2>2
<1>3. M * k - M * j = M * (k - j)
  <2> HIDE DEF M
  <2> QED
    BY <1>2
<1>4. x = y
  <2> HIDE DEF x, y, M
  <2> QED
    BY <1>2, <1>3, <1>5, OneRemainder
<1> QED
  BY <1>4, Int32Type, HalfAssumption

\* Converting on the way changes nothing: only the sum counts.
LEMMA Int32Add ==
    ASSUME NEW a \in Int, NEW b \in Int
    PROVE  Int32(Int32(a) + b) = Int32(a + b)
<1>1. PICK j \in Int : a = Int32(a) + 2 * Half * j
  BY Int32Type
<1>2. PICK k \in Int : Int32(a) + b = Int32(Int32(a) + b) + 2 * Half * k
  <2>1. PICK c \in Int : c = Int32(a) + b
    BY Int32Type, HalfAssumption
  <2>2. \E k \in Int : c = Int32(c) + 2 * Half * k
    BY Int32Type
  <2> QED
    BY <2>1, <2>2
<1> DEFINE v == Int32(Int32(a) + b)
<1>3. Int32(a) \in Int /\ v \in (-Half)..(Half - 1) /\ j + k \in Int /\ Half \in Int
  <2>1. Half \in Int /\ Int32(a) \in (-Half)..(Half - 1)
    BY Int32Type, HalfAssumption
  <2>2. Int32(a) + b \in Int
    BY <2>1
  <2> QED
    BY <2>1, <2>2, Int32Type
<1>4. a + b = v + 2 * Half * (j + k)
  <2>1. a = Int32(a) + 2 * Half * j /\ Int32(a) + b = v + 2 * Half * k
    BY <1>1, <1>2
  <2>2. 2 * Half * (j + k) = 2 * Half * j + 2 * Half * k
    BY <1>3
  <2> HIDE DEF v
  <2> QED
    BY <1>3, <2>1, <2>2
<1> HIDE DEF v
<1>5. Int32(a + b) = v
  BY <1>3, <1>4, Int32Only
<1> QED
  BY <1>5 DEF v

\* An int32 stays what it is.
LEMMA Int32Same ==
    ASSUME NEW n \in (-Half)..(Half - 1)
    PROVE  Int32(n) = n
<1>1. n \in Int /\ n = n + 2 * Half * 0
  BY HalfAssumption
<1> QED
  BY <1>1, Int32Only
-----------------------------------------------------------------------------
(* The operators of the model.                                               *)

\* The lines of a request that name a product add up to an integer, to a natural
\* number if no quantity is negative.
LEMMA QtyType ==
    ASSUME NEW q \in Requests, NEW p
    PROVE  /\ Qty(q.items, p) \in Int
           /\ (\A i \in DOMAIN q.items : q.items[i].qty > 0) => Qty(q.items, p) \in Nat
<1> DEFINE S == {i \in DOMAIN q.items : q.items[i].product = p}
           f == [i \in DOMAIN q.items |-> q.items[i].qty]
<1>1. IsFiniteSet(S)
  BY RequestsAssumption, FS_Subset
<1>2. \A i \in S : f[i] \in Int
  BY RequestsAssumption, HalfAssumption
<1>3. (\A i \in DOMAIN q.items : q.items[i].qty > 0) => \A i \in S : f[i] \in Nat
  BY <1>2
<1>4. Qty(q.items, p) = SumFunctionOnSet(f, S)
  BY DEF Qty
<1> HIDE DEF S, f
<1>5. SumFunctionOnSet(f, S) \in Int
  BY <1>1, <1>2, SumType
<1>6. (\A i \in S : f[i] \in Nat) => SumFunctionOnSet(f, S) \in Nat
  BY <1>1, SumType
<1> QED
  BY <1>3, <1>4, <1>5, <1>6

\* What an order holds is a number of units.
LEMMA HeldType ==
    ASSUME NEW o \in Orders, NEW p
    PROVE  /\ TypeOK => Held(o, p) \in Int
           /\ TypeOK' => Held(o, p)' \in Int
<1>1. \A q \in Requests : Qty(q.items, p) \in Int
  BY QtyType
<1>2. TypeOK => reservations[o] \in Requests \cup {Nil}
  BY DEF TypeOK
<1>3. TypeOK' => reservations'[o] \in Requests \cup {Nil}
  BY DEF TypeOK
<1> QED
  BY <1>1, <1>2, <1>3 DEF Held

\* Adding or taking away nothing.
LEMMA Nothing ==
    ASSUME NEW a \in Int, NEW b \in Int
    PROVE  a + 0 - b = a - b /\ a + b - 0 = a + b
  OBVIOUS

\* Units of p held by all the reservations.
AllHeld(p) == SumFunction([o \in Orders |-> Held(o, p)])

\* If one order's reservation is exchanged, what all of them hold changes by what
\* it does.
LEMMA Exchange ==
    ASSUME TypeOK, TypeOK', NEW o \in Orders,
           \A x \in Orders \ {o} : reservations'[x] = reservations[x],
           NEW p \in Products
    PROVE  /\ AllHeld(p) \in Int /\ AllHeld(p)' \in Int
           /\ AllHeld(p)' = AllHeld(p) - Held(o, p) + Held(o, p)'
<1> DEFINE e == [x \in Orders |-> Held(x, p)]
           f == [x \in Orders |-> Held(x, p)']
<1>1. \A x \in Orders : e[x] \in Int /\ f[x] \in Int
  <2>1. \A x \in Orders : Held(x, p) \in Int
    BY HeldType
  <2>2. \A x \in Orders : Held(x, p)' \in Int
    BY HeldType
  <2> QED
    BY <2>1, <2>2
<1>2. \A x \in Orders \ {o} : e[x] = f[x]
  BY DEF Held
<1>3. SumFunction(e) = SumFunctionOnSet(e, Orders) /\ SumFunction(f) = SumFunctionOnSet(f, Orders)
  BY DEF SumFunction
<1>4. AllHeld(p) = SumFunction(e) /\ AllHeld(p)' = SumFunction(f)
  BY DEF AllHeld
<1>5. e[o] = Held(o, p) /\ f[o] = Held(o, p)'
  OBVIOUS
<1> HIDE DEF e, f
<1>6. SumFunctionOnSet(f, Orders) = SumFunctionOnSet(e, Orders) - e[o] + f[o]
  BY <1>1, <1>2, RequestsAssumption, SumChange
<1>7. SumFunctionOnSet(e, Orders) \in Int /\ SumFunctionOnSet(f, Orders) \in Int
  BY <1>1, RequestsAssumption, SumType
<1> QED
  BY <1>3, <1>4, <1>5, <1>6, <1>7

\* If the stock moves by the difference, in int32, nothing is lost (Reserve's and
\* Release's loops over the items).
LEMMA Moved ==
    ASSUME TypeOK, StockConserved, TypeOK', NEW o \in Orders,
           \A x \in Orders \ {o} : reservations'[x] = reservations[x],
           \A p \in Products : stock'[p] = Int32(stock[p] + Held(o, p) - Held(o, p)')
    PROVE  StockConserved'
<1> SUFFICES ASSUME NEW p \in Products
             PROVE  Int32(stock'[p] + AllHeld(p)') = InitialStock[p]
  BY DEF StockConserved, AllHeld
<1> DEFINE a == stock[p] + Held(o, p) - Held(o, p)'
           b == AllHeld(p)'
<1>1. /\ AllHeld(p) \in Int /\ b \in Int
      /\ b = AllHeld(p) - Held(o, p) + Held(o, p)'
  BY Exchange
<1>2. stock[p] \in Int /\ Held(o, p) \in Int /\ Held(o, p)' \in Int
  <2>1. stock[p] \in Int
    BY HalfAssumption DEF TypeOK
  <2>2. Held(o, p)' \in Int
    BY HeldType
  <2> QED
    BY <2>1, <2>2, HeldType
<1>3. a + b = stock[p] + AllHeld(p) /\ a \in Int
  BY <1>1, <1>2
<1>4. Int32(stock[p] + AllHeld(p)) = InitialStock[p]
  BY DEF StockConserved, AllHeld
<1>5. stock'[p] = Int32(a)
  OBVIOUS
<1> HIDE DEF a, b
<1>6. Int32(Int32(a) + b) = Int32(a + b)
  BY <1>1, <1>3, Int32Add
<1> QED
  BY <1>3, <1>4, <1>5, <1>6 DEF b

\* Orders that hold nothing hold nothing together.
LEMMA NothingHeld == SumFunction([o \in Orders |-> 0]) = 0
<1> DEFINE f == [o \in Orders |-> 0]
<1>1. (\A o \in Orders : f[o] = 0) /\ SumFunction(f) = SumFunctionOnSet(f, Orders)
  BY DEF SumFunction
<1> HIDE DEF f
<1>2. SumFunctionOnSet(f, Orders) = 0
  BY <1>1, RequestsAssumption, SumZero
<1> QED
  BY <1>1, <1>2 DEF f

\* The invariant holds for the maps NewClient makes.
LEMMA InitInv == Init => IInv
<1> SUFFICES ASSUME Init PROVE IInv
  OBVIOUS
<1>1. TypeOK
  BY RequestsAssumption, HalfAssumption DEF Init, TypeOK
<1>2. FiledByOrder /\ WasAsked /\ OneReservationPerKey
  BY DEF Init, FiledByOrder, WasAsked, OneReservationPerKey
<1>3. ReservedOnce
  BY DEF Init, ReservedOnce
<1>4. StockConserved
  <2>1. ASSUME NEW p PROVE [o \in Orders |-> Held(o, p)] = [o \in Orders |-> 0]
    BY DEF Init, Held
  <2>2. ASSUME NEW p \in Products
        PROVE  Int32(stock[p] + SumFunction([o \in Orders |-> Held(o, p)])) = InitialStock[p]
    <3>1. stock[p] = InitialStock[p] /\ InitialStock[p] \in (-Half)..(Half - 1) /\ InitialStock[p] \in Int
      BY RequestsAssumption, HalfAssumption DEF Init
    <3>2. stock[p] + SumFunction([o \in Orders |-> Held(o, p)]) = InitialStock[p]
      BY <2>1, <3>1, NothingHeld
    <3> QED
      BY <3>1, <3>2, Int32Same
  <2> QED
    BY <2>2 DEF StockConserved
<1>5. \A q \in Requests : KeyIsHeld(q)
  BY DEF Init, KeyIsHeld, Remembered
<1>6. \A c \in Calls : AnswerIsHeld(c)
  BY DEF Init, AnswerIsHeld, At
<1> QED
  BY <1>1, <1>2, <1>3, <1>4, <1>5, <1>6 DEF IInv

-----------------------------------------------------------------------------

\* What no step does to the call d: once made it stays the same request, and an
\* answer of before a restart stays one.
KeepsRequest(d) ==
    call[d] # Nil =>
        /\ call'[d] # Nil /\ call'[d].op = call[d].op
        /\ call[d].op = "Reserve" => call'[d].req = call[d].req
        /\ call[d].op = "Release" => call'[d].order = call[d].order
        /\ call[d].pc = "old" => call'[d].pc = "old"
        /\ call[d].pc = "done" => call'[d].pc \in {"done", "old"}
        /\ call'[d].pc \in {"get", "lock"} => call[d].pc \in {"get", "lock"}

\* A step of the handler of call c that moves it to p with the answer ok (Reply,
\* ToLock and Lose) leaves the other calls alone and its request as it was.
LEMMA MoveFacts ==
    ASSUME TypeOK, NEW c \in Calls, call[c] # Nil, call[c].pc \in {"get", "lock"},
           NEW p \in Pc, NEW ok \in BOOLEAN,
           \/ call' = [call EXCEPT ![c].pc = p, ![c].ok = ok]
           \/ call' = [call EXCEPT ![c].pc = p] /\ ok = call[c].ok
    PROVE  /\ call' \in [Calls -> Call \cup {Nil}]
           /\ call'[c].pc = p /\ call'[c].ok = ok
           /\ \A d \in Calls \ {c} : call'[d] = call[d]
           /\ \A d \in Calls : KeepsRequest(d)
           /\ \A d \in Calls : call[d] = Nil => call'[d] = Nil
<1> DEFINE new == [call[c] EXCEPT !.pc = p, !.ok = ok]
<1>1. call[c] \in Call
  BY DEF TypeOK
<1>2. new \in Call /\ new.pc = p /\ new.ok = ok /\ new.op = call[c].op
  BY <1>1 DEF Call
<1>3. /\ call[c].op = "Reserve" => new.req = call[c].req
      /\ call[c].op = "Release" => new.order = call[c].order
  BY <1>1 DEF Call
<1>4. call' = [call EXCEPT ![c] = new]
  <2>1. CASE call' = [call EXCEPT ![c].pc = p, ![c].ok = ok]
    BY <2>1 DEF TypeOK
  <2>2. CASE call' = [call EXCEPT ![c].pc = p] /\ ok = call[c].ok
    <3>1. new = [call[c] EXCEPT !.pc = p]
      BY <1>1, <2>2 DEF Call
    <3> QED
      BY <2>2, <3>1 DEF TypeOK
  <2> QED
    BY <2>1, <2>2
<1>5. /\ call'[c] = new
      /\ call' \in [Calls -> Call \cup {Nil}]
      /\ \A d \in Calls \ {c} : call'[d] = call[d]
  BY <1>2, <1>4 DEF TypeOK
<1>6. new # Nil
  BY <1>2, UnusedAssumption
<1>7. ASSUME NEW d \in Calls PROVE KeepsRequest(d)
  <2>1. CASE d = c
    BY <1>2, <1>3, <1>5, <1>6, <2>1 DEF KeepsRequest
  <2>2. CASE d # c
    BY <1>1, <1>5, <2>2 DEF KeepsRequest, TypeOK, Call
  <2> QED
    BY <2>1, <2>2
<1> QED
  BY <1>2, <1>5, <1>7

\* A release that was sent stays sent and an old answer stays old, so a request
\* that is undisturbed after a step was so before it.
LEMMA UndisturbedBefore ==
    ASSUME TypeOK, \A d \in Calls : KeepsRequest(d), NEW q, Undisturbed(q)'
    PROVE  Undisturbed(q)
<1>1. ASSUME NEW x \in Same(q), Requested(x) PROVE ~ReleaseSent(x.order)
  <2>1. Requested(x)'
    BY <1>1 DEF Requested, KeepsRequest
  <2>2. ~ReleaseSent(x.order)'
    BY <2>1 DEF Undisturbed
  <2> QED
    BY <2>2 DEF ReleaseSent, KeepsRequest
<1>2. ASSUME NEW d \in Calls, At(d, "Reserve", "old") PROVE call[d].req \notin Same(q)
  <2>1. At(d, "Reserve", "old")' /\ call'[d].req = call[d].req
    BY <1>2 DEF At, KeepsRequest
  <2> QED
    BY <2>1 DEF Undisturbed
<1> QED
  BY <1>1, <1>2 DEF Undisturbed

\* The types of a Reserve that is under way.
LEMMA ReserveTypes ==
    ASSUME TypeOK, NEW c \in Calls, call[c] # Nil, call[c].op = "Reserve"
    PROVE  /\ call[c] \in Call /\ call[c].req \in Requests
           /\ call[c].req.order \in Orders /\ call[c].req.key \in Keys \cup {NoKey}
  BY RequestsAssumption DEF TypeOK, Call

\* No step but the arrival of a request and the insertion of a reservation
\* endangers ReservedOnce.
LEMMA StillOnce ==
    ASSUME TypeOK, ReservedOnce, \A d \in Calls : KeepsRequest(d),
           \A d \in Calls : call[d] = Nil => call'[d] = Nil,
           \A o \in Orders : reservations[o] = Nil => reservations'[o] = Nil
    PROVE  ReservedOnce'
<1>1. ASSUME NEW c \in Calls, call'[c] # Nil, call'[c].op = "Reserve"
      PROVE  /\ call[c] # Nil /\ call[c].op = "Reserve" /\ call'[c].req = call[c].req
             /\ call'[c].pc \in {"get", "lock"} => call[c].pc \in {"get", "lock"}
             /\ call[c].req.order \in Orders
  <2>1. call[c] # Nil /\ call[c].op = "Reserve"
    BY <1>1 DEF KeepsRequest
  <2> QED
    BY <2>1, ReserveTypes DEF KeepsRequest
<1>2. ASSUME NEW c \in Calls, NEW d \in Calls,
             call'[c] # Nil, call'[c].op = "Reserve", call'[c].req.key = NoKey,
             call'[d] # Nil, call'[d].op = "Reserve", call'[d].req = call'[c].req
      PROVE  c = d
  BY <1>1, <1>2 DEF ReservedOnce
<1>3. ASSUME NEW c \in Calls,
             call'[c] # Nil, call'[c].op = "Reserve", call'[c].req.key = NoKey,
             call'[c].pc \in {"get", "lock"}
      PROVE  reservations'[call'[c].req.order] = Nil
  BY <1>1, <1>3 DEF ReservedOnce
<1> QED
  BY <1>2, <1>3 DEF ReservedOnce

\* A handler that changes nothing but its own call (a request that arrives, a
\* lookup in Redis, a lost request, an answer without effect) keeps the
\* invariant, if what it answers with success is held.
LEMMA OwnCallInv ==
    ASSUME IInv, NEW c \in Calls, UNCHANGED <<stock, reservations, cache>>,
           call' \in [Calls -> Call \cup {Nil}],
           \A d \in Calls \ {c} : call'[d] = call[d],
           \A d \in Calls : KeepsRequest(d),
           ReservedOnce', AnswerIsHeld(c)'
    PROVE  IInv'
<1>1. TypeOK'
  BY DEF IInv, TypeOK
<1>2. (FiledByOrder /\ WasAsked /\ OneReservationPerKey)'
  BY DEF IInv, FiledByOrder, WasAsked, Requested, OneReservationPerKey, KeepsRequest
<1>3. StockConserved'
  BY DEF IInv, StockConserved, Held
<1>4. ASSUME NEW q, Undisturbed(q)' PROVE Undisturbed(q)
  BY <1>4, UndisturbedBefore DEF IInv
<1>5. ASSUME NEW q \in Requests PROVE KeyIsHeld(q)'
  <2> SUFFICES ASSUME q.key # NoKey, Remembered(q.key)
               PROVE  /\ \E d \in Calls :
                            /\ At(d, "Reserve", "done")' \/ At(d, "Reserve", "old")'
                            /\ call'[d].req \in Same(q)
                      /\ Undisturbed(q)' => HeldFor(q)'
    BY DEF KeyIsHeld, Remembered
  <2>1. PICK d \in Calls : /\ At(d, "Reserve", "done") \/ At(d, "Reserve", "old")
                           /\ call[d].req \in Same(q)
    BY DEF IInv, KeyIsHeld
  <2>2. /\ At(d, "Reserve", "done")' \/ At(d, "Reserve", "old")'
        /\ call'[d].req = call[d].req
    BY <2>1 DEF At, KeepsRequest
  <2>3. Undisturbed(q)' => HeldFor(q)'
    BY <1>4 DEF IInv, KeyIsHeld, HeldFor
  <2> QED
    BY <2>1, <2>2, <2>3
<1>6. ASSUME NEW d \in Calls PROVE AnswerIsHeld(d)'
  <2>1. CASE d = c
    BY <2>1
  <2>2. CASE d # c
    <3> SUFFICES ASSUME At(d, "Reserve", "done"), call[d].ok,
                        NEW q, q = call[d].req, Undisturbed(q)'
                 PROVE  HeldFor(q)'
      BY <2>2 DEF AnswerIsHeld, At, Undisturbed, Requested, HeldFor, ReleaseSent
    <3> QED
      BY <1>4 DEF IInv, AnswerIsHeld, HeldFor
  <2> QED
    BY <2>1, <2>2
<1> QED
  BY <1>1, <1>2, <1>3, <1>5, <1>6 DEF IInv

-----------------------------------------------------------------------------

\* A call that arrives answers nothing yet, and is the only one for an order
\* without a key.
LEMMA ArriveInv ==
    ASSUME IInv, NEW c \in Calls, Client(c)
    PROVE  IInv'
<1> DEFINE Arrives(new) ==
        /\ call[c] = Nil /\ new.pc = "get"
        /\ call' = [call EXCEPT ![c] = new]
        /\ UNCHANGED <<stock, reservations, cache>>
        /\ new.op = "Reserve" /\ new.req.key = NoKey =>
              \A d \in Calls : call[d] # Nil /\ call[d].op = "Reserve" => call[d].req # new.req
<1>1. PICK new \in Call : Arrives(new)
  <2>1. ASSUME NEW q \in Requests, Reserve(c, q),
               q.key = NoKey => \A d \in Calls : call[d] # Nil /\ call[d].op = "Reserve"
                                                  => call[d].req # q
        PROVE  \E new \in Call : Arrives(new)
    <3> DEFINE new == [op |-> "Reserve", req |-> q, pc |-> "get", ok |-> FALSE]
    <3>1. new \in Call
      BY DEF Call, Pc
    <3> QED
      BY <2>1, <3>1 DEF Reserve
  <2>2. ASSUME NEW o \in Orders, Release(c, o)
        PROVE  \E new \in Call : Arrives(new)
    <3> DEFINE new == [op |-> "Release", order |-> o, pc |-> "get", ok |-> FALSE]
    <3>1. new \in Call
      BY DEF Call, Pc
    <3> QED
      BY <2>2, <3>1 DEF Release
  <2> QED
    BY <2>1, <2>2 DEF Client
<1>2. /\ call' \in [Calls -> Call \cup {Nil}]
      /\ call'[c] = new
      /\ \A d \in Calls \ {c} : call'[d] = call[d]
  BY <1>1 DEF IInv, TypeOK
<1>3. \A d \in Calls : KeepsRequest(d)
  BY <1>1, <1>2 DEF KeepsRequest
<1>4. AnswerIsHeld(c)'
  BY <1>1, <1>2 DEF AnswerIsHeld, At
<1>5. ReservedOnce'
  <2>1. ASSUME new.op = "Reserve", new.req.key = NoKey
        PROVE  reservations[new.req.order] = Nil
    <3>1. new.req \in Requests /\ new.req.order \in Orders
      BY <2>1, RequestsAssumption DEF Call
    <3>2. reservations[new.req.order] # new.req
      BY <1>1, <2>1, <3>1, RequestsAssumption DEF IInv, WasAsked, Requested
    <3> QED
      BY <3>1, <3>2, RequestsAssumption DEF IInv, TypeOK, FiledByOrder
  <2>2. ASSUME NEW a \in Calls, NEW d \in Calls,
               call'[a] # Nil, call'[a].op = "Reserve", call'[a].req.key = NoKey,
               call'[d] # Nil, call'[d].op = "Reserve", call'[d].req = call'[a].req
        PROVE  a = d
    BY <1>1, <1>2, <2>2 DEF IInv, ReservedOnce
  <2>3. ASSUME NEW a \in Calls,
               call'[a] # Nil, call'[a].op = "Reserve", call'[a].req.key = NoKey,
               call'[a].pc \in {"get", "lock"}
        PROVE  reservations'[call'[a].req.order] = Nil
    BY <1>1, <1>2, <2>1, <2>3 DEF IInv, ReservedOnce
  <2> QED
    BY <2>2, <2>3 DEF ReservedOnce
<1> QED
  BY <1>1, <1>2, <1>3, <1>4, <1>5, OwnCallInv

\* A lookup in Redis: a Reserve is answered with success only when Redis has its
\* key.
LEMMA ReserveGetInv ==
    ASSUME IInv, NEW c \in Calls, ReserveGet(c)
    PROVE  IInv'
<1> DEFINE q == call[c].req
<1>1. /\ TypeOK /\ call[c] # Nil /\ call[c].op = "Reserve" /\ call[c].pc \in {"get", "lock"}
      /\ UNCHANGED <<stock, reservations, cache>>
  BY DEF ReserveGet, At, IInv
<1>2. call[c] \in Call /\ q \in Requests
  BY <1>1, ReserveTypes
<1>3. CASE q.key # NoKey /\ GetHits(cache, GenerateKey("reserve", q.key)) # {} /\ Reply(c, TRUE)
  <2>1. /\ call' \in [Calls -> Call \cup {Nil}]
        /\ \A d \in Calls \ {c} : call'[d] = call[d]
        /\ \A d \in Calls : KeepsRequest(d)
        /\ \A d \in Calls : call[d] = Nil => call'[d] = Nil
    BY <1>1, <1>3, MoveFacts DEF Reply, Pc
  <2>2. Remembered(q.key)
    BY <1>3 DEF GetHits, Remembered
  <2>3. call'[c].req = q
    BY <1>1, <2>1 DEF KeepsRequest
  <2>4. ASSUME NEW x, x = q, Undisturbed(x)' PROVE HeldFor(x)'
    <3>1. Undisturbed(x)
      BY <1>1, <2>1, <2>4, UndisturbedBefore
    <3>2. HeldFor(x)
      BY <1>2, <1>3, <2>2, <2>4, <3>1 DEF IInv, KeyIsHeld
    <3> QED
      BY <1>1, <3>2 DEF HeldFor
  <2>5. AnswerIsHeld(c)'
    BY <2>3, <2>4 DEF AnswerIsHeld, Undisturbed, Requested, ReleaseSent, HeldFor, At
  <2>6. ReservedOnce'
    BY <1>1, <2>1, StillOnce DEF IInv
  <2> QED
    BY <1>1, <2>1, <2>5, <2>6, OwnCallInv
<1>4. CASE ToLock(c)
  <2>1. call[c].ok \in BOOLEAN
    BY <1>2 DEF Call
  <2>2. /\ call' \in [Calls -> Call \cup {Nil}]
        /\ call'[c].pc = "lock"
        /\ \A d \in Calls \ {c} : call'[d] = call[d]
        /\ \A d \in Calls : KeepsRequest(d)
        /\ \A d \in Calls : call[d] = Nil => call'[d] = Nil
    BY <1>1, <1>4, <2>1, MoveFacts DEF ToLock, Pc
  <2>3. AnswerIsHeld(c)'
    BY <2>2 DEF AnswerIsHeld, At
  <2>4. ReservedOnce'
    BY <1>1, <2>2, StillOnce DEF IInv
  <2> QED
    BY <1>1, <2>2, <2>3, <2>4, OwnCallInv
<1> QED
  BY <1>3, <1>4 DEF ReserveGet

\* The lookup of a Release answers a release, not a reservation; a lost request is
\* not answered at all.
LEMMA ReleaseGetInv ==
    ASSUME IInv, NEW c \in Calls, ReleaseGet(c) \/ Lose(c)
    PROVE  IInv'
<1>1. /\ TypeOK /\ call[c] # Nil /\ call[c] \in Call /\ call[c].pc \in {"get", "lock"}
      /\ call[c].ok \in BOOLEAN
      /\ UNCHANGED <<stock, reservations, cache>>
      /\ \/ call[c].op = "Release" /\ (Reply(c, TRUE) \/ ToLock(c))
         \/ call' = [call EXCEPT ![c].pc = "lost"]
  <2>1. call[c] # Nil /\ call[c] \in Call
    BY DEF ReleaseGet, Lose, At, IInv, TypeOK
  <2> QED
    BY <2>1 DEF ReleaseGet, Lose, At, IInv, Call
<1>2. /\ call' \in [Calls -> Call \cup {Nil}]
      /\ call[c].op = "Release" \/ call'[c].pc = "lost"
      /\ \A d \in Calls \ {c} : call'[d] = call[d]
      /\ \A d \in Calls : KeepsRequest(d)
      /\ \A d \in Calls : call[d] = Nil => call'[d] = Nil
  BY <1>1, MoveFacts DEF Reply, ToLock, Pc
<1>3. AnswerIsHeld(c)'
  BY <1>1, <1>2 DEF AnswerIsHeld, At, KeepsRequest
<1>4. ReservedOnce'
  BY <1>1, <1>2, StillOnce DEF IInv
<1> QED
  BY <1>1, <1>2, <1>3, <1>4, OwnCallInv

\* The critical section of Reserve that finds a duplicate, or too little stock,
\* changes nothing but its answer.
LEMMA ReserveAnswerInv ==
    ASSUME IInv, NEW c \in Calls, At(c, "Reserve", "lock"),
           UNCHANGED <<stock, reservations, cache>>,
           \/ Duplicate(call[c].req) /\ Reply(c, TRUE)
           \/ Reply(c, FALSE)
    PROVE  IInv'
<1> DEFINE q == call[c].req
<1>1. TypeOK /\ call[c] # Nil /\ call[c].op = "Reserve" /\ call[c].pc \in {"get", "lock"}
  BY DEF At, IInv
<1>2. call[c] \in Call /\ q \in Requests
  BY <1>1, ReserveTypes
<1>3. /\ call' \in [Calls -> Call \cup {Nil}]
      /\ call'[c].ok => Duplicate(q)
      /\ \A d \in Calls \ {c} : call'[d] = call[d]
      /\ \A d \in Calls : KeepsRequest(d)
      /\ \A d \in Calls : call[d] = Nil => call'[d] = Nil
  BY <1>1, MoveFacts DEF Reply, Pc
<1>4. Duplicate(q) => HeldFor(q)
  BY <1>1, <1>2 DEF Duplicate, HeldFor, Same, IInv, TypeOK, FiledByOrder
<1>5. call'[c].req = q
  BY <1>1, <1>3 DEF KeepsRequest
<1>6. AnswerIsHeld(c)'
  BY <1>3, <1>4, <1>5 DEF AnswerIsHeld, HeldFor
<1>7. ReservedOnce'
  BY <1>1, <1>3, StillOnce DEF IInv
<1> QED
  BY <1>3, <1>6, <1>7, OwnCallInv

\* The step of the critical section of Reserve that takes the items.
Takes(c) ==
    LET req == call[c].req IN
    /\ At(c, "Reserve", "lock")
    /\ ~Duplicate(req) /\ Available(req)
    /\ stock' = [p \in Products |-> Int32(stock[p] - Qty(req.items, p))]
    /\ reservations' = [reservations EXCEPT ![req.order] = req]
    /\ IF req.key = NoKey
       THEN UNCHANGED cache
       ELSE cache' \in Set(cache, GenerateKey("reserve", req.key), "ok")
    /\ Reply(c, TRUE)

\* When Reserve files a reservation, the order has none: nothing is overwritten.
\* For an order with a key the scan under the mutex sees to that, for one without
\* it is that only one call asks for it.
LEMMA TakesFresh ==
    ASSUME IInv, NEW c \in Calls, Takes(c)
    PROVE  /\ call[c] # Nil /\ call[c].op = "Reserve" /\ call[c].pc = "lock"
           /\ call[c].req \in Requests /\ call[c].req.order \in Orders
           /\ reservations[call[c].req.order] = Nil
<1> DEFINE q == call[c].req
<1>1. /\ TypeOK /\ call[c] # Nil /\ call[c].op = "Reserve" /\ call[c].pc = "lock"
      /\ ~Duplicate(q)
  BY DEF Takes, At, IInv
<1>2. q \in Requests /\ q.order \in Orders
  BY <1>1, ReserveTypes
<1>3. CASE q.key = NoKey
  BY <1>1, <1>2, <1>3 DEF IInv, ReservedOnce
<1>4. CASE q.key # NoKey
  <2>1. SUFFICES ASSUME reservations[q.order] # Nil PROVE FALSE
    BY <1>1, <1>2
  <2>2. reservations[q.order] = q
    BY <1>1, <1>2, <2>1, RequestsAssumption DEF IInv, TypeOK, FiledByOrder
  <2> QED
    BY <1>1, <1>2, <1>4, <2>1, <2>2 DEF Duplicate
<1> QED
  BY <1>1, <1>2, <1>3, <1>4

\* Reserve takes the items it files, and no other key or order is touched.
LEMMA TakesInv ==
    ASSUME IInv, NEW c \in Calls, Takes(c)
    PROVE  IInv'
<1> DEFINE q == call[c].req
           o == q.order
<1>1. /\ TypeOK /\ call[c] # Nil /\ call[c].op = "Reserve" /\ call[c].pc = "lock"
      /\ q \in Requests /\ o \in Orders /\ reservations[o] = Nil /\ q # Nil
  BY TakesFresh, RequestsAssumption DEF IInv
<1>2. /\ call' \in [Calls -> Call \cup {Nil}]
      /\ call'[c].pc = "done"
      /\ \A d \in Calls \ {c} : call'[d] = call[d]
      /\ \A d \in Calls : KeepsRequest(d)
      /\ \A d \in Calls : call[d] = Nil => call'[d] = Nil
  BY <1>1, MoveFacts DEF Takes, Reply, Pc
<1>3. call'[c] # Nil /\ call'[c].op = "Reserve" /\ call'[c].req = q
  BY <1>1, <1>2 DEF KeepsRequest
<1>4. /\ reservations' \in [Orders -> Requests \cup {Nil}]
      /\ reservations'[o] = q
      /\ \A x \in Orders \ {o} : reservations'[x] = reservations[x]
  BY <1>1 DEF Takes, TypeOK
<1>5. TypeOK'
  <2>1. \A p \in Products : stock[p] - Qty(q.items, p) \in Int
    BY <1>1, QtyType, HalfAssumption DEF TypeOK
  <2>2. stock' \in [Products -> (-Half)..(Half - 1)]
    BY <1>1, <2>1, Int32Type DEF Takes
  <2> QED
    BY <1>2, <1>4, <2>2 DEF TypeOK
<1>6. FiledByOrder' /\ WasAsked'
  <2>1. FiledByOrder'
    BY <1>1, <1>4 DEF IInv, FiledByOrder
  <2>2. ASSUME NEW x \in Orders, reservations'[x] # Nil
        PROVE  Requested(reservations[x])'
    <3>1. CASE x = o
      BY <1>3, <1>4, <3>1 DEF Requested
    <3>2. CASE x # o
      BY <1>2, <1>4, <2>2, <3>2 DEF IInv, WasAsked, Requested, KeepsRequest
    <3> QED
      BY <3>1, <3>2
  <2> QED
    BY <2>1, <2>2 DEF WasAsked
<1>7. OneReservationPerKey'
  <2>1. \A x \in Orders : reservations[x] # Nil /\ q.key # NoKey => reservations[x].key # q.key
    BY DEF Takes, Duplicate
  <2> QED
    BY <1>1, <1>4, <2>1 DEF IInv, OneReservationPerKey
<1>8. StockConserved'
  <2>1. PICK w \in Orders : w = o
    BY <1>1
  <2>2. ASSUME NEW p \in Products PROVE stock'[p] = Int32(stock[p] + Held(w, p) - Held(w, p)')
    <3>1. Held(w, p) = 0 /\ Held(w, p)' = Qty(q.items, p)
      BY <1>1, <1>4, <2>1 DEF Held
    <3>2. stock'[p] = Int32(stock[p] - Qty(q.items, p)) /\ stock[p] \in Int
      BY <1>1, HalfAssumption DEF Takes, TypeOK
    <3>3. stock[p] + 0 - Qty(q.items, p) = stock[p] - Qty(q.items, p)
      BY <1>1, <3>2, QtyType, Nothing
    <3> QED
      BY <3>1, <3>2, <3>3
  <2> QED
    BY <1>1, <1>4, <1>5, <2>1, <2>2, Moved DEF IInv
<1>9. ReservedOnce'
  <2>1. ASSUME NEW a \in Calls, call'[a] # Nil, call'[a].op = "Reserve"
        PROVE  /\ call[a] # Nil /\ call[a].op = "Reserve" /\ call'[a].req = call[a].req
               /\ call[a].req \in Requests /\ call[a].req.order \in Orders
    <3>1. call[a] # Nil /\ call[a].op = "Reserve" /\ call'[a].req = call[a].req
      BY <1>2, <2>1 DEF KeepsRequest
    <3> QED
      BY <1>1, <3>1, ReserveTypes
  <2>2. ASSUME NEW a \in Calls, NEW d \in Calls,
               call'[a] # Nil, call'[a].op = "Reserve", call'[a].req.key = NoKey,
               call'[d] # Nil, call'[d].op = "Reserve", call'[d].req = call'[a].req
        PROVE  a = d
    BY <2>1, <2>2 DEF IInv, ReservedOnce
  <2>3. ASSUME NEW a \in Calls,
               call'[a] # Nil, call'[a].op = "Reserve", call'[a].req.key = NoKey,
               call'[a].pc \in {"get", "lock"}
        PROVE  reservations'[call'[a].req.order] = Nil
    <3>1. a # c /\ call'[a] = call[a]
      BY <1>2, <2>3
    <3>2. call[a].req # q
      BY <1>1, <2>1, <2>3, <3>1 DEF IInv, ReservedOnce
    <3>3. call[a].req.order # o
      BY <1>1, <2>1, <2>3, <3>2, RequestsAssumption
    <3> QED
      BY <1>4, <2>1, <2>3, <3>1, <3>3 DEF IInv, ReservedOnce
  <2> QED
    BY <2>2, <2>3 DEF ReservedOnce
<1>10. ASSUME NEW x \in Requests, HeldFor(x) PROVE HeldFor(x)'
  <2>1. PICK y \in Same(x) : reservations[y.order] = y
    BY <1>10 DEF HeldFor
  <2>2. y \in Requests /\ y.order \in Orders /\ y # Nil
    BY RequestsAssumption DEF Same
  <2>3. reservations'[y.order] = y
    BY <1>1, <1>4, <2>1, <2>2
  <2> QED
    BY <2>3 DEF HeldFor
<1>11. ASSUME NEW x \in Requests, Undisturbed(x)' PROVE Undisturbed(x)
  BY <1>1, <1>2, <1>11, UndisturbedBefore
<1>12. ASSUME NEW x \in Requests, q \in Same(x) PROVE HeldFor(x)'
  BY <1>4, <1>12 DEF HeldFor
<1>13. ASSUME NEW x \in Requests, x.key # NoKey, Remembered(x.key)' PROVE KeyIsHeld(x)'
  <2>1. CASE x.key = q.key
    <3>1. q \in Same(x)
      BY <1>1, <1>13, <2>1 DEF Same
    <3>2. At(c, "Reserve", "done")'
      BY <1>2, <1>3 DEF At
    <3> QED
      BY <1>3, <1>12, <3>1, <3>2 DEF KeyIsHeld
  <2>2. CASE x.key # q.key
    <3>1. Remembered(x.key)
      BY <1>13, <2>2 DEF Takes, Remembered, Set, GenerateKey, GetHits
    <3>2. PICK d \in Calls : /\ At(d, "Reserve", "done") \/ At(d, "Reserve", "old")
                             /\ call[d].req \in Same(x)
      BY <1>13, <3>1 DEF IInv, KeyIsHeld
    <3>3. /\ At(d, "Reserve", "done")' \/ At(d, "Reserve", "old")'
          /\ call'[d].req = call[d].req
      BY <1>2, <3>2 DEF At, KeepsRequest
    <3>4. Undisturbed(x) => HeldFor(x)
      BY <1>13, <3>1 DEF IInv, KeyIsHeld
    <3> QED
      BY <1>10, <1>11, <3>2, <3>3, <3>4 DEF KeyIsHeld
  <2> QED
    BY <2>1, <2>2
<1>14. \A x \in Requests : KeyIsHeld(x)'
  BY <1>13 DEF KeyIsHeld
<1>15. ASSUME NEW d \in Calls PROVE AnswerIsHeld(d)'
  <2> SUFFICES ASSUME At(d, "Reserve", "done")', call'[d].ok,
                      NEW x, x = call'[d].req, Undisturbed(x)'
               PROVE  HeldFor(x)'
    BY DEF AnswerIsHeld, Undisturbed, Requested, HeldFor, ReleaseSent, At
  <2>1. CASE d = c
    BY <1>1, <1>3, <1>12, <2>1 DEF Same
  <2>2. CASE d # c
    <3>1. call'[d] = call[d] /\ At(d, "Reserve", "done")
      BY <1>2, <2>2 DEF At
    <3>2. x \in Requests
      BY <1>1, <3>1, ReserveTypes DEF At
    <3>3. HeldFor(x)
      BY <1>11, <3>1, <3>2 DEF IInv, AnswerIsHeld
    <3> QED
      BY <1>10, <3>2, <3>3
  <2> QED
    BY <2>1, <2>2
<1> QED
  BY <1>5, <1>6, <1>7, <1>8, <1>9, <1>14, <1>15 DEF IInv

\* The critical section of Reserve.
LEMMA ReserveLockedInv ==
    ASSUME IInv, NEW c \in Calls, ReserveLocked(c)
    PROVE  IInv'
<1>1. \/ /\ At(c, "Reserve", "lock") /\ UNCHANGED <<stock, reservations, cache>>
         /\ \/ Duplicate(call[c].req) /\ Reply(c, TRUE)
            \/ Reply(c, FALSE)
      \/ Takes(c)
  BY DEF ReserveLocked, Takes
<1> QED
  BY <1>1, ReserveAnswerInv, TakesInv

\* The critical section of Release: what it takes away was asked for by this very
\* call.
LEMMA ReleaseLockedInv ==
    ASSUME IInv, NEW c \in Calls, ReleaseLocked(c)
    PROVE  IInv'
<1>1. PICK o : o = call[c].order
  OBVIOUS
<1>2. /\ TypeOK /\ call[c] # Nil /\ call[c].op = "Release" /\ call[c].pc = "lock"
      /\ call[c] \in Call /\ o \in Orders /\ Reply(c, TRUE)
  <2>1. TypeOK /\ call[c] # Nil /\ call[c].op = "Release" /\ call[c].pc = "lock" /\ Reply(c, TRUE)
    BY DEF ReleaseLocked, At, IInv
  <2>2. call[c] \in Call
    BY <2>1 DEF TypeOK
  <2> QED
    BY <1>1, <2>1, <2>2 DEF Call
<1>3. /\ call' \in [Calls -> Call \cup {Nil}]
      /\ \A d \in Calls \ {c} : call'[d] = call[d]
      /\ \A d \in Calls : KeepsRequest(d)
      /\ \A d \in Calls : call[d] = Nil => call'[d] = Nil
  BY <1>2, MoveFacts DEF Reply, Pc
<1>4. CASE UNCHANGED <<stock, reservations, cache>>
  <2>1. AnswerIsHeld(c)'
    BY <1>2, <1>3 DEF AnswerIsHeld, At, KeepsRequest
  <2>2. ReservedOnce'
    BY <1>2, <1>3, <1>4, StillOnce DEF IInv
  <2> QED
    BY <1>3, <1>4, <2>1, <2>2, OwnCallInv
<1>5. CASE /\ reservations[o] # Nil
           /\ stock' = [p \in Products |-> Int32(stock[p] + Qty(reservations[o].items, p))]
           /\ reservations' = Deleted(o)
           /\ cache' \in Set(cache, GenerateKey("release", o), "ok")
  <2>1. /\ reservations' \in [Orders -> Requests \cup {Nil}]
        /\ reservations'[o] = Nil
        /\ \A x \in Orders \ {o} : reservations'[x] = reservations[x]
    BY <1>2, <1>5 DEF Deleted, TypeOK
  <2>2. reservations[o] \in Requests
    BY <1>2, <1>5 DEF TypeOK
  <2>3. TypeOK'
    <3>1. \A p \in Products : stock[p] + Qty(reservations[o].items, p) \in Int
      BY <1>2, <2>2, QtyType, HalfAssumption DEF TypeOK
    <3>2. stock' \in [Products -> (-Half)..(Half - 1)]
      BY <1>5, <3>1, Int32Type
    <3> QED
      BY <1>3, <2>1, <3>2 DEF TypeOK
  <2>4. (FiledByOrder /\ WasAsked /\ OneReservationPerKey)'
    <3>1. FiledByOrder' /\ OneReservationPerKey'
      BY <1>2, <2>1 DEF IInv, FiledByOrder, OneReservationPerKey
    <3>2. WasAsked'
      BY <1>2, <1>3, <2>1 DEF IInv, WasAsked, Requested, KeepsRequest
    <3> QED
      BY <3>1, <3>2
  <2>5. StockConserved'
    <3>1. ASSUME NEW p \in Products PROVE stock'[p] = Int32(stock[p] + Held(o, p) - Held(o, p)')
      <4>1. Held(o, p) = Qty(reservations[o].items, p) /\ Held(o, p)' = 0
        BY <1>5, <2>1 DEF Held
      <4>2. stock'[p] = Int32(stock[p] + Qty(reservations[o].items, p)) /\ stock[p] \in Int
        BY <1>2, <1>5, HalfAssumption DEF TypeOK
      <4>3. stock[p] + Qty(reservations[o].items, p) - 0 = stock[p] + Qty(reservations[o].items, p)
        BY <2>2, <4>2, QtyType, Nothing
      <4> QED
        BY <4>1, <4>2, <4>3
    <3> QED
      BY <1>2, <2>1, <2>3, <3>1, Moved DEF IInv
  <2>6. ReservedOnce'
    BY <1>2, <1>3, <2>1, StillOnce DEF IInv
  <2>7. ASSUME NEW x \in Requests, Undisturbed(x)'
        PROVE  Undisturbed(x) /\ (HeldFor(x) => HeldFor(x)')
    <3>1. Undisturbed(x)
      BY <1>2, <1>3, <2>7, UndisturbedBefore
    <3>2. \A y \in Same(x) : Requested(y) => y.order # o
      BY <1>1, <1>2, <3>1 DEF Undisturbed, ReleaseSent
    <3>3. ASSUME NEW y \in Same(x), reservations[y.order] = y
          PROVE  reservations'[y.order] = y
      <4>1. y \in Requests /\ y.order \in Orders /\ y # Nil
        BY RequestsAssumption DEF Same
      <4>2. Requested(y)
        BY <3>3, <4>1 DEF IInv, WasAsked
      <4> QED
        BY <2>1, <3>2, <3>3, <4>1, <4>2
    <3> QED
      BY <3>1, <3>3 DEF HeldFor
  <2>8. ASSUME NEW x \in Requests, x.key # NoKey, Remembered(x.key)' PROVE KeyIsHeld(x)'
    <3>1. Remembered(x.key)
      BY <1>5, <2>8 DEF Remembered, Set, GenerateKey, GetHits
    <3>2. PICK d \in Calls : /\ At(d, "Reserve", "done") \/ At(d, "Reserve", "old")
                             /\ call[d].req \in Same(x)
      BY <2>8, <3>1 DEF IInv, KeyIsHeld
    <3>3. /\ At(d, "Reserve", "done")' \/ At(d, "Reserve", "old")'
          /\ call'[d].req = call[d].req
      BY <1>3, <3>2 DEF At, KeepsRequest
    <3>4. Undisturbed(x) => HeldFor(x)
      BY <2>8, <3>1 DEF IInv, KeyIsHeld
    <3> QED
      BY <2>7, <3>2, <3>3, <3>4 DEF KeyIsHeld
  <2>9. \A x \in Requests : KeyIsHeld(x)'
    BY <2>8 DEF KeyIsHeld
  <2>10. ASSUME NEW d \in Calls PROVE AnswerIsHeld(d)'
    <3> SUFFICES ASSUME At(d, "Reserve", "done")', call'[d].ok,
                        NEW x, x = call'[d].req, Undisturbed(x)'
                 PROVE  HeldFor(x)'
      BY DEF AnswerIsHeld, Undisturbed, Requested, HeldFor, ReleaseSent, At
    <3>1. call'[d] = call[d] /\ At(d, "Reserve", "done")
      BY <1>2, <1>3 DEF At, KeepsRequest
    <3>2. x \in Requests
      BY <1>2, <3>1, ReserveTypes DEF At
    <3> QED
      BY <2>7, <3>1, <3>2 DEF IInv, AnswerIsHeld
  <2> QED
    BY <2>3, <2>4, <2>5, <2>6, <2>9, <2>10 DEF IInv
<1> QED
  BY <1>1, <1>4, <1>5 DEF ReleaseLocked

\* A restart puts the stock back and forgets every reservation; every key Redis
\* still has was given to a call that counts as old from now on.
LEMMA RestartInv ==
    ASSUME IInv, Restart
    PROVE  IInv'
<1>1. ASSUME NEW d \in Calls
      PROVE  /\ call'[d] \in Call \cup {Nil}
             /\ call[d] = Nil => call'[d] = Nil
             /\ KeepsRequest(d)
             /\ ~At(d, "Reserve", "done")'
  <2>1. CASE call[d] = Nil
    BY <2>1 DEF Restart, KeepsRequest, At
  <2>2. CASE call[d] # Nil
    <3>1. call[d] \in Call /\ call'[d] = [call[d] EXCEPT !.pc = AfterRestart(@)]
      BY <2>2 DEF IInv, TypeOK, Restart
    <3>2. /\ AfterRestart(call[d].pc) \in Pc \ {"get", "lock", "done"}
          /\ call[d].pc \in {"done", "old"} => AfterRestart(call[d].pc) = "old"
      BY <3>1 DEF AfterRestart, Call, Pc
    <3>3. call'[d] \in Call /\ call'[d].pc = AfterRestart(call[d].pc)
      BY <3>1, <3>2 DEF Call
    <3>4. KeepsRequest(d)
      BY <3>1, <3>2, <3>3, UnusedAssumption DEF KeepsRequest, Call
    <3> QED
      BY <2>2, <3>2, <3>3, <3>4 DEF At
  <2> QED
    BY <2>1, <2>2
<1>2. stock' = InitialStock /\ (\A o \in Orders : reservations'[o] = Nil) /\ cache' = cache
  BY DEF Restart
<1>3. TypeOK'
  <2>1. call' \in [Calls -> Call \cup {Nil}]
    BY <1>1 DEF Restart
  <2>2. stock' \in [Products -> (-Half)..(Half - 1)] /\ reservations' \in [Orders -> Requests \cup {Nil}]
    BY RequestsAssumption, HalfAssumption DEF Restart
  <2> QED
    BY <2>1, <2>2 DEF TypeOK
<1>4. (FiledByOrder /\ WasAsked /\ OneReservationPerKey)'
  BY <1>2 DEF FiledByOrder, WasAsked, OneReservationPerKey
<1>5. ReservedOnce'
  BY <1>1, <1>2, StillOnce DEF IInv
<1>6. StockConserved'
  <2>1. ASSUME NEW p PROVE [o \in Orders |-> Held(o, p)'] = [o \in Orders |-> 0]
    BY <1>2 DEF Held
  <2>2. ASSUME NEW p \in Products
        PROVE  Int32(stock'[p] + SumFunction([o \in Orders |-> Held(o, p)'])) = InitialStock[p]
    <3>1. /\ stock'[p] = InitialStock[p]
          /\ InitialStock[p] \in (-Half)..(Half - 1) /\ InitialStock[p] \in Int
      BY <1>2, RequestsAssumption, HalfAssumption
    <3>2. stock'[p] + SumFunction([o \in Orders |-> Held(o, p)']) = InitialStock[p]
      BY <2>1, <3>1, NothingHeld
    <3> QED
      BY <3>1, <3>2, Int32Same
  <2> QED
    BY <2>2 DEF StockConserved
<1>7. ASSUME NEW q \in Requests, q.key # NoKey, Remembered(q.key)' PROVE KeyIsHeld(q)'
  <2>1. Remembered(q.key)
    BY <1>2, <1>7 DEF Remembered
  <2>2. PICK d \in Calls : /\ At(d, "Reserve", "done") \/ At(d, "Reserve", "old")
                           /\ call[d].req \in Same(q)
    BY <1>7, <2>1 DEF IInv, KeyIsHeld
  <2>3. At(d, "Reserve", "old")' /\ call'[d].req = call[d].req
    BY <1>1, <2>2 DEF At, KeepsRequest
  <2>4. ~Undisturbed(q)'
    BY <2>2, <2>3 DEF Undisturbed
  <2> QED
    BY <2>2, <2>3, <2>4 DEF KeyIsHeld
<1>8. \A q \in Requests : KeyIsHeld(q)'
  BY <1>7 DEF KeyIsHeld
<1>9. \A d \in Calls : AnswerIsHeld(d)'
  BY <1>1 DEF AnswerIsHeld
<1> QED
  BY <1>3, <1>4, <1>5, <1>6, <1>8, <1>9 DEF IInv

\* Every step of the service keeps the invariant.
LEMMA NextInv == IInv /\ [Next]_vars => IInv'
<1> SUFFICES ASSUME IInv, [Next]_vars PROVE IInv'
  OBVIOUS
<1>1. CASE Restart
  BY <1>1, RestartInv
<1>2. ASSUME NEW c \in Calls, Client(c) PROVE IInv'
  BY <1>2, ArriveInv
<1>3. ASSUME NEW c \in Calls, Handle(c) PROVE IInv'
  BY <1>3, ReserveGetInv, ReserveLockedInv, ReleaseGetInv, ReleaseLockedInv DEF Handle
<1>4. ASSUME NEW c \in Calls, Lose(c) PROVE IInv'
  BY <1>4, ReleaseGetInv
<1>5. CASE UNCHANGED vars
  <2>1. (TypeOK /\ FiledByOrder /\ WasAsked /\ OneReservationPerKey /\ ReservedOnce)'
    BY <1>5 DEF vars, IInv, TypeOK, FiledByOrder, WasAsked, Requested, OneReservationPerKey, ReservedOnce
  <2>2. StockConserved'
    BY <1>5 DEF vars, IInv, StockConserved, Held
  <2>3. (\A q \in Requests : KeyIsHeld(q))'
    BY <1>5 DEF vars, IInv, KeyIsHeld, Remembered, Undisturbed, Requested, ReleaseSent, HeldFor, At
  <2>4. (\A c \in Calls : AnswerIsHeld(c))'
    BY <1>5 DEF vars, IInv, AnswerIsHeld, Undisturbed, Requested, ReleaseSent, HeldFor, At
  <2> QED
    BY <2>1, <2>2, <2>3, <2>4 DEF IInv
<1> QED
  BY <1>1, <1>2, <1>3, <1>4, <1>5 DEF Next

-----------------------------------------------------------------------------
(* Calls and reservations as the caller sees them.                            *)

Answered(d) == call[d] # Nil /\ call[d].pc \in {"done", "old"}

\* What the server does to the call d: it answers it at most once.
OnlyMoves(d) ==
    /\ call[d] = Nil => call'[d] = Nil
    /\ KeepsRequest(d)
    /\ Answered(d) => Answered(d)' /\ call'[d].ok = call[d].ok

\* Every step of the server is of this kind.
LEMMA ServerMoves ==
    ASSUME TypeOK, Restart \/ \E c \in Calls : Handle(c) \/ Lose(c), NEW d \in Calls
    PROVE  OnlyMoves(d)
<1>1. ASSUME NEW c \in Calls, Handle(c) \/ Lose(c) PROVE OnlyMoves(d)
  <2>1. PICK p \in Pc, ok \in BOOLEAN :
            /\ call[c] # Nil /\ call[c].pc \in {"get", "lock"}
            /\ \/ call' = [call EXCEPT ![c].pc = p, ![c].ok = ok]
               \/ call' = [call EXCEPT ![c].pc = p] /\ ok = call[c].ok
    <3>1. call[c] # Nil => call[c].ok \in BOOLEAN
      BY DEF TypeOK, Call
    <3>2. \/ \E p \in Pc, ok \in BOOLEAN : call' = [call EXCEPT ![c].pc = p, ![c].ok = ok]
          \/ \E p \in Pc : call' = [call EXCEPT ![c].pc = p]
      BY <1>1 DEF Handle, Lose, ReserveGet, ReserveLocked, ReleaseGet, ReleaseLocked,
                  Reply, ToLock, Pc
    <3>3. call[c] # Nil /\ call[c].pc \in {"get", "lock"}
      BY <1>1 DEF Handle, Lose, ReserveGet, ReserveLocked, ReleaseGet, ReleaseLocked, At
    <3> QED
      BY <3>1, <3>2, <3>3
  <2>2. /\ \A e \in Calls \ {c} : call'[e] = call[e]
        /\ \A e \in Calls : KeepsRequest(e)
        /\ \A e \in Calls : call[e] = Nil => call'[e] = Nil
    BY <2>1, MoveFacts
  <2>3. CASE d = c
    BY <2>1, <2>2, <2>3 DEF OnlyMoves, Answered
  <2>4. CASE d # c
    BY <2>2, <2>4 DEF OnlyMoves, Answered
  <2> QED
    BY <2>3, <2>4
<1>2. CASE Restart
  <2>1. CASE call[d] = Nil
    BY <1>2, <2>1 DEF Restart, OnlyMoves, KeepsRequest, Answered
  <2>2. CASE call[d] # Nil
    <3>1. call[d] \in Call /\ call'[d] = [call[d] EXCEPT !.pc = AfterRestart(@)]
      BY <1>2, <2>2 DEF TypeOK, Restart
    <3>2. /\ AfterRestart(call[d].pc) \in Pc \ {"get", "lock", "done"}
          /\ call[d].pc \in {"done", "old"} => AfterRestart(call[d].pc) = "old"
      BY <3>1 DEF AfterRestart, Call, Pc
    <3>3. /\ call'[d] \in Call /\ call'[d].pc = AfterRestart(call[d].pc)
          /\ call'[d].ok = call[d].ok
      BY <3>1, <3>2 DEF Call
    <3>4. KeepsRequest(d)
      BY <3>1, <3>2, <3>3, UnusedAssumption DEF KeepsRequest, Call
    <3> QED
      BY <2>2, <3>2, <3>3, <3>4 DEF OnlyMoves, Answered, KeepsRequest
  <2> QED
    BY <2>1, <2>2
<1> QED
  BY <1>1, <1>2

\* Only a restart makes an answer an old one.
LEMMA NotOld ==
    ASSUME TypeOK, NEW c \in Calls, Handle(c) \/ Lose(c)
    PROVE  call'[c].pc # "old"
<1>1. call[c] \in Call
  BY DEF TypeOK, Handle, Lose, ReserveGet, ReserveLocked, ReleaseGet, ReleaseLocked, At
<1> QED
  BY <1>1 DEF TypeOK, Call, Handle, Lose, ReserveGet, ReserveLocked, ReleaseGet, ReleaseLocked,
              Reply, ToLock

\* It leaves the calls it is not about alone.
LEMMA OtherCalls ==
    ASSUME TypeOK, NEW c \in Calls, NEW d \in Calls \ {c},
           Handle(c) \/ Lose(c) \/ Client(c)
    PROVE  call'[d] = call[d]
  BY DEF TypeOK, Handle, Lose, Client, ReserveGet, ReserveLocked, ReleaseGet, ReleaseLocked,
         Reserve, Release, Reply, ToLock

\* A reservation was made by a call that was answered with success, and the key of
\* a release was put into Redis by one that was answered.
MadeByAnswer(o) ==
    reservations[o] # Nil =>
        \E c \in Calls : At(c, "Reserve", "done") /\ call[c].ok /\ call[c].req.order = o

Released(o) == \E c \in Calls : Answered(c) /\ call[c].op = "Release" /\ call[c].order = o

ReleaseKey(o) == \E x \in cache : x[1] = GenerateKey("release", o)

CallerInv == \A o \in Orders : MadeByAnswer(o) /\ (ReleaseKey(o) => Released(o))

\* What a handler does to the reservation of order o and to the key of its release.
LEMMA HandlerEffect ==
    ASSUME TypeOK, NEW c \in Calls, Handle(c) \/ Lose(c), NEW o \in Orders
    PROVE  /\ reservations'[o] # Nil =>
                 \/ reservations[o] # Nil
                 \/ /\ At(c, "Reserve", "lock") /\ call[c].req.order = o
                    /\ At(c, "Reserve", "done")' /\ call'[c].ok
           /\ ReleaseKey(o)' =>
                 \/ ReleaseKey(o)
                 \/ At(c, "Release", "done")' /\ call'[c].order = o
           /\ Answered(c)' /\ call'[c].op = "Release" /\ call'[c].order = o =>
                 reservations'[o] = Nil \/ (ReleaseKey(o) /\ reservations'[o] = reservations[o])
<1> USE DEF GenerateKey
<1>1. call[c] \in Call /\ OnlyMoves(c)
  <2>1. call[c] # Nil
    BY DEF Handle, Lose, ReserveGet, ReserveLocked, ReleaseGet, ReleaseLocked, At
  <2> QED
    BY <2>1, ServerMoves DEF TypeOK
<1>2. CASE Lose(c) \/ ReserveGet(c) \/ ReleaseGet(c)
  <2>1. UNCHANGED <<reservations, cache>>
    BY <1>2 DEF Lose, ReserveGet, ReleaseGet
  <2>2. (ReleaseKey(o)' <=> ReleaseKey(o)) /\ reservations'[o] = reservations[o]
    BY <2>1 DEF ReleaseKey
  <2>3. Answered(c)' /\ call'[c].op = "Release" /\ call'[c].order = o => ReleaseKey(o)
    <3> SUFFICES ASSUME Answered(c)', call'[c].op = "Release", call'[c].order = o
                 PROVE  ReleaseKey(o)
      OBVIOUS
    <3>1. call[c].op = "Release" /\ call[c].order = o
      BY <1>1, UnusedAssumption DEF OnlyMoves, KeepsRequest, Call
    <3>2. ~ReserveGet(c)
      BY <3>1 DEF ReserveGet, At
    <3>3. call'[c].pc \notin {"lost", "lock"}
      BY DEF Answered
    <3>4. ~Lose(c)
      BY <1>1, <3>3 DEF Lose, TypeOK, Call
    <3>5. ReleaseGet(c) /\ ~ToLock(c)
      BY <1>1, <1>2, <3>2, <3>3, <3>4 DEF ToLock, TypeOK, Call
    <3> QED
      BY <3>1, <3>5 DEF ReleaseGet, GetHits, ReleaseKey
  <2> QED
    BY <2>2, <2>3
<1>3. CASE ReserveLocked(c)
  <2>1. At(c, "Reserve", "lock") /\ call[c].op = "Reserve"
    BY <1>3 DEF ReserveLocked, At
  <2>2. call'[c] # Nil /\ call'[c].op = "Reserve" /\ call'[c].req = call[c].req
    BY <1>1, <2>1, UnusedAssumption DEF OnlyMoves, KeepsRequest
  <2>3. ReleaseKey(o)' => ReleaseKey(o)
    <3>1. cache' = cache \/ cache' \in Set(cache, <<"reserve", call[c].req.key>>, "ok")
      BY <1>3 DEF ReserveLocked
    <3>2. ASSUME NEW x \in cache', x[1] = <<"release", o>> PROVE x \in cache
      <4>1. <<"reserve", call[c].req.key>> # <<"release", o>>
        OBVIOUS
      <4> QED
        BY <3>1, <3>2, <4>1 DEF Set, GetHits
    <3> QED
      BY <3>2 DEF ReleaseKey
  <2>4. CASE UNCHANGED reservations
    BY <2>2, <2>3, <2>4
  <2>5. CASE /\ reservations' = [reservations EXCEPT ![call[c].req.order] = call[c].req]
             /\ Reply(c, TRUE)
    <3>1. reservations'[o] # Nil => reservations[o] # Nil \/ call[c].req.order = o
      BY <2>5 DEF TypeOK
    <3>2. call'[c].pc = "done" /\ call'[c].ok
      BY <1>1, <2>5 DEF Reply, TypeOK, Call
    <3> QED
      BY <2>1, <2>2, <2>3, <3>1, <3>2 DEF At
  <2> QED
    BY <1>3, <2>4, <2>5 DEF ReserveLocked
<1>4. CASE ReleaseLocked(c)
  <2>1. At(c, "Release", "lock") /\ call[c].op = "Release" /\ Reply(c, TRUE)
    BY <1>4 DEF ReleaseLocked, At
  <2>2. call'[c] # Nil /\ call'[c].op = "Release" /\ call'[c].order = call[c].order
    BY <1>1, <2>1, UnusedAssumption DEF OnlyMoves, KeepsRequest
  <2>3. call'[c].pc = "done"
    BY <1>1, <2>1 DEF Reply, TypeOK, Call
  <2>4. ReleaseKey(o)' => ReleaseKey(o) \/ call[c].order = o
    BY <1>4 DEF ReleaseLocked, ReleaseKey, Set, GetHits
  <2>5. /\ reservations'[o] # Nil => reservations[o] # Nil
        /\ call[c].order = o => reservations'[o] = Nil
    BY <1>4 DEF ReleaseLocked, Deleted, TypeOK
  <2> QED
    BY <2>2, <2>3, <2>4, <2>5 DEF At
<1> QED
  BY <1>2, <1>3, <1>4 DEF Handle

\* The invariant of the caller holds of the service in any state it can be in.
LEMMA CallerNext == IInv /\ CallerInv /\ [Next]_vars => CallerInv'
<1> SUFFICES ASSUME IInv, CallerInv, [Next]_vars PROVE CallerInv'
  OBVIOUS
<1> SUFFICES ASSUME NEW o \in Orders
             PROVE  MadeByAnswer(o)' /\ (ReleaseKey(o)' => Released(o)')
  BY DEF CallerInv
<1>1. MadeByAnswer(o) /\ (ReleaseKey(o) => Released(o)) /\ TypeOK
  BY DEF CallerInv, IInv
<1>2. ASSUME \A d \in Calls : OnlyMoves(d)
      PROVE  Released(o) => Released(o)'
  BY <1>2 DEF Released, OnlyMoves, Answered, KeepsRequest
<1>3. ASSUME NEW c \in Calls, Handle(c) \/ Lose(c)
      PROVE  MadeByAnswer(o)' /\ (ReleaseKey(o)' => Released(o)')
  <2>1. \A d \in Calls : OnlyMoves(d)
    BY <1>1, <1>3, ServerMoves
  <2>2. ReleaseKey(o)' => Released(o)'
    BY <1>1, <1>2, <1>3, <2>1, HandlerEffect DEF Released, Answered, At
  <2>3. ASSUME NEW d \in Calls, At(d, "Reserve", "done"), call[d].ok
        PROVE  At(d, "Reserve", "done")' /\ call'[d].ok /\ call'[d].req = call[d].req
    <3>1. c # d => call'[d] = call[d]
      BY <1>1, <1>3, OtherCalls
    <3>2. c # d
      BY <1>3, <2>3 DEF Handle, Lose, ReserveGet, ReserveLocked, ReleaseGet, ReleaseLocked, At
    <3> QED
      BY <2>3, <3>1, <3>2 DEF At
  <2>4. CASE reservations[o] # Nil
    BY <1>1, <2>2, <2>3, <2>4 DEF MadeByAnswer
  <2>5. CASE reservations[o] = Nil
    <3>1. reservations'[o] # Nil =>
             /\ At(c, "Reserve", "lock") /\ call[c].req.order = o
             /\ At(c, "Reserve", "done")' /\ call'[c].ok
      BY <1>1, <1>3, <2>5, HandlerEffect
    <3>2. At(c, "Reserve", "lock") => call'[c].req = call[c].req
      BY <2>1 DEF OnlyMoves, KeepsRequest, At
    <3> QED
      BY <2>2, <3>1, <3>2 DEF MadeByAnswer
  <2> QED
    BY <2>2, <2>4, <2>5
<1>4. CASE Restart
  <2>1. \A d \in Calls : OnlyMoves(d)
    BY <1>1, <1>4, ServerMoves
  <2>2. reservations'[o] = Nil /\ cache' = cache
    BY <1>4 DEF Restart
  <2> QED
    BY <1>1, <1>2, <2>1, <2>2 DEF MadeByAnswer, ReleaseKey
<1>5. ASSUME NEW c \in Calls, Client(c)
      PROVE  MadeByAnswer(o)' /\ (ReleaseKey(o)' => Released(o)')
  <2>1. /\ UNCHANGED <<reservations, cache>> /\ call[c] = Nil
        /\ \A d \in Calls \ {c} : call'[d] = call[d]
    BY <1>1, <1>5, OtherCalls DEF Client, Reserve, Release
  <2>2. \A d \in Calls : call[d] # Nil => call'[d] = call[d]
    BY <2>1
  <2> QED
    BY <1>1, <2>1, <2>2 DEF MadeByAnswer, ReleaseKey, Released, Answered, At
<1>6. CASE UNCHANGED vars
  BY <1>1, <1>6 DEF vars, MadeByAnswer, ReleaseKey, Released, Answered, At
<1> QED
  BY <1>3, <1>4, <1>5, <1>6 DEF Next

\* Once a release of order o was answered nothing is reserved for o, unless a Reserve
\* of it was still under way.
LEMMA StaysReleased ==
    ASSUME IInv, CallerInv, [Next]_vars, NEW o \in Orders,
           Released(o) => reservations[o] = Nil,
           Released(o)' => \A c \in Calls : ~((At(c, "Reserve", "get") \/ At(c, "Reserve", "lock"))
                                              /\ call[c].req.order = o)
    PROVE  Released(o)' => reservations'[o] = Nil
<1> SUFFICES ASSUME Released(o)' PROVE reservations'[o] = Nil
  OBVIOUS
<1>1. TypeOK /\ (ReleaseKey(o) => Released(o))
  BY DEF IInv, CallerInv
<1>2. ASSUME NEW c \in Calls, Handle(c) \/ Lose(c) PROVE reservations'[o] = Nil
  <2>1. \A d \in Calls : OnlyMoves(d)
    BY <1>1, <1>2, ServerMoves
  <2>2. reservations[o] = Nil => reservations'[o] = Nil
    BY <1>1, <1>2, HandlerEffect
  <2>3. CASE Released(o)
    BY <2>2, <2>3
  <2>4. CASE ~Released(o)
    <3>1. PICK d \in Calls : Answered(d)' /\ call'[d].op = "Release" /\ call'[d].order = o
      BY DEF Released
    <3>2. d = c
      <4>1. d # c => call'[d] = call[d]
        BY <1>1, <1>2, OtherCalls
      <4> QED
        BY <2>4, <3>1, <4>1 DEF Released, Answered
    <3> QED
      BY <1>1, <1>2, <2>4, <3>1, <3>2, HandlerEffect
  <2> QED
    BY <2>3, <2>4
<1>3. CASE Restart
  BY <1>3 DEF Restart
<1>4. ASSUME NEW c \in Calls, Client(c) PROVE reservations'[o] = Nil
  <2>1. PICK d \in Calls : Answered(d)' /\ call'[d].op = "Release" /\ call'[d].order = o
    BY DEF Released
  <2>2. /\ UNCHANGED reservations /\ call[c] = Nil
        /\ \A e \in Calls \ {c} : call'[e] = call[e]
    BY <1>1, <1>4, OtherCalls DEF Client, Reserve, Release
  <2>3. call'[c].pc = "get"
    BY <1>1, <1>4 DEF Client, Reserve, Release, TypeOK
  <2>4. Released(o)
    BY <2>1, <2>2, <2>3 DEF Released, Answered
  <2> QED
    BY <2>2, <2>4
<1>5. CASE UNCHANGED vars
  BY <1>5 DEF vars, Released, Answered
<1> QED
  BY <1>2, <1>3, <1>4, <1>5 DEF Next

-----------------------------------------------------------------------------
(* Overselling.  Each line of a request is compared with the stock by itself, *)
(* so the stock is safe only when no request names a product on two lines;    *)
(* and a quantity that arrived negative adds to it.                           *)

OneLinePerProduct ==
    \A q \in Requests : \A i, j \in DOMAIN q.items :
        q.items[i].product = q.items[j].product => i = j

AllPositive == \A q \in Requests : \A i \in DOMAIN q.items : q.items[i].qty > 0

\* Then the stock never overflows, and adds up exactly.
Exact ==
    \A p \in Products : stock[p] >= 0 /\ stock[p] + AllHeld(p) = InitialStock[p]

\* A request whose lines are available one by one, and are about different
\* products, is available as a whole.
LEMMA AvailableAltogether ==
    ASSUME OneLinePerProduct, TypeOK, NEW p \in Products, stock[p] >= 0,
           NEW q \in Requests, Available(q)
    PROVE  Qty(q.items, p) <= stock[p]
<1> DEFINE S == {i \in DOMAIN q.items : q.items[i].product = p}
           f == [i \in DOMAIN q.items |-> q.items[i].qty]
<1>1. stock[p] \in Int /\ stock[p] >= 0
  BY HalfAssumption DEF TypeOK
<1>2. Qty(q.items, p) = SumFunctionOnSet(f, S)
  BY DEF Qty
<1>3. CASE S = {}
  <2> HIDE DEF S, f
  <2>1. SumFunctionOnSet(f, S) = 0
    BY <1>3, FS_EmptySet, SumRecursion
  <2> QED
    BY <1>1, <1>2, <2>1
<1>4. CASE S # {}
  <2>1. PICK i \in S : TRUE
    BY <1>4
  <2>2. S = {i}
    BY <2>1 DEF OneLinePerProduct
  <2>3. f[i] \in Int /\ f[i] <= stock[p]
    BY <1>1, <2>1, RequestsAssumption, HalfAssumption DEF Available
  <2> HIDE DEF S, f
  <2>4. SumFunctionOnSet(f, {i}) = f[i]
    BY <2>3, SumOne
  <2> QED
    BY <1>2, <2>2, <2>3, <2>4
<1> QED
  BY <1>3, <1>4

\* One order holds no more than all of them.
LEMMA HeldBound ==
    ASSUME AllPositive, TypeOK, NEW o \in Orders, NEW p
    PROVE  Held(o, p) \in Nat /\ AllHeld(p) \in Nat /\ Held(o, p) <= AllHeld(p)
<1> DEFINE e == [x \in Orders |-> Held(x, p)]
<1>1. ASSUME NEW x \in Orders PROVE Held(x, p) \in Nat
  <2>1. CASE reservations[x] = Nil
    BY <2>1 DEF Held
  <2>2. CASE reservations[x] # Nil
    <3>1. reservations[x] \in Requests
      BY <2>2 DEF TypeOK
    <3>2. \A i \in DOMAIN reservations[x].items : reservations[x].items[i].qty > 0
      BY <3>1 DEF AllPositive
    <3>3. Qty(reservations[x].items, p) \in Nat
      BY <3>1, <3>2, QtyType
    <3> QED
      BY <2>2, <3>3 DEF Held
  <2> QED
    BY <2>1, <2>2
<1>2. AllHeld(p) = SumFunctionOnSet(e, Orders)
  BY DEF AllHeld, SumFunction
<1>3. (\A x \in Orders : e[x] \in Nat /\ e[x] \in Int) /\ e[o] = Held(o, p)
  BY <1>1
<1> HIDE DEF e
<1>4. /\ SumFunctionOnSet(e, Orders) \in Nat
      /\ SumFunctionOnSet(e, Orders) = e[o] + SumFunctionOnSet(e, Orders \ {o})
  BY <1>3, RequestsAssumption, SumType, SumTakeOut
<1>5. SumFunctionOnSet(e, Orders \ {o}) \in Nat
  <2>1. IsFiniteSet(Orders \ {o})
    BY RequestsAssumption, FS_RemoveElement
  <2> QED
    BY <1>3, <2>1, SumType
<1> QED
  BY <1>1, <1>2, <1>3, <1>4, <1>5

\* So it is after a step.
LEMMA HeldNext ==
    ASSUME AllPositive, TypeOK', NEW p
    PROVE  AllHeld(p)' \in Nat
<1> DEFINE e == [x \in Orders |-> Held(x, p)']
<1>1. ASSUME NEW x \in Orders PROVE Held(x, p)' \in Nat
  <2>1. CASE reservations'[x] = Nil
    BY <2>1 DEF Held
  <2>2. CASE reservations'[x] # Nil
    <3>1. PICK q \in Requests : q = reservations'[x]
      BY <2>2 DEF TypeOK
    <3>2. \A i \in DOMAIN q.items : q.items[i].qty > 0
      BY DEF AllPositive
    <3>3. Qty(q.items, p) \in Nat
      BY <3>2, QtyType
    <3> QED
      BY <2>2, <3>1, <3>3 DEF Held
  <2> QED
    BY <2>1, <2>2
<1>2. AllHeld(p)' = SumFunctionOnSet(e, Orders)
  BY DEF AllHeld, SumFunction
<1>3. \A x \in Orders : e[x] \in Nat
  BY <1>1
<1> HIDE DEF e
<1> QED
  BY <1>2, <1>3, RequestsAssumption, SumType

\* If what the stock loses or gains leaves it between nothing and everything, int32
\* arithmetic is exact.
LEMMA ExactMove ==
    ASSUME AllPositive, TypeOK, TypeOK', Exact, NEW o \in Orders,
           \A x \in Orders \ {o} : reservations'[x] = reservations[x],
           \A p \in Products :
               /\ stock'[p] = Int32(stock[p] + Held(o, p) - Held(o, p)')
               /\ stock[p] + Held(o, p) - Held(o, p)' >= 0
    PROVE  Exact'
<1> SUFFICES ASSUME NEW p \in Products
             PROVE  stock'[p] >= 0 /\ stock'[p] + AllHeld(p)' = InitialStock[p]
  BY DEF Exact
<1> DEFINE a == stock[p] + Held(o, p) - Held(o, p)'
<1>1. /\ AllHeld(p) \in Int /\ AllHeld(p)' \in Int
      /\ AllHeld(p)' = AllHeld(p) - Held(o, p) + Held(o, p)'
  BY Exchange
<1>2. /\ stock[p] \in Int /\ stock[p] + AllHeld(p) = InitialStock[p]
      /\ Held(o, p) \in Int /\ Held(o, p)' \in Int
  <2>1. stock[p] \in Int
    BY HalfAssumption DEF TypeOK
  <2>2. Held(o, p)' \in Int
    BY HeldType
  <2> QED
    BY <2>1, <2>2, HeldType DEF Exact
<1>3. InitialStock[p] \in 0..(Half - 1) /\ Half \in Nat
  BY RequestsAssumption, HalfAssumption
<1>4. AllHeld(p)' >= 0
  <2>1. AllHeld(p)' \in Nat
    BY HeldNext
  <2> QED
    BY <2>1
<1>5. a + AllHeld(p)' = InitialStock[p] /\ a \in Int /\ a >= 0
  BY <1>1, <1>2
<1>6. stock'[p] = Int32(a)
  OBVIOUS
<1> HIDE DEF a
<1>7. a \in (-Half)..(Half - 1)
  BY <1>1, <1>3, <1>4, <1>5
<1>8. Int32(a) = a
  BY <1>7, Int32Same
<1> QED
  BY <1>5, <1>6, <1>8

\* Every step keeps the stock exact, and so at zero or above.
LEMMA ExactStep ==
    ASSUME OneLinePerProduct, AllPositive, IInv, Exact, [Next]_vars
    PROVE  Exact'
<1>0. TypeOK /\ TypeOK'
  BY NextInv DEF IInv
<1>1. CASE UNCHANGED <<stock, reservations>>
  BY <1>1 DEF Exact, AllHeld, Held
<1>2. ASSUME NEW c \in Calls, Takes(c) PROVE Exact'
  <2>1. PICK q : q = call[c].req
    OBVIOUS
  <2>2. PICK o : o = q.order
    OBVIOUS
  <2>3. /\ q \in Requests /\ o \in Orders /\ reservations[o] = Nil /\ q # Nil
        /\ Available(q)
    BY <1>2, <2>1, <2>2, TakesFresh, RequestsAssumption DEF Takes
  <2>4. reservations'[o] = q /\ \A x \in Orders \ {o} : reservations'[x] = reservations[x]
    BY <1>0, <1>2, <2>1, <2>2, <2>3 DEF Takes, TypeOK
  <2>5. ASSUME NEW p \in Products
        PROVE  /\ stock'[p] = Int32(stock[p] + Held(o, p) - Held(o, p)')
               /\ stock[p] + Held(o, p) - Held(o, p)' >= 0
    <3>1. Held(o, p) = 0 /\ Held(o, p)' = Qty(q.items, p)
      BY <2>3, <2>4 DEF Held
    <3>2. /\ stock'[p] = Int32(stock[p] - Qty(q.items, p))
          /\ stock[p] \in Int /\ stock[p] >= 0
      BY <1>0, <1>2, <2>1, HalfAssumption DEF Takes, TypeOK, Exact
    <3>3. Qty(q.items, p) \in Int /\ Qty(q.items, p) <= stock[p]
      BY <1>0, <2>3, <3>2, AvailableAltogether, QtyType
    <3>4. stock[p] + 0 - Qty(q.items, p) = stock[p] - Qty(q.items, p)
      BY <3>2, <3>3
    <3>5. stock[p] - Qty(q.items, p) >= 0
      BY <3>2, <3>3
    <3> QED
      BY <3>1, <3>2, <3>4, <3>5
  <2> QED
    BY <1>0, <2>3, <2>4, <2>5, ExactMove
<1>3. ASSUME NEW c \in Calls, ReleaseLocked(c) PROVE Exact'
  <2>1. PICK o : o = call[c].order
    OBVIOUS
  <2>2. CASE UNCHANGED <<stock, reservations>>
    BY <1>1, <2>2
  <2>3. CASE /\ reservations[o] # Nil
             /\ stock' = [p \in Products |-> Int32(stock[p] + Qty(reservations[o].items, p))]
             /\ reservations' = Deleted(o)
    <3>1. call[c] \in Call /\ call[c].op = "Release"
      BY <1>0, <1>3 DEF ReleaseLocked, At, TypeOK
    <3>2. o \in Orders
      BY <2>1, <3>1 DEF Call
    <3>3. /\ reservations[o] \in Requests /\ reservations'[o] = Nil
          /\ \A x \in Orders \ {o} : reservations'[x] = reservations[x]
      BY <1>0, <2>3, <3>2 DEF TypeOK, Deleted
    <3>4. ASSUME NEW p \in Products
          PROVE  /\ stock'[p] = Int32(stock[p] + Held(o, p) - Held(o, p)')
                 /\ stock[p] + Held(o, p) - Held(o, p)' >= 0
      <4>1. Held(o, p) = Qty(reservations[o].items, p) /\ Held(o, p)' = 0
        BY <2>3, <3>3 DEF Held
      <4>2. /\ stock'[p] = Int32(stock[p] + Qty(reservations[o].items, p))
            /\ stock[p] \in Int /\ stock[p] >= 0
        BY <1>0, <2>3, HalfAssumption DEF TypeOK, Exact
      <4>3. Held(o, p) \in Nat
        BY <1>0, <3>2, HeldBound
      <4>4. stock[p] + Held(o, p) - 0 = stock[p] + Held(o, p) /\ stock[p] + Held(o, p) >= 0
        BY <4>2, <4>3
      <4> QED
        BY <4>1, <4>2, <4>4
    <3> QED
      BY <1>0, <3>2, <3>3, <3>4, ExactMove
  <2> QED
    BY <1>3, <2>1, <2>2, <2>3 DEF ReleaseLocked
<1>4. CASE Restart
  <2>1. ASSUME NEW p PROVE [o \in Orders |-> Held(o, p)'] = [o \in Orders |-> 0]
    BY <1>4 DEF Restart, Held
  <2>2. ASSUME NEW p \in Products
        PROVE  stock'[p] >= 0 /\ stock'[p] + AllHeld(p)' = InitialStock[p]
    <3>1. stock'[p] = InitialStock[p] /\ InitialStock[p] \in Nat
      BY <1>4, RequestsAssumption, HalfAssumption DEF Restart
    <3>2. AllHeld(p)' = 0
      BY <2>1, NothingHeld DEF AllHeld
    <3> QED
      BY <3>1, <3>2
  <2> QED
    BY <2>2 DEF Exact
<1>5. ASSUME NEW c \in Calls, Client(c) \/ Handle(c) \/ Lose(c)
      PROVE  UNCHANGED <<stock, reservations>> \/ Takes(c) \/ ReleaseLocked(c)
  BY <1>5 DEF Client, Reserve, Release, Handle, ReserveGet, ReserveLocked, Takes, ReleaseGet, Lose
<1>6. CASE UNCHANGED vars
  BY <1>1, <1>6 DEF vars
<1> QED
  BY <1>1, <1>2, <1>3, <1>4, <1>5, <1>6 DEF Next

-----------------------------------------------------------------------------

\* The strengthened invariant holds of every behaviour of the service.
THEOREM Inductive == Spec => []IInv
  BY InitInv, NextInv, PTL DEF Spec

\* The maps and the handlers have their types.
THEOREM TypeCorrect == Spec => []TypeOK
<1>1. IInv => TypeOK
  BY DEF IInv
<1> QED
  BY Inductive, <1>1, PTL

\* Nothing is lost or invented: in int32 arithmetic, stock and reservations add up
\* to what NewClient fills in, for any set of orders and products and any int32 as
\* a quantity, however calls are repeated, raced, answered from Redis or cut off by
\* a restart.
THEOREM Conserved == Spec => []StockConserved
<1>1. IInv => StockConserved
  BY DEF IInv
<1> QED
  BY Inductive, <1>1, PTL

\* Two orders never hold reservations under one idempotency key: the scan and the
\* insert of Reserve happen under one lock.
THEOREM OncePerKey == Spec => []OneReservationPerKey
<1>1. IInv => OneReservationPerKey
  BY DEF IInv
<1> QED
  BY Inductive, <1>1, PTL

\* A Reserve that was answered with success, by Redis or by the scan too, holds the
\* items of its order until a release is asked for or the service restarts, as long
\* as no other order comes with its key.
THEOREM SuccessHolds == Spec => []SuccessIsHeld
<1>1. ASSUME IInv PROVE SuccessIsHeld
  <2> SUFFICES ASSUME NEW c \in Calls, NEW q, q = call[c].req,
                      At(c, "Reserve", "done"), call[c].ok, ~ReleaseSent(q.order),
                      \A d \in Calls : ~Rival(d, q),
                      \A d \in Calls : At(d, "Reserve", "old") => call[d].req # q
               PROVE  reservations[q.order] = q
    BY DEF SuccessIsHeld
  <2>1. q \in Requests
    BY <1>1, ReserveTypes DEF IInv, At
  <2>2. ASSUME NEW x \in Same(q), Requested(x) PROVE x = q
    BY <2>2 DEF Same, Requested, Rival
  <2>3. ASSUME NEW d \in Calls, At(d, "Reserve", "old") PROVE call[d].req \notin Same(q)
    <3>1. Requested(call[d].req)
      BY <2>3 DEF Requested, At
    <3> QED
      BY <2>2, <2>3, <3>1
  <2>4. Undisturbed(q)
    BY <2>2, <2>3 DEF Undisturbed
  <2>5. PICK x \in Same(q) : reservations[x.order] = x
    BY <1>1, <2>4 DEF IInv, AnswerIsHeld, HeldFor
  <2>6. x \in Requests /\ x.order \in Orders /\ x # Nil
    BY RequestsAssumption DEF Same
  <2>7. Requested(x)
    BY <1>1, <2>5, <2>6 DEF IInv, WasAsked
  <2> QED
    BY <2>2, <2>5, <2>7
<1> QED
  BY Inductive, <1>1, PTL

\* Stock is never oversold, as long as no request names a product on two lines and
\* no quantity arrived as zero or less: Reserve looks and takes under one lock.
THEOREM NeverOversold ==
    ASSUME OneLinePerProduct, AllPositive
    PROVE  Spec => []StockNeverNegative
<1>1. Init => Exact
  <2> SUFFICES ASSUME Init PROVE Exact
    OBVIOUS
  <2>1. ASSUME NEW p PROVE [o \in Orders |-> Held(o, p)] = [o \in Orders |-> 0]
    BY DEF Init, Held
  <2>2. ASSUME NEW p \in Products
        PROVE  stock[p] >= 0 /\ stock[p] + AllHeld(p) = InitialStock[p]
    <3>1. stock[p] = InitialStock[p] /\ InitialStock[p] \in Nat
      BY RequestsAssumption, HalfAssumption DEF Init
    <3>2. AllHeld(p) = 0
      BY <2>1, NothingHeld DEF AllHeld
    <3> QED
      BY <3>1, <3>2
  <2> QED
    BY <2>2 DEF Exact
<1>2. IInv /\ Exact /\ [Next]_vars => Exact'
  BY ExactStep
<1>3. Exact => StockNeverNegative
  BY DEF Exact, StockNeverNegative
<1> QED
  BY Inductive, <1>1, <1>2, <1>3, PTL DEF Spec

=============================================================================
