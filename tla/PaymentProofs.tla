--------------------------- MODULE PaymentProofs ---------------------------
(***************************************************************************)
(* Proofs about PaymentService for any number of calls and orders, however *)
(* they interleave, and any number of restarts.                            *)
(***************************************************************************)
EXTENDS PaymentService, TLAPS

-----------------------------------------------------------------------------
(* The inductive invariant.  SuccessIsPaid speaks of answers only; a Charge   *)
(* is answered from Redis, from the map or by taking the money, so the        *)
(* invariant ties these three together.                                       *)

\* Redis has the idempotency key of the charge of order o.
Remembered(o) == \E x \in cache : x[1] = GenerateKey("charge", o)

\* Nothing that could have removed the payment of order o has happened.
Undisturbed(o) == ~RefundSent(o) /\ forgotten[o] = 0

\* What is on record is what a client asked for, and was not declined.
PaymentWasAsked(o) ==
    payments[o] # Nil =>
        \E q \in Charges : q.order = o /\ payments[o] = q.amount /\ q.amount <= Limit

\* A key in Redis vouches for a payment on record.
KeyIsPaid(o) == Undisturbed(o) /\ Remembered(o) => payments[o] # Nil

\* So does a successful answer.
AnswerIsPaid(c) ==
    /\ At(c, "Charge", "done") /\ call[c].ok /\ Undisturbed(call[c].req.order)
    => payments[call[c].req.order] # Nil

IInv ==
    /\ TypeOK
    /\ MoneyIsAccounted
    /\ \A o \in Orders : PaymentWasAsked(o) /\ KeyIsPaid(o)
    /\ \A c \in Calls : AnswerIsPaid(c)

-----------------------------------------------------------------------------

\* What no step does to the call d: once made it stays the same request.
KeepsRequest(d) ==
    call[d] # Nil =>
        /\ call'[d] # Nil /\ call'[d].op = call[d].op
        /\ call[d].op = "Charge" => call'[d].req = call[d].req
        /\ call[d].op = "Refund" => call'[d].order = call[d].order

\* A step of the handler of call c that moves it to pc with the answer ok (Reply,
\* ToLock and Lose) leaves the other calls alone and its request as it was.
LEMMA MoveFacts ==
    ASSUME TypeOK, NEW c \in Calls, call[c] # Nil, NEW p \in Pc, NEW ok \in BOOLEAN,
           \/ call' = [call EXCEPT ![c].pc = p, ![c].ok = ok]
           \/ call' = [call EXCEPT ![c].pc = p] /\ ok = call[c].ok
    PROVE  /\ call' \in [Calls -> Call \cup {Nil}]
           /\ call'[c].pc = p /\ call'[c].ok = ok
           /\ \A d \in Calls \ {c} : call'[d] = call[d]
           /\ \A d \in Calls : KeepsRequest(d)
<1> DEFINE new == [call[c] EXCEPT !.pc = p, !.ok = ok]
<1>1. call[c] \in Call
  BY DEF TypeOK
<1>2. new \in Call /\ new.pc = p /\ new.ok = ok /\ new.op = call[c].op
  BY <1>1 DEF Call
<1>3. /\ call[c].op = "Charge" => new.req = call[c].req
      /\ call[c].op = "Refund" => new.order = call[c].order
  BY <1>1 DEF Call
<1>4. call' = [call EXCEPT ![c] = new]
  <2>1. CASE call' = [call EXCEPT ![c].pc = p, ![c].ok = ok]
    BY <2>1 DEF TypeOK
  <2>2. CASE call' = [call EXCEPT ![c].pc = p] /\ ok = call[c].ok
    <3>1. new = [call[c] EXCEPT !.pc = p]
      BY <1>1, <2>2 DEF Call
    <3> QED
      BY <2>2, <3>1 DEF TypeOK
  <2> QED
    BY <2>1, <2>2
<1>5. /\ call'[c] = new
      /\ call' \in [Calls -> Call \cup {Nil}]
      /\ \A d \in Calls \ {c} : call'[d] = call[d]
  BY <1>2, <1>4 DEF TypeOK
<1>6. new # Nil
  BY <1>2, UnusedAssumption
<1>7. ASSUME NEW d \in Calls PROVE KeepsRequest(d)
  <2>1. CASE d = c
    BY <1>2, <1>3, <1>5, <1>6, <2>1 DEF KeepsRequest
  <2>2. CASE d # c
    BY <1>5, <2>2 DEF KeepsRequest
  <2> QED
    BY <2>1, <2>2
<1> QED
  BY <1>2, <1>5, <1>7

\* A refund that was sent stays sent, so an order that is undisturbed after a
\* step was so before it.
LEMMA UndisturbedBefore ==
    ASSUME TypeOK, NEW o \in Orders, \A d \in Calls : KeepsRequest(d),
           forgotten'[o] >= forgotten[o], forgotten'[o] \in Nat, Undisturbed(o)'
    PROVE  Undisturbed(o)
<1>1. RefundSent(o) => RefundSent(o)'
  BY DEF RefundSent, KeepsRequest
<1>2. forgotten[o] \in Nat
  BY DEF TypeOK
<1> QED
  BY <1>1, <1>2 DEF Undisturbed

\* The invariant holds for the maps NewClient makes.
LEMMA InitInv == Init => IInv
<1> SUFFICES ASSUME Init PROVE IInv
  OBVIOUS
<1>1. TypeOK
  BY DEF Init, TypeOK
<1>2. MoneyIsAccounted
  BY DEF Init, MoneyIsAccounted
<1>3. \A o \in Orders : PaymentWasAsked(o) /\ KeyIsPaid(o)
  BY DEF Init, PaymentWasAsked, KeyIsPaid, Remembered
<1>4. \A c \in Calls : AnswerIsPaid(c)
  BY DEF Init, AnswerIsPaid, At
<1> QED
  BY <1>1, <1>2, <1>3, <1>4 DEF IInv

-----------------------------------------------------------------------------

\* A handler that changes nothing but its own call (a request that arrives, a
\* lookup in Redis, a lost request, an answer without effect) keeps the
\* invariant, if a charge it answers with success is on record.
LEMMA OwnCallInv ==
    ASSUME IInv, NEW c \in Calls, UNCHANGED <<payments, cache, history>>,
           call' \in [Calls -> Call \cup {Nil}],
           \A d \in Calls \ {c} : call'[d] = call[d],
           \A d \in Calls : KeepsRequest(d),
           AnswerIsPaid(c)'
    PROVE  IInv'
<1>1. TypeOK'
  BY DEF IInv, TypeOK, history
<1>2. MoneyIsAccounted'
  BY DEF IInv, MoneyIsAccounted, history
<1>3. ASSUME NEW o \in Orders PROVE Undisturbed(o)' => Undisturbed(o)
  BY UndisturbedBefore DEF IInv, TypeOK, history
<1>4. ASSUME NEW o \in Orders PROVE (PaymentWasAsked(o) /\ KeyIsPaid(o))'
  BY <1>3 DEF IInv, PaymentWasAsked, KeyIsPaid, Remembered
<1>5. ASSUME NEW d \in Calls PROVE AnswerIsPaid(d)'
  <2>1. CASE d = c
    BY <2>1
  <2>2. CASE d # c
    <3> SUFFICES ASSUME At(d, "Charge", "done"), call[d].ok,
                        NEW o, o = call[d].req.order, Undisturbed(o)'
                 PROVE  payments[o] # Nil
      BY <2>2 DEF AnswerIsPaid, At, Undisturbed, RefundSent
    <3>1. o \in Orders
      BY ChargesAssumption DEF IInv, TypeOK, At, Call
    <3> QED
      BY <1>3, <3>1 DEF IInv, AnswerIsPaid
  <2> QED
    BY <2>1, <2>2
<1> QED
  BY <1>1, <1>2, <1>4, <1>5 DEF IInv

\* A call that arrives is a request of its own and answers nothing yet.
LEMMA ArriveInv ==
    ASSUME IInv, NEW c \in Calls, Client(c)
    PROVE  IInv'
<1>1. PICK new \in Call : /\ call[c] = Nil /\ new.pc = "get"
                          /\ call' = [call EXCEPT ![c] = new]
                          /\ UNCHANGED <<payments, cache, history>>
  BY DEF Client, Charge, Refund, Call, Pc
<1>2. /\ call' \in [Calls -> Call \cup {Nil}]
      /\ call'[c] = new
      /\ \A d \in Calls \ {c} : call'[d] = call[d]
  BY <1>1 DEF IInv, TypeOK
<1>3. \A d \in Calls : KeepsRequest(d)
  BY <1>1, <1>2 DEF KeepsRequest
<1>4. AnswerIsPaid(c)'
  BY <1>1, <1>2 DEF AnswerIsPaid, At
<1> QED
  BY <1>1, <1>2, <1>3, <1>4, OwnCallInv

\* A lookup in Redis or a lost request: a charge is answered with success only
\* when Redis has its key.
LEMMA ChargeGetInv ==
    ASSUME IInv, NEW c \in Calls, ChargeGet(c)
    PROVE  IInv'
<1> DEFINE o == call[c].req.order
<1>1. /\ call[c] # Nil /\ call[c].op = "Charge" /\ call[c] \in Call
      /\ UNCHANGED <<payments, cache, history>>
  BY DEF ChargeGet, At, IInv, TypeOK
<1>2. o \in Orders
  BY <1>1, ChargesAssumption DEF Call
<1>3. CASE GetHits(cache, GenerateKey("charge", o)) # {} /\ Reply(c, TRUE)
  <2>1. /\ call' \in [Calls -> Call \cup {Nil}]
        /\ \A d \in Calls \ {c} : call'[d] = call[d]
        /\ \A d \in Calls : KeepsRequest(d)
    BY <1>1, <1>3, MoveFacts DEF Reply, IInv, Pc
  <2>2. Remembered(o)
    BY <1>3 DEF GetHits, Remembered
  <2>3. call'[c].req.order = o
    BY <1>1, <2>1 DEF KeepsRequest
  <2>4. ASSUME NEW oo, oo = o, Undisturbed(oo)' PROVE payments'[oo] # Nil
    <3>1. Undisturbed(oo)
      BY <1>1, <1>2, <2>1, <2>4, UndisturbedBefore DEF IInv, TypeOK, history
    <3> QED
      BY <1>1, <1>2, <2>2, <2>4, <3>1 DEF IInv, KeyIsPaid
  <2>5. AnswerIsPaid(c)'
    BY <2>3, <2>4 DEF AnswerIsPaid, Undisturbed, RefundSent
  <2> QED
    BY <1>1, <2>1, <2>5, OwnCallInv
<1>4. CASE ToLock(c)
  <2>1. /\ call' \in [Calls -> Call \cup {Nil}]
        /\ call'[c].pc = "lock"
        /\ \A d \in Calls \ {c} : call'[d] = call[d]
        /\ \A d \in Calls : KeepsRequest(d)
    BY <1>1, <1>4, MoveFacts DEF ToLock, IInv, Pc, Call
  <2>2. AnswerIsPaid(c)'
    BY <2>1 DEF AnswerIsPaid, At
  <2> QED
    BY <1>1, <2>1, <2>2, OwnCallInv
<1> QED
  BY <1>3, <1>4 DEF ChargeGet

\* The lookup of a Refund answers a refund, not a charge.
LEMMA RefundGetInv ==
    ASSUME IInv, NEW c \in Calls, RefundGet(c)
    PROVE  IInv'
<1>1. /\ call[c] # Nil /\ call[c].op = "Refund" /\ call[c] \in Call
      /\ UNCHANGED <<payments, cache, history>>
      /\ Reply(c, TRUE) \/ ToLock(c)
  BY DEF RefundGet, At, IInv, TypeOK
<1>2. /\ call' \in [Calls -> Call \cup {Nil}]
      /\ \A d \in Calls \ {c} : call'[d] = call[d]
      /\ \A d \in Calls : KeepsRequest(d)
  BY <1>1, MoveFacts DEF Reply, ToLock, IInv, Pc, Call
<1>3. AnswerIsPaid(c)'
  BY <1>1, <1>2 DEF AnswerIsPaid, At, KeepsRequest
<1> QED
  BY <1>1, <1>2, <1>3, OwnCallInv

\* A lost request is not answered.
LEMMA LoseInv ==
    ASSUME IInv, NEW c \in Calls, Lose(c)
    PROVE  IInv'
<1>1. call[c] # Nil /\ call[c] \in Call /\ UNCHANGED <<payments, cache, history>>
  BY DEF Lose, IInv, TypeOK
<1>2. /\ call' \in [Calls -> Call \cup {Nil}]
      /\ call'[c].pc = "lost"
      /\ \A d \in Calls \ {c} : call'[d] = call[d]
      /\ \A d \in Calls : KeepsRequest(d)
  BY <1>1, MoveFacts DEF Lose, IInv, Pc, Call
<1>3. AnswerIsPaid(c)'
  BY <1>2 DEF AnswerIsPaid, At
<1> QED
  BY <1>1, <1>2, <1>3, OwnCallInv

-----------------------------------------------------------------------------

\* The critical section of Charge: whoever is answered with success is paid for.
LEMMA ChargeLockedInv ==
    ASSUME IInv, NEW c \in Calls, ChargeLocked(c)
    PROVE  IInv'
<1> DEFINE o == call[c].req.order
           amount == call[c].req.amount
<1>1. call[c] # Nil /\ call[c].op = "Charge" /\ call[c] \in Call
  BY DEF ChargeLocked, At, IInv, TypeOK
<1>2. call[c].req \in Charges /\ o \in Orders /\ amount \in {q.amount : q \in Charges}
                   /\ amount \in Int
  BY <1>1, ChargesAssumption DEF Call
<1>3. ASSUME NEW ok \in BOOLEAN, Reply(c, ok)
      PROVE  /\ call' \in [Calls -> Call \cup {Nil}]
             /\ call'[c].ok = ok /\ call'[c].req.order = o
             /\ \A d \in Calls \ {c} : call'[d] = call[d]
             /\ \A d \in Calls : KeepsRequest(d)
  <2>1. /\ call' \in [Calls -> Call \cup {Nil}]
        /\ call'[c].ok = ok
        /\ \A d \in Calls \ {c} : call'[d] = call[d]
        /\ \A d \in Calls : KeepsRequest(d)
    BY <1>1, <1>3, MoveFacts DEF Reply, IInv, Pc
  <2> QED
    BY <1>1, <2>1 DEF KeepsRequest
<1>4. CASE /\ AlreadyCharged(o) /\ Reply(c, TRUE)
           /\ UNCHANGED <<payments, cache, history>>
  <2>1. AnswerIsPaid(c)'
    BY <1>3, <1>4 DEF AnswerIsPaid, AlreadyCharged
  <2> QED
    BY <1>3, <1>4, <2>1, OwnCallInv
<1>5. CASE Reply(c, FALSE) /\ UNCHANGED <<payments, cache, history>>
  <2>1. AnswerIsPaid(c)'
    BY <1>3, <1>5 DEF AnswerIsPaid
  <2> QED
    BY <1>3, <1>5, <2>1, OwnCallInv
<1>6. CASE /\ ~AlreadyCharged(o) /\ ~ExceedsLimit(amount)
           /\ payments' = [payments EXCEPT ![o] = amount]
           /\ captures' = [captures EXCEPT ![o] = @ + 1]
           /\ cache' \in Set(cache, GenerateKey("charge", o), "amount")
           /\ Reply(c, TRUE)
           /\ UNCHANGED <<refunds, forgotten>>
  <2>0. /\ call' \in [Calls -> Call \cup {Nil}]
        /\ call'[c].req.order = o
        /\ \A d \in Calls \ {c} : call'[d] = call[d]
        /\ \A d \in Calls : KeepsRequest(d)
    BY <1>3, <1>6
  <2>1. TypeOK'
    BY <1>2, <1>6, <2>0 DEF IInv, TypeOK
  <2>2. MoneyIsAccounted'
    <3>1. payments[o] = Nil /\ payments'[o] # Nil
      BY <1>2, <1>6, ChargesAssumption DEF AlreadyCharged, IInv, TypeOK
    <3> SUFFICES ASSUME NEW x \in Orders
                 PROVE  captures'[x] - refunds'[x] - forgotten'[x] =
                            IF payments'[x] = Nil THEN 0 ELSE 1
      BY DEF MoneyIsAccounted
    <3>2. /\ captures[x] - refunds[x] - forgotten[x] = IF payments[x] = Nil THEN 0 ELSE 1
          /\ captures[x] \in Nat /\ refunds[x] \in Nat /\ forgotten[x] \in Nat
      BY DEF IInv, TypeOK, MoneyIsAccounted
    <3> QED
      BY <1>2, <1>6, <3>1, <3>2 DEF IInv, TypeOK
  <2>3. \A x \in Orders : /\ x = o => payments'[x] = amount /\ payments'[x] # Nil
                          /\ x # o => payments'[x] = payments[x]
    BY <1>2, <1>6, ChargesAssumption DEF IInv, TypeOK
  <2>4. ASSUME NEW x \in Orders PROVE Undisturbed(x)' => Undisturbed(x)
    BY <1>6, <2>0, UndisturbedBefore DEF IInv, TypeOK
  <2>5. ASSUME NEW x \in Orders PROVE PaymentWasAsked(x)'
    <3>1. amount <= Limit
      BY <1>2, <1>6, ChargesAssumption DEF ExceedsLimit
    <3>2. CASE x = o
      BY <1>2, <2>3, <3>1, <3>2 DEF PaymentWasAsked
    <3>3. CASE x # o
      BY <2>3, <3>3 DEF PaymentWasAsked, IInv
    <3> QED
      BY <3>2, <3>3
  <2>6. ASSUME NEW x \in Orders PROVE KeyIsPaid(x)'
    <3>1. CASE x = o
      BY <2>3, <3>1 DEF KeyIsPaid
    <3>2. CASE x # o
      <4>1. Remembered(x)' => Remembered(x)
        BY <1>6, <3>2 DEF Remembered, Set, GetHits, GenerateKey
      <4> QED
        BY <2>3, <2>4, <3>2, <4>1 DEF IInv, KeyIsPaid
    <3> QED
      BY <3>1, <3>2
  <2>7. ASSUME NEW d \in Calls PROVE AnswerIsPaid(d)'
    <3> SUFFICES ASSUME At(d, "Charge", "done")', call'[d].ok,
                        NEW x, x = call'[d].req.order, Undisturbed(x)'
                 PROVE  payments'[x] # Nil
      BY DEF AnswerIsPaid, Undisturbed, RefundSent
    <3>1. x \in Orders
      BY <2>1, ChargesAssumption DEF TypeOK, At, Call
    <3>2. CASE x = o
      BY <2>3, <3>1, <3>2
    <3>3. CASE x # o
      <4>1. d # c /\ call'[d] = call[d]
        BY <2>0, <3>3
      <4> QED
        BY <2>3, <2>4, <3>1, <3>3, <4>1 DEF IInv, AnswerIsPaid, At
    <3> QED
      BY <3>2, <3>3
  <2> QED
    BY <2>1, <2>2, <2>5, <2>6, <2>7 DEF IInv
<1> QED
  BY <1>4, <1>5, <1>6 DEF ChargeLocked

\* The critical section of Refund: the order it touches is disturbed, by this
\* very call.
LEMMA RefundLockedInv ==
    ASSUME IInv, NEW c \in Calls, RefundLocked(c)
    PROVE  IInv'
<1> DEFINE o == call[c].order
<1>1. call[c] # Nil /\ call[c].op = "Refund" /\ call[c] \in Call /\ Reply(c, TRUE)
  BY DEF RefundLocked, At, IInv, TypeOK
<1>2. o \in Orders
  BY <1>1 DEF Call
<1>3. /\ call' \in [Calls -> Call \cup {Nil}]
      /\ \A d \in Calls \ {c} : call'[d] = call[d]
      /\ \A d \in Calls : KeepsRequest(d)
  BY <1>1, MoveFacts DEF Reply, IInv, Pc
<1>4. CASE UNCHANGED <<payments, cache, history>>
  <2>1. AnswerIsPaid(c)'
    BY <1>1, <1>3 DEF AnswerIsPaid, At, KeepsRequest
  <2> QED
    BY <1>3, <1>4, <2>1, OwnCallInv
<1>5. CASE /\ payments[o] # Nil
           /\ payments' = Deleted(o)
           /\ refunds' = [refunds EXCEPT ![o] = @ + 1]
           /\ cache' \in Set(cache, GenerateKey("refund", o), "ok")
           /\ UNCHANGED <<captures, forgotten>>
  <2>1. TypeOK'
    BY <1>2, <1>3, <1>5 DEF IInv, TypeOK, Deleted
  <2>2. MoneyIsAccounted'
    <3> SUFFICES ASSUME NEW x \in Orders
                 PROVE  captures'[x] - refunds'[x] - forgotten'[x] =
                            IF payments'[x] = Nil THEN 0 ELSE 1
      BY DEF MoneyIsAccounted
    <3>1. /\ captures[x] - refunds[x] - forgotten[x] = IF payments[x] = Nil THEN 0 ELSE 1
          /\ captures[x] \in Nat /\ refunds[x] \in Nat /\ forgotten[x] \in Nat
      BY DEF IInv, TypeOK, MoneyIsAccounted
    <3> QED
      BY <1>2, <1>5, <3>1 DEF IInv, TypeOK, Deleted
  <2>3. \A x \in Orders : x # o => payments'[x] = payments[x]
    BY <1>2, <1>5 DEF IInv, TypeOK, Deleted
  <2>4. ASSUME NEW x \in Orders, Undisturbed(x)' PROVE Undisturbed(x) /\ x # o
    <3>1. Undisturbed(x)
      BY <1>3, <1>5, <2>4, UndisturbedBefore DEF IInv, TypeOK
    <3> QED
      BY <1>1, <3>1 DEF Undisturbed, RefundSent
  <2>5. payments'[o] = Nil
    BY <1>2, <1>5 DEF IInv, TypeOK, Deleted
  <2>6. ASSUME NEW x \in Orders PROVE PaymentWasAsked(x)'
    BY <2>3, <2>5 DEF PaymentWasAsked, IInv
  <2>7. ASSUME NEW x \in Orders PROVE KeyIsPaid(x)'
    <3>1. Remembered(x)' => Remembered(x)
      BY <1>5 DEF Remembered, Set, GetHits, GenerateKey
    <3> QED
      BY <2>3, <2>4, <3>1 DEF IInv, KeyIsPaid
  <2>8. ASSUME NEW d \in Calls PROVE AnswerIsPaid(d)'
    <3> SUFFICES ASSUME At(d, "Charge", "done")', call'[d].ok,
                        NEW x, x = call'[d].req.order, Undisturbed(x)'
                 PROVE  payments'[x] # Nil
      BY DEF AnswerIsPaid, Undisturbed, RefundSent
    <3>1. x \in Orders
      BY <2>1, ChargesAssumption DEF TypeOK, At, Call
    <3>2. d # c /\ call'[d] = call[d]
      BY <1>1, <1>3 DEF At, KeepsRequest
    <3> QED
      BY <2>3, <2>4, <3>1, <3>2 DEF IInv, AnswerIsPaid, At
  <2> QED
    BY <2>1, <2>2, <2>6, <2>7, <2>8 DEF IInv
<1> QED
  BY <1>4, <1>5 DEF RefundLocked

\* A restart forgets payments, and counts those it forgets; no answer of before
\* counts as one of the new process.
LEMMA RestartInv ==
    ASSUME IInv, Restart
    PROVE  IInv'
<1>1. ASSUME NEW d \in Calls
      PROVE  /\ call'[d] \in Call \cup {Nil}
             /\ KeepsRequest(d)
             /\ ~At(d, "Charge", "done")'
  <2>1. CASE call[d] = Nil
    BY <2>1 DEF Restart, KeepsRequest, At
  <2>2. CASE call[d] # Nil
    <3>1. call[d] \in Call /\ call'[d] = [call[d] EXCEPT !.pc = AfterRestart(@)]
      BY <2>2 DEF IInv, TypeOK, Restart
    <3>2. AfterRestart(call[d].pc) \in Pc \ {"done"}
      BY <3>1 DEF AfterRestart, Call, Pc
    <3>3. call'[d] \in Call /\ call'[d].pc # "done"
      BY <3>1, <3>2 DEF Call
    <3>4. KeepsRequest(d)
      BY <3>1, <3>3, UnusedAssumption DEF KeepsRequest, Call
    <3> QED
      BY <3>3, <3>4 DEF At
  <2> QED
    BY <2>1, <2>2
<1>2. \A o \in Orders :
         /\ payments'[o] = Nil
         /\ forgotten'[o] = IF payments[o] = Nil THEN forgotten[o] ELSE forgotten[o] + 1
  BY DEF Restart
<1>3. TypeOK'
  <2>1. call' \in [Calls -> Call \cup {Nil}]
    BY <1>1 DEF Restart
  <2>2. /\ payments' \in [Orders -> {q.amount : q \in Charges} \cup {Nil}]
        /\ forgotten' \in [Orders -> Nat]
        /\ UNCHANGED <<captures, refunds>>
    BY DEF Restart, IInv, TypeOK
  <2> QED
    BY <2>1, <2>2 DEF IInv, TypeOK
<1>4. MoneyIsAccounted'
  <2> SUFFICES ASSUME NEW x \in Orders
               PROVE  captures'[x] - refunds'[x] - forgotten'[x] =
                          IF payments'[x] = Nil THEN 0 ELSE 1
    BY DEF MoneyIsAccounted
  <2>1. /\ captures[x] - refunds[x] - forgotten[x] = IF payments[x] = Nil THEN 0 ELSE 1
        /\ captures[x] \in Nat /\ refunds[x] \in Nat /\ forgotten[x] \in Nat
        /\ captures'[x] = captures[x] /\ refunds'[x] = refunds[x]
    BY DEF IInv, TypeOK, MoneyIsAccounted, Restart
  <2> QED
    BY <1>2, <2>1
<1>5. ASSUME NEW o \in Orders PROVE (PaymentWasAsked(o) /\ KeyIsPaid(o))'
  <2>1. ASSUME Undisturbed(o)' PROVE Undisturbed(o) /\ payments[o] = Nil
    <3>1. forgotten[o] \in Nat /\ forgotten'[o] >= forgotten[o] /\ forgotten'[o] \in Nat
      BY <1>2 DEF IInv, TypeOK
    <3>2. Undisturbed(o)
      BY <1>1, <2>1, <3>1, UndisturbedBefore DEF IInv
    <3> QED
      BY <1>2, <2>1, <3>1, <3>2 DEF Undisturbed
  <2>2. Remembered(o)' => Remembered(o)
    BY DEF Restart, Remembered
  <2> QED
    BY <1>2, <2>1, <2>2 DEF PaymentWasAsked, KeyIsPaid, IInv
<1>6. \A d \in Calls : AnswerIsPaid(d)'
  BY <1>1 DEF AnswerIsPaid
<1> QED
  BY <1>3, <1>4, <1>5, <1>6 DEF IInv

\* Every step of the service keeps the invariant.
LEMMA NextInv == IInv /\ [Next]_vars => IInv'
<1> SUFFICES ASSUME IInv, [Next]_vars PROVE IInv'
  OBVIOUS
<1>1. CASE Restart
  BY <1>1, RestartInv
<1>2. ASSUME NEW c \in Calls, Client(c) PROVE IInv'
  BY <1>2, ArriveInv
<1>3. ASSUME NEW c \in Calls, Handle(c) PROVE IInv'
  BY <1>3, ChargeGetInv, ChargeLockedInv, RefundGetInv, RefundLockedInv DEF Handle
<1>4. ASSUME NEW c \in Calls, Lose(c) PROVE IInv'
  BY <1>4, LoseInv
<1>5. CASE UNCHANGED vars
  BY <1>5 DEF vars, IInv, TypeOK, MoneyIsAccounted, PaymentWasAsked, KeyIsPaid,
              Remembered, Undisturbed, RefundSent, AnswerIsPaid, At
<1> QED
  BY <1>1, <1>2, <1>3, <1>4, <1>5 DEF Next

-----------------------------------------------------------------------------
(* Calls and payments as the caller sees them.                                *)

Answered(d) == call[d] # Nil /\ call[d].pc \in {"done", "old"}

\* What the server does to the call d: it answers it at most once.
OnlyMoves(d) ==
    /\ call[d] = Nil => call'[d] = Nil
    /\ KeepsRequest(d)
    /\ call[d] # Nil /\ call[d].pc = "old" => call'[d].pc = "old"
    /\ Answered(d) => Answered(d)' /\ call'[d].ok = call[d].ok

\* Every step of the server is of this kind.
LEMMA ServerMoves ==
    ASSUME TypeOK, Restart \/ \E c \in Calls : Handle(c) \/ Lose(c), NEW d \in Calls
    PROVE  OnlyMoves(d)
<1>1. ASSUME NEW c \in Calls, Handle(c) \/ Lose(c) PROVE OnlyMoves(d)
  <2>1. PICK p \in Pc, ok \in BOOLEAN :
            /\ call[c] # Nil /\ call[c].pc \in {"get", "lock"}
            /\ \/ call' = [call EXCEPT ![c].pc = p, ![c].ok = ok]
               \/ call' = [call EXCEPT ![c].pc = p] /\ ok = call[c].ok
    <3>1. call[c] # Nil => call[c].ok \in BOOLEAN
      BY DEF TypeOK, Call
    <3>2. \/ \E p \in Pc, ok \in BOOLEAN : call' = [call EXCEPT ![c].pc = p, ![c].ok = ok]
          \/ \E p \in Pc : call' = [call EXCEPT ![c].pc = p]
      BY <1>1 DEF Handle, Lose, ChargeGet, ChargeLocked, RefundGet, RefundLocked,
                  Reply, ToLock, Pc
    <3>3. call[c] # Nil /\ call[c].pc \in {"get", "lock"}
      BY <1>1 DEF Handle, Lose, ChargeGet, ChargeLocked, RefundGet, RefundLocked, At
    <3> QED
      BY <3>1, <3>2, <3>3
  <2>2. /\ \A e \in Calls \ {c} : call'[e] = call[e]
        /\ \A e \in Calls : KeepsRequest(e)
    BY <2>1, MoveFacts
  <2>3. CASE d = c
    BY <2>1, <2>2, <2>3 DEF OnlyMoves, Answered
  <2>4. CASE d # c
    BY <2>2, <2>4 DEF OnlyMoves, Answered
  <2> QED
    BY <2>3, <2>4
<1>2. CASE Restart
  <2>1. CASE call[d] = Nil
    BY <1>2, <2>1 DEF Restart, OnlyMoves, KeepsRequest, Answered
  <2>2. CASE call[d] # Nil
    <3>1. call[d] \in Call /\ call'[d] = [call[d] EXCEPT !.pc = AfterRestart(@)]
      BY <1>2, <2>2 DEF TypeOK, Restart
    <3>2. /\ AfterRestart(call[d].pc) \in Pc \ {"get", "lock", "done"}
          /\ call[d].pc \in {"done", "old"} => AfterRestart(call[d].pc) = "old"
      BY <3>1 DEF AfterRestart, Call, Pc
    <3>3. /\ call'[d] \in Call /\ call'[d].pc = AfterRestart(call[d].pc)
          /\ call'[d].ok = call[d].ok
      BY <3>1, <3>2 DEF Call
    <3>4. KeepsRequest(d)
      BY <3>1, <3>2, <3>3, UnusedAssumption DEF KeepsRequest, Call
    <3> QED
      BY <2>2, <3>2, <3>3, <3>4 DEF OnlyMoves, Answered, KeepsRequest
  <2> QED
    BY <2>1, <2>2
<1> QED
  BY <1>1, <1>2

\* Only a restart makes an answer an old one.
LEMMA NotOld ==
    ASSUME TypeOK, NEW c \in Calls, Handle(c) \/ Lose(c)
    PROVE  call'[c].pc # "old"
<1>1. call[c] \in Call
  BY DEF TypeOK, Handle, Lose, ChargeGet, ChargeLocked, RefundGet, RefundLocked, At
<1> QED
  BY <1>1 DEF TypeOK, Call, Handle, Lose, ChargeGet, ChargeLocked, RefundGet, RefundLocked,
              Reply, ToLock

\* It leaves the calls it is not about alone.
LEMMA OtherCalls ==
    ASSUME TypeOK, NEW c \in Calls, NEW d \in Calls \ {c},
           Handle(c) \/ Lose(c) \/ Client(c)
    PROVE  call'[d] = call[d]
  BY DEF TypeOK, Handle, Lose, Client, ChargeGet, ChargeLocked, RefundGet, RefundLocked,
         Charge, Refund, Reply, ToLock

\* A payment was made by a call that was answered with success, and the key of
\* a refund was put into Redis by one that was answered.
MadeByAnswer(o) ==
    payments[o] # Nil =>
        \E c \in Calls : At(c, "Charge", "done") /\ call[c].ok /\ call[c].req.order = o

Refunded(o) == \E c \in Calls : Answered(c) /\ call[c].op = "Refund" /\ call[c].order = o

RefundKey(o) == \E x \in cache : x[1] = GenerateKey("refund", o)

CallerInv == \A o \in Orders : MadeByAnswer(o) /\ (RefundKey(o) => Refunded(o))

\* What a handler does to the payment of order o and to the key of its refund.
LEMMA HandlerEffect ==
    ASSUME TypeOK, NEW c \in Calls, Handle(c) \/ Lose(c), NEW o \in Orders
    PROVE  /\ payments'[o] # Nil =>
                 \/ payments[o] # Nil
                 \/ /\ At(c, "Charge", "lock") /\ call[c].req.order = o
                    /\ At(c, "Charge", "done")' /\ call'[c].ok
           /\ RefundKey(o)' =>
                 \/ RefundKey(o)
                 \/ At(c, "Refund", "done")' /\ call'[c].order = o
           /\ Answered(c)' /\ call'[c].op = "Refund" /\ call'[c].order = o =>
                 payments'[o] = Nil \/ (RefundKey(o) /\ payments'[o] = payments[o])
<1> USE DEF GenerateKey
<1>1. call[c] \in Call /\ OnlyMoves(c)
  <2>1. call[c] # Nil
    BY DEF Handle, Lose, ChargeGet, ChargeLocked, RefundGet, RefundLocked, At
  <2> QED
    BY <2>1, ServerMoves DEF TypeOK
<1>2. CASE Lose(c) \/ ChargeGet(c) \/ RefundGet(c)
  <2>1. UNCHANGED <<payments, cache>>
    BY <1>2 DEF Lose, ChargeGet, RefundGet
  <2>2. (RefundKey(o)' <=> RefundKey(o)) /\ payments'[o] = payments[o]
    BY <2>1 DEF RefundKey
  <2>3. Answered(c)' /\ call'[c].op = "Refund" /\ call'[c].order = o => RefundKey(o)
    <3> SUFFICES ASSUME Answered(c)', call'[c].op = "Refund", call'[c].order = o
                 PROVE  RefundKey(o)
      OBVIOUS
    <3>1. call[c].op = "Refund" /\ call[c].order = o
      BY <1>1, UnusedAssumption DEF OnlyMoves, KeepsRequest, Call
    <3>2. ~ChargeGet(c)
      BY <3>1 DEF ChargeGet, At
    <3>3. call'[c].pc \notin {"lost", "lock"}
      BY DEF Answered
    <3>4. ~Lose(c)
      BY <1>1, <3>3 DEF Lose, TypeOK, Call
    <3>5. RefundGet(c) /\ ~ToLock(c)
      BY <1>1, <1>2, <3>2, <3>3, <3>4 DEF ToLock, TypeOK, Call
    <3> QED
      BY <3>1, <3>5 DEF RefundGet, GetHits, RefundKey
  <2> QED
    BY <2>2, <2>3
<1>3. CASE ChargeLocked(c)
  <2>1. At(c, "Charge", "lock") /\ call[c].op = "Charge"
    BY <1>3 DEF ChargeLocked, At
  <2>2. call'[c] # Nil /\ call'[c].op = "Charge" /\ call'[c].req = call[c].req
    BY <1>1, <2>1, UnusedAssumption DEF OnlyMoves, KeepsRequest
  <2>3. RefundKey(o)' => RefundKey(o)
    <3>1. cache' = cache \/ cache' \in Set(cache, <<"charge", call[c].req.order>>, "amount")
      BY <1>3 DEF ChargeLocked
    <3>2. ASSUME NEW x \in cache', x[1] = <<"refund", o>> PROVE x \in cache
      <4>1. <<"charge", call[c].req.order>> # <<"refund", o>>
        OBVIOUS
      <4> QED
        BY <3>1, <3>2, <4>1 DEF Set, GetHits
    <3> QED
      BY <3>2 DEF RefundKey
  <2>4. CASE UNCHANGED payments
    BY <2>2, <2>3, <2>4
  <2>5. CASE /\ payments' = [payments EXCEPT ![call[c].req.order] = call[c].req.amount]
             /\ Reply(c, TRUE)
    <3>1. payments'[o] # Nil => payments[o] # Nil \/ call[c].req.order = o
      BY <2>5 DEF TypeOK
    <3>2. call'[c].pc = "done" /\ call'[c].ok
      BY <1>1, <2>5 DEF Reply, TypeOK, Call
    <3> QED
      BY <2>1, <2>2, <2>3, <3>1, <3>2 DEF At
  <2> QED
    BY <1>3, <2>4, <2>5 DEF ChargeLocked
<1>4. CASE RefundLocked(c)
  <2>1. At(c, "Refund", "lock") /\ call[c].op = "Refund" /\ Reply(c, TRUE)
    BY <1>4 DEF RefundLocked, At
  <2>2. call'[c] # Nil /\ call'[c].op = "Refund" /\ call'[c].order = call[c].order
    BY <1>1, <2>1, UnusedAssumption DEF OnlyMoves, KeepsRequest
  <2>3. call'[c].pc = "done"
    BY <1>1, <2>1 DEF Reply, TypeOK, Call
  <2>4. RefundKey(o)' => RefundKey(o) \/ call[c].order = o
    BY <1>4 DEF RefundLocked, RefundKey, Set
  <2>5. /\ payments'[o] # Nil => payments[o] # Nil
        /\ call[c].order = o => payments'[o] = Nil
    BY <1>4 DEF RefundLocked, Deleted, TypeOK
  <2> QED
    BY <2>2, <2>3, <2>4, <2>5 DEF At
<1> QED
  BY <1>2, <1>3, <1>4 DEF Handle

\* The invariant of the caller holds of the service in any state it can be in.
LEMMA CallerNext == IInv /\ CallerInv /\ [Next]_vars => CallerInv'
<1> SUFFICES ASSUME IInv, CallerInv, [Next]_vars PROVE CallerInv'
  OBVIOUS
<1> SUFFICES ASSUME NEW o \in Orders
             PROVE  MadeByAnswer(o)' /\ (RefundKey(o)' => Refunded(o)')
  BY DEF CallerInv
<1>1. MadeByAnswer(o) /\ (RefundKey(o) => Refunded(o)) /\ TypeOK
  BY DEF CallerInv, IInv
<1>2. ASSUME \A d \in Calls : OnlyMoves(d)
      PROVE  Refunded(o) => Refunded(o)'
  BY <1>2 DEF Refunded, OnlyMoves, Answered, KeepsRequest
<1>3. ASSUME NEW c \in Calls, Handle(c) \/ Lose(c)
      PROVE  MadeByAnswer(o)' /\ (RefundKey(o)' => Refunded(o)')
  <2>1. \A d \in Calls : OnlyMoves(d)
    BY <1>1, <1>3, ServerMoves
  <2>2. RefundKey(o)' => Refunded(o)'
    BY <1>1, <1>2, <1>3, <2>1, HandlerEffect DEF Refunded, Answered, At
  <2>3. ASSUME NEW d \in Calls, At(d, "Charge", "done"), call[d].ok
        PROVE  At(d, "Charge", "done")' /\ call'[d].ok /\ call'[d].req = call[d].req
    <3>1. c # d => call'[d] = call[d]
      BY <1>1, <1>3, OtherCalls
    <3>2. c # d
      BY <1>3, <2>3 DEF Handle, Lose, ChargeGet, ChargeLocked, RefundGet, RefundLocked, At
    <3> QED
      BY <2>3, <3>1, <3>2 DEF At
  <2>4. CASE payments[o] # Nil
    BY <1>1, <2>2, <2>3, <2>4 DEF MadeByAnswer
  <2>5. CASE payments[o] = Nil
    <3>1. payments'[o] # Nil =>
             /\ At(c, "Charge", "lock") /\ call[c].req.order = o
             /\ At(c, "Charge", "done")' /\ call'[c].ok
      BY <1>1, <1>3, <2>5, HandlerEffect
    <3>2. At(c, "Charge", "lock") => call'[c].req = call[c].req
      BY <2>1 DEF OnlyMoves, KeepsRequest, At
    <3> QED
      BY <2>2, <3>1, <3>2 DEF MadeByAnswer
  <2> QED
    BY <2>2, <2>4, <2>5
<1>4. CASE Restart
  <2>1. \A d \in Calls : OnlyMoves(d)
    BY <1>1, <1>4, ServerMoves
  <2>2. payments'[o] = Nil /\ cache' = cache
    BY <1>4 DEF Restart
  <2> QED
    BY <1>1, <1>2, <2>1, <2>2 DEF MadeByAnswer, RefundKey
<1>5. ASSUME NEW c \in Calls, Client(c)
      PROVE  MadeByAnswer(o)' /\ (RefundKey(o)' => Refunded(o)')
  <2>1. /\ UNCHANGED <<payments, cache>> /\ call[c] = Nil
        /\ \A d \in Calls \ {c} : call'[d] = call[d]
    BY <1>1, <1>5, OtherCalls DEF Client, Charge, Refund
  <2>2. \A d \in Calls : call[d] # Nil => call'[d] = call[d]
    BY <2>1
  <2> QED
    BY <1>1, <2>1, <2>2 DEF MadeByAnswer, RefundKey, Refunded, Answered, At
<1>6. CASE UNCHANGED vars
  BY <1>1, <1>6 DEF vars, MadeByAnswer, RefundKey, Refunded, Answered, At
<1> QED
  BY <1>3, <1>4, <1>5, <1>6 DEF Next

\* Once a refund of order o was answered nothing is charged for o, unless a Charge
\* of it was still under way.
LEMMA StaysRefunded ==
    ASSUME IInv, CallerInv, [Next]_vars, NEW o \in Orders,
           Refunded(o) => payments[o] = Nil,
           Refunded(o)' => \A c \in Calls : ~((At(c, "Charge", "get") \/ At(c, "Charge", "lock"))
                                              /\ call[c].req.order = o)
    PROVE  Refunded(o)' => payments'[o] = Nil
<1> SUFFICES ASSUME Refunded(o)' PROVE payments'[o] = Nil
  OBVIOUS
<1>1. TypeOK /\ (RefundKey(o) => Refunded(o))
  BY DEF IInv, CallerInv
<1>2. ASSUME NEW c \in Calls, Handle(c) \/ Lose(c) PROVE payments'[o] = Nil
  <2>1. \A d \in Calls : OnlyMoves(d)
    BY <1>1, <1>2, ServerMoves
  <2>2. payments[o] = Nil => payments'[o] = Nil
    BY <1>1, <1>2, HandlerEffect
  <2>3. CASE Refunded(o)
    BY <2>2, <2>3
  <2>4. CASE ~Refunded(o)
    <3>1. PICK d \in Calls : Answered(d)' /\ call'[d].op = "Refund" /\ call'[d].order = o
      BY DEF Refunded
    <3>2. d = c
      <4>1. d # c => call'[d] = call[d]
        BY <1>1, <1>2, OtherCalls
      <4> QED
        BY <2>4, <3>1, <4>1 DEF Refunded, Answered
    <3> QED
      BY <1>1, <1>2, <2>4, <3>1, <3>2, HandlerEffect
  <2> QED
    BY <2>3, <2>4
<1>3. CASE Restart
  BY <1>3 DEF Restart
<1>4. ASSUME NEW c \in Calls, Client(c) PROVE payments'[o] = Nil
  <2>1. PICK d \in Calls : Answered(d)' /\ call'[d].op = "Refund" /\ call'[d].order = o
    BY DEF Refunded
  <2>2. /\ UNCHANGED payments /\ call[c] = Nil
        /\ \A e \in Calls \ {c} : call'[e] = call[e]
    BY <1>1, <1>4, OtherCalls DEF Client, Charge, Refund
  <2>3. call'[c].pc = "get"
    BY <1>1, <1>4 DEF Client, Charge, Refund, TypeOK
  <2>4. Refunded(o)
    BY <2>1, <2>2, <2>3 DEF Refunded, Answered
  <2> QED
    BY <2>2, <2>4
<1>5. CASE UNCHANGED vars
  BY <1>5 DEF vars, Refunded, Answered
<1> QED
  BY <1>2, <1>3, <1>4, <1>5 DEF Next

-----------------------------------------------------------------------------

\* The strengthened invariant holds of every behaviour of the service.
THEOREM Inductive == Spec => []IInv
  BY InitInv, NextInv, PTL DEF Spec

\* The map, the handlers and the history have their types.
THEOREM TypeCorrect == Spec => []TypeOK
<1>1. IInv => TypeOK
  BY DEF IInv
<1> QED
  BY Inductive, <1>1, PTL

\* Money is taken at most once between two refunds, and given back only after it
\* was taken, whatever calls repeat, race or are answered from Redis: Charge and
\* Refund look and write under one lock.
THEOREM Accounted == Spec => []MoneyIsAccounted
<1>1. IInv => MoneyIsAccounted
  BY DEF IInv
<1> QED
  BY Inductive, <1>1, PTL

\* A Charge that was answered with success, by Redis too, is on record with the
\* amount asked for and within the limit, until a refund is asked for or the
\* payment is lost in a restart.
THEOREM Paid == Spec => []SuccessIsPaid
<1>1. ASSUME IInv PROVE SuccessIsPaid
  <2> SUFFICES ASSUME NEW c \in Calls, At(c, "Charge", "done"), call[c].ok,
                      ~RefundSent(call[c].req.order), forgotten[call[c].req.order] = 0
               PROVE  /\ payments[call[c].req.order] = call[c].req.amount
                      /\ call[c].req.amount <= Limit
    BY DEF SuccessIsPaid
  <2>1. call[c].req \in Charges /\ call[c].req.order \in Orders
    BY <1>1, ChargesAssumption DEF IInv, TypeOK, At, Call
  <2>2. payments[call[c].req.order] # Nil
    BY <1>1 DEF IInv, AnswerIsPaid, Undisturbed
  <2>3. PICK q \in Charges : /\ q.order = call[c].req.order
                             /\ payments[call[c].req.order] = q.amount /\ q.amount <= Limit
    BY <1>1, <2>1, <2>2 DEF IInv, PaymentWasAsked
  <2>4. q = call[c].req
    BY <2>1, <2>3, ChargesAssumption
  <2> QED
    BY <2>3, <2>4
<1> QED
  BY Inductive, <1>1, PTL

=============================================================================
