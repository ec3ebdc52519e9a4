------------------------------ MODULE MCGateway ------------------------------
(* Instances of ApiGateway.                                                  *)
EXTENDS ApiGateway, TLC
CONSTANTS r1, r2, r3, r4, r5, r6, k1, k2, p1

Post(key, n, price) ==
    [key |-> key, items |-> <<[product |-> p1, qty |-> n, price |-> price]>>]

\* r1 and r2 want the last unit, and the payment for r2 is declined; r3 is r1 sent
\* again with another price; r4 is on its own; r5 is not valid; r6 asks for one more
\* than an int32 holds (Half is 2), which arrives as -2 and overflows the stock.
MCBody == (r1 :> Post(k1, 1, 1)) @@ (r2 :> Post(NoKey, 1, 3)) @@ (r3 :> Post(k1, 1, 2))
          @@ (r4 :> Post(k2, 1, 1)) @@ (r5 :> Post(k2, 0, 1)) @@ (r6 :> Post(NoKey, 2, 1))

Batch(posts, faults) == [posts |-> posts, faults |-> faults]

MCBatches == {Batch({r1, r2}, 1), Batch({r1, r3}, 1), Batch({r4}, 2), Batch({r5}, 0),
              Batch({r6}, 1), Batch({r1, r6}, 0)}

RetryBatch == {Batch({r1, r3}, 1)}

OneUnit == (p1 :> 1)
=============================================================================
