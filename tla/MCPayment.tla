------------------------------ MODULE MCPayment ------------------------------
(* Instance of PaymentService: one order at the limit and one above it, and  *)
(* four calls, so that a charge can be repeated, refunded, and repeated      *)
(* again while Redis forgets any of it.                                      *)
EXTENDS PaymentService, TLC
CONSTANTS o1, o2, c1, c2, c3, c4

MCCharges == {[order |-> o1, amount |-> 2], [order |-> o2, amount |-> 3]}

\* Calls are interchangeable.
CallSymmetry == Permutations(Calls)
=============================================================================
