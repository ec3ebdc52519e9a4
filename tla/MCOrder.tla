------------------------------- MODULE MCOrder -------------------------------
(* Instance of OrderService: three CreateOrder calls that share one key, with *)
(* different bodies, or have none, and two status updates.                   *)
EXTENDS OrderService, TLC
CONSTANTS k1, o1, o2, o3, u1, u2

Line(n, price) == [product |-> "prod_1", qty |-> n, price |-> price]

MCRequests == {[key |-> k1,    items |-> <<Line(1, 3), Line(2, 1)>>],
               [key |-> k1,    items |-> <<Line(1, 2)>>],
               [key |-> NoKey, items |-> <<Line(1, 2)>>]}

\* Neither order ids nor updates are told apart.
IdSymmetry == Permutations(Orders) \cup Permutations(Updates)
=============================================================================
