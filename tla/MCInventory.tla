----------------------------- MODULE MCInventory -----------------------------
(* Instance of InventoryService: orders with keys, two of them with the same, *)
(* one without and one for an unknown product, which compete for two         *)
(* products that are not enough for all of them.                             *)
EXTENDS InventoryService, TLC
CONSTANTS o1, o2, o3, o4, o5, k1, k2, p1, p2, p3, c1, c2, c3, c4

Line(p, n) == [product |-> p, qty |-> n]

MCRequests == {[order |-> o1, key |-> k1,    items |-> <<Line(p1, 1), Line(p2, 1)>>],
               [order |-> o2, key |-> k2,    items |-> <<Line(p1, 2)>>],
               [order |-> o3, key |-> NoKey, items |-> <<Line(p1, 1)>>],
               [order |-> o4, key |-> k1,    items |-> <<Line(p1, 1)>>],
               [order |-> o5, key |-> NoKey, items |-> <<Line(p2, 1), Line(p3, 1)>>]}

\* One order that names a product on two lines.
TwoLineRequests == {[order |-> o1, key |-> k1, items |-> <<Line(p1, 2), Line(p1, 1)>>]}

MCStock == (p1 :> 2) @@ (p2 :> 1)

\* Calls are interchangeable.
CallSymmetry == Permutations(Calls)
=============================================================================
