------------------------------ MODULE MCSagaLog ------------------------------
(* Instance of SagaLog: two executions of one saga and one of another, over  *)
(* the four instants of a second and the first two of the next.              *)
EXTENDS SagaLog, TLC
CONSTANTS w1, w2, w3, s1, s2

MCSagaOf == (w1 :> s1) @@ (w2 :> s1) @@ (w3 :> s2)

\* The executions of one saga are interchangeable.
WriterSymmetry == Permutations({w1, w2})
=============================================================================
