------------------------------- MODULE GoInt -------------------------------
(***************************************************************************)
(* Go's int32.  Quantities travel in it, and the inventory service counts  *)
(* its stock in it, while the gateway reads an int from the body.  Both a  *)
(* conversion and an addition keep the low 32 bits of the exact result.    *)
(***************************************************************************)
EXTENDS Integers

CONSTANT Half       \* 2^31: an int32 lies between -Half and Half - 1

ASSUME HalfAssumption == Half \in Nat \ {0}

\* Mutant: a narrower type.
Int16(n) == ((n + Half \div 2) % Half) - Half \div 2

\* int32(n), and what an int32 holds after an operation with exact result n.
Int32(n) == ((n + Half) % (2 * Half)) - Half

=============================================================================
