--------------------------------- MODULE Int64 ---------------------------------
(* Go's int64: products wrap around, quotients are cut off towards zero. *)
EXTENDS Integers

CONSTANT Half       \* 2^63

ASSUME HalfAssumption == Half \in Nat \ {0}

Wrap(n) == ((n + Half) % (2 * Half)) - Half

Quot(a, b) == IF a >= 0 THEN a \div b ELSE -((-a) \div b)
===============================================================================
