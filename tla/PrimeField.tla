------------------------------ MODULE PrimeField ------------------------------
(***************************************************************************)
(* The coordinates, weights and values of the library are Reals.  What the *)
(* modules on splines say of them are identities between rational          *)
(* functions with small integer coefficients; such an identity is checked  *)
(* in the field of the integers modulo a prime, where it is exact and a    *)
(* sample point that satisfies a false one is rare.  Order comparisons     *)
(* (find_span, sorting) are not made here but on integer knots.            *)
(***************************************************************************)
EXTENDS Integers

CONSTANT Prime

ASSUME PrimeAssumption ==
  /\ Prime \in Nat
  /\ Prime > 2 /\ Prime < 46341          \* products stay in TLC's integers
  /\ \A d \in 2 .. Prime - 1 : Prime % d # 0

x ++ y == (x + y) % Prime
x -- y == (x - y) % Prime
x ** y == (x * y) % Prime

\* The inverse of i # 0, from that of the smaller Prime % i.
Inverted[i \in 1 .. Prime - 1] ==
  IF i = 1 THEN 1 ELSE ((Prime - Prime \div i) * Inverted[Prime % i]) % Prime

Reciprocal(x) == Inverted[x % Prime]

x // y == x ** Reciprocal(y)

\* F(0) + ... + F(n - 1), and the product.
SumTo(n, F(_)) == LET s[i \in 0 .. n] == IF i = 0 THEN 0 ELSE s[i - 1] ++ F(i - 1) IN s[n]
ProductTo(n, F(_)) == LET s[i \in 0 .. n] == IF i = 0 THEN 1 ELSE s[i - 1] ** F(i - 1) IN s[n]
Power(x, n) == ProductTo(n, LAMBDA i : x)
=============================================================================
