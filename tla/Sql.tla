--------------------------------- MODULE Sql ---------------------------------
(***************************************************************************)
(* What the modules about generated SQL share: NULL, and the arithmetic of  *)
(* Python and of the three engines.                                         *)
(***************************************************************************)
EXTENDS Integers

CONSTANT None      \* Python's None, SQL's NULL

ASSUME NoneAssumption == None \notin Int

Lesser(a, b) == IF a <= b THEN a ELSE b
Greater(a, b) == IF a >= b THEN a ELSE b

(* The k-th power. *)
Pow(base, k) == LET power[i \in 0..k] == IF i = 0 THEN 1 ELSE base * power[i - 1] IN power[k]

(* SQL's % has the sign of its left operand, on all three engines. *)
SqlMod(n, m) == IF n >= 0 THEN n % m ELSE -((-n) % m)

(* num / den to the nearest integer, ties to the even one: Python's round() *)
(* and ROUND(..., 'HALF_TO_EVEN').                                          *)
Round(num, den) ==
  LET q == num \div den
      r == num % den
  IN  IF \/ 2 * r < den
         \/ 2 * r = den /\ q % 2 = 0
      THEN q ELSE q + 1

(* The same with ties away from zero: the engines' own round(). *)
HalfAway(num, den) ==
  IF num >= 0 THEN (2 * num + den) \div (2 * den) ELSE -((den - 2 * num) \div (2 * den))
===============================================================================
