-------------------------------- MODULE Floats --------------------------------
(***************************************************************************)
(* Python's float, as far as the code computes key ranges and shares with   *)
(* it: a binary number with FloatBits significant bits.  A float is the     *)
(* integer number of units of 2^-FloatFraction it consists of, the least     *)
(* positive float being one unit; below FloatLimit units all are floats,     *)
(* beyond it only the multiples of a growing power of two.  An operation     *)
(* gives the float nearest to its exact result.  Overflow, at 2^1024, is     *)
(* left out.                                                                *)
(***************************************************************************)
EXTENDS Sql

CONSTANTS FloatBits,        \* 53
          FloatFraction     \* 1074

ASSUME FloatAssumption == FloatBits \in Nat \ {0} /\ FloatFraction \in Nat

FloatLimit == Pow(2, FloatBits)

(* The float 1. *)
FloatOne == Pow(2, FloatFraction)

(* The distance of the floats around num / den, a number of units: the least *)
(* that FloatBits bits suffice for.                                         *)
Spacing(num, den) ==
  LET fits(k) == num < FloatLimit * Pow(2, k) * den
  IN  Pow(2, CHOOSE k \in 0..num : fits(k) /\ (k = 0 \/ ~fits(k - 1)))

(* The float nearest to num / den units: of two the one with the even       *)
(* significand.                                                             *)
Nearest(num, den) ==
  LET nearest[x \in Nat] == Spacing(x, den) * Round(x, den * Spacing(x, den))
  IN  IF num >= 0 THEN nearest[num] ELSE -nearest[-num]
===============================================================================
