----------------------------- MODULE MCHashDiff -----------------------------
(***************************************************************************)
(* Small instances of HashDiff.  Keys 1 and 2 share their leading column,   *)
(* as rows of a composite key may, and the leading values have gaps.        *)
(***************************************************************************)
EXTENDS HashDiff, TLC

CONSTANTS a, b         \* two values of the non-key columns

FourKeys == 1..4
FourLeads == << 1, 1, 2, 5 >>

UniqueLeads == << 1, 2, 3, 6 >>

ThreeKeys == 1..3
ThreeLeads == << 1, 2, 4 >>

NullLeads == << 1, 2, None >>

AB == {a, b}

AtMost(n) == { S \in SUBSET Val : Cardinality(S) <= n }

(* Every pair of tables with unique keys, and every source with duplicates  *)
(* of key 1 on either side.                                                 *)
StaticPairs ==
  ([Key -> AtMost(1)] \X [Key -> AtMost(1)]) \cup
  { p \in [Key -> {{a}, {a, b}}] \X [Key -> {{a}, {a, b}}] :
      \A i \in 1..2 : \A k \in Key \ {1} : p[i][k] = {a} }

(* A source with every row, and any target. *)
LivePairs == { [k \in Key |-> {a}] } \X [Key -> AtMost(1)]

AllPairs == [Key -> AtMost(1)] \X [Key -> AtMost(1)]
===============================================================================
