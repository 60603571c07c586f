----------------------------- MODULE MCJoinDiff -----------------------------
(* Small instances of JoinDiff: three keys, two values, every pair of       *)
(* tables and some with a duplicated key.                                   *)
EXTENDS JoinDiff

CONSTANTS a, b         \* two values of the non-key columns

ThreeKeys == 1..3
NoKeys == {}
LastKey == {3}
AB == {a, b}

AtMost(n) == { S \in SUBSET Val : Cardinality(S) <= n }

(* The source's server has no table of the target's name ... *)
Nothing == {Absent}

(* ... or one of its own. *)
Another == {[k \in Key |-> {a}]}

UniquePairs == [Key -> AtMost(1)] \X [Key -> AtMost(1)]

Pairs ==
  UniquePairs \cup
  { p \in [Key -> {{a}, {a, b}}] \X [Key -> {{a}, {a, b}}] :
      \A i \in 1..2 : \A k \in Key \ {1} : p[i][k] = {a} }
===============================================================================
