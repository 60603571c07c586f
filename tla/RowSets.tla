------------------------------- MODULE RowSets -------------------------------
(***************************************************************************)
(* Tables as the diff sees them, and the classification of rows.            *)
(*                                                                          *)
(* A row is a pair << key, value >>: the whole key tuple, and the list of   *)
(* normalised value columns.  A table gives the set of values stored under  *)
(* each key: empty when there is no such row, more than one when the key is *)
(* not unique.  Two rows equal in every column are one row here.            *)
(***************************************************************************)
EXTENDS Integers, FiniteSets

CONSTANTS Key, Val

Table == [Key -> SUBSET Val]

Row == Key \X Val

Rows(table) == { r \in Row : r[2] \in table[r[1]] }

KeysOf(rows) == { r[1] : r \in rows }

(* What _duplicate_check_sql looks for. *)
KeyUnique(table) == \A k \in Key : Cardinality(table[k]) <= 1

(* The three kinds of RowDiff, over rows fetched from either side with at   *)
(* most one row per key.                                                    *)
Missing(s, t) == KeysOf(s) \ KeysOf(t)
Extra(s, t)   == KeysOf(t) \ KeysOf(s)
Changed(s, t) == { k \in KeysOf(s) \cap KeysOf(t) :
                     \E v, w \in Val : /\ << k, v >> \in s
                                       /\ << k, w >> \in t
                                       /\ v # w }

Kind == {"missing", "extra", "changed"}

RowDiff == [key : Key, kind : Kind]

RowDiffs(s, t) ==
  { [key |-> k, kind |-> "missing"] : k \in Missing(s, t) } \cup
  { [key |-> k, kind |-> "extra"]   : k \in Extra(s, t) } \cup
  { [key |-> k, kind |-> "changed"] : k \in Changed(s, t) }

(* The first n of a set of differences, in key order: what appending them   *)
(* one by one leaves when n places are free.                                *)
FirstDiffs(diffs, n) ==
  { d \in diffs : Cardinality({ e \in diffs : e.key < d.key }) < n }
===============================================================================
