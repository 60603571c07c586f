---------------------------- MODULE Normalisation ----------------------------
(***************************************************************************)
(* Which rule governs a column (core/normalisation.pick_rule) and what      *)
(* core/column_matching.match_columns decides for a pair of columns: may    *)
(* they be compared, under which rule, at how many digits, with a warning?  *)
(*                                                                          *)
(* A column has a native type, in the words every connector translates its  *)
(* own types into, and the number of fraction digits it declares: its scale *)
(* if it is a decimal, its precision if it is a time or a timestamp.        *)
(***************************************************************************)
EXTENDS Sql

CONSTANT Micro    \* fraction digits of a microsecond: 6

ASSUME MicroAssumption == Micro \in Nat

(* pick_rule, on the native types it tells apart.  An array of times is a   *)
(* trap: it starts with "time" and that is tested first.                    *)
PickRule(native) ==
  CASE native = "bigint"                         -> "INT_1"
    [] native \in {"numeric", "decimal"}         -> "DEC_1"
    [] native = "double precision"               -> "FLT_1"
    [] native = "boolean"                        -> "BOOL_1"
    [] native = "date"                           -> "DATE_1"
    [] native = "time"                           -> "TIME_1"
    [] native = "timestamp with time zone"       -> "TS_1"
    [] native \in {"timestamp", "timestamp without time zone", "timestamptz[]"} -> "TS_3"
    [] native = "uuid"                           -> "UUID_1"
    [] native = "bytea"                          -> "BIN_1"
    [] native = "jsonb"                          -> "JSON_1"
    [] native = "enum"                           -> "ENUM_1"
    [] native \in {"array[]", "text[]"}          -> "ARR_1"
    [] native = "text"                           -> "STR_1"
    [] OTHER                                     -> "UNK_1"

(* _FAMILY; every other rule is a family of its own. *)
Family(rule) ==
  CASE rule \in {"INT_1", "DEC_1", "FLT_1"} -> "numeric"
    [] rule \in {"STR_1", "STR_2"}          -> "string"
    [] rule \in {"TS_1", "TS_2", "TS_3"}    -> "timestamp"
    [] OTHER                                -> rule

(* _families_compatible *)
Compatible(r, q) ==
  \/ "UNK_1" \in {r, q}
  \/ {Family(r), Family(q)} = {"UUID_1", "string"}
  \/ Family(r) = Family(q)

Digits(column, default) == IF column.digits = None THEN default ELSE column.digits

(* Whether the pair's decimal scale is fixed. *)
SharesScaleMutant(r, q) == r = "DEC_1" /\ q = "DEC_1"   \* mutation: and for or

SharesScale(r, q) == r = "DEC_1" \/ q = "DEC_1"

(* The overrides of one pair, None where there is none: UUID-1 against text, *)
(* the lower scale of DEC-1, the lower precision of TS-2, the opt-in STR-2,  *)
(* each of which replaces the rule chosen before it.                         *)
Negotiate(s, t, fold) ==
  LET sRule   == PickRule(s.native)
      tRule   == PickRule(t.native)
      oneUuid == (Family(sRule) = "UUID_1") # (Family(tRule) = "UUID_1")
      decimal == SharesScale(sRule, tRule)
      timed   == {Family(sRule), Family(tRule)} \cap {"timestamp", "TIME_1"} # {}
      ts2     == timed /\ Digits(s, Micro) # Digits(t, Micro)
  IN  [rule   |-> IF sRule = "STR_1" /\ fold THEN "STR_2"
                  ELSE IF ts2 THEN "TS_2"
                  ELSE IF oneUuid THEN "UUID_1" ELSE None,
       digits |-> IF ts2 THEN Lesser(Digits(s, Micro), Digits(t, Micro))
                  ELSE IF decimal THEN Lesser(Digits(s, 0), Digits(t, 0)) ELSE None,
       warned |-> ts2 \/ (decimal /\ Digits(s, 0) # Digits(t, 0))]

(* normalise_expr's `overrides.get(name, column's own or default)`. *)
OwnDigits(column, override, default) ==
  IF override # None THEN override ELSE Digits(column, default)
===============================================================================
