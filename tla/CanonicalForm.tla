---------------------------- MODULE CanonicalForm ----------------------------
(***************************************************************************)
(* The text a column's value is compared as: get_schema()'s translation of  *)
(* type names and normalise_expr() of the three connectors, under the rule  *)
(* and the digits Normalisation negotiates for a pair of columns.           *)
(*                                                                          *)
(* Values.  A number is an integer in units of Ten^-Scale, an instant or a  *)
(* time of day one in units of Ten^-Nano seconds, a string a sequence of    *)
(* characters, an array a sequence of strings.  A uuid is                   *)
(* <<"uuid", id, case, form>>; a text column may hold it in either case and *)
(* with or without hyphens, a uuid column has it "lower" and "hyphens".     *)
(*                                                                          *)
(* Texts.  Digits are kept as the numbers they spell: what two texts must   *)
(* agree on is sign, digits and their count.  The codes for NaN, infinities,*)
(* booleans, dates, bytes and enum labels are literals or plain casts on    *)
(* every engine and are left out, and so are jsonb and the pairs with an    *)
(* unmapped type (UNK-1), which are compared as each engine prints them.    *)
(***************************************************************************)
EXTENDS Normalisation, SequencesExt

CONSTANTS
  Ten,           \* radix of the digits; even, as 10 is
  Scale,         \* digits after the point that the numbers have
  FormatDigits,  \* digits before the point in 'FM999999999999999990': 18
  Precise,       \* significant digits of a float: 15
  Nano,          \* fraction digits of the finest instant: 9
  Day            \* seconds of a day

ASSUME CanonicalAssumption ==
  /\ Ten \in Nat \ {0, 1} /\ Ten % 2 = 0
  /\ Scale \in Nat /\ FormatDigits \in Nat /\ Precise \in Nat \ {0}
  /\ Micro \in Nat /\ Nano \in Nat /\ Micro <= Nano /\ Day \in Nat \ {0}
  /\ None \notin {"STR_2", "TS_2", "UUID_1"}

Power(k) == Pow(Ten, k)

Column(engine, native, digits) == [engine |-> engine, native |-> native, digits |-> digits]

(* get_schema() of each connector: type names become those pick_rule knows, *)
(* and the digits are the scale or precision the catalogue reports.         *)
PostgresColumn(type, digits) ==
  Column("postgres",
         CASE type = "_text"        -> "text[]"
           [] type = "_timestamptz" -> "timestamptz[]"
           [] OTHER                 -> type,
         IF type = "bigint" THEN 0 ELSE digits)

ClickHouseColumn(type, digits) ==
  Column("clickhouse",
         CASE type = "Int64"                      -> "bigint"
           [] type = "Float64"                    -> "double precision"
           [] type = "Decimal"                    -> "decimal"
           [] type \in {"DateTime", "DateTime64"} -> "timestamp with time zone"
           [] type = "String"                     -> "text"
           [] type = "UUID"                       -> "uuid"
           [] type = "Array"                      -> "array[]",
         IF type = "DateTime" THEN 0 ELSE digits)

SnowflakeColumn(type, digits) ==
  Column("snowflake",
         CASE type = "NUMBER" /\ digits = 0 -> "bigint"
           [] type = "NUMBER" /\ digits # 0 -> "numeric"
           [] type = "FLOAT"                -> "double precision"
           [] type = "TEXT"                 -> "text"
           [] type = "TIME"                 -> "time"
           [] type = "TIMESTAMP_NTZ"        -> "timestamp"
           [] type = "TIMESTAMP_TZ"         -> "timestamp with time zone",
         IF type = "NUMBER" /\ digits = 0 THEN None ELSE digits)

-------------------------------------------------------------------------------
Abs(n) == IF n < 0 THEN -n ELSE n

IsUuid(s) == Len(s) = 4 /\ s[1] = "uuid"

(* length(toString(n)) for n >= 0 *)
Length(n) == CHOOSE k \in 1..(n + 1) : n < Power(k) /\ (k = 1 \/ n >= Power(k - 1))

(* leftPad(toString(n), width, '0'), a string of digits that is given back  *)
(* as the number it spells: ClickHouse cuts what is longer than width.      *)
LeftPad(n, width) == IF Length(n) <= width THEN n ELSE n \div (Power(Length(n) - width))

(* DEC-1, the CASE of PostgreSQL and ClickHouse: at a tie the even          *)
(* neighbour, and the engine's round() otherwise.                           *)
BankerMutant(v, unit) == HalfAway(v, unit)   \* mutation: round() alone

Banker(v, unit) ==
  LET floor == v \div unit
  IN  IF 2 * (v - floor * unit) = unit
      THEN IF floor % 2 = 0 THEN floor ELSE floor + 1
      ELSE HalfAway(v, unit)

Fixed(negative, digits, p) == << "dec", negative, digits \div Power(p), digits % Power(p), p >>

(* to_char(n / Ten^p, format): a number too wide for it is filled with '#'. *)
ToChar(n, p) ==
  IF Abs(n) >= Power(FormatDigits + p) THEN << "#", n < 0 >> ELSE Fixed(n < 0, Abs(n), p)

PostgresDec1(v, p) == ToChar(Banker(v, Power(Scale - p)), p)

SnowflakeDec1(v, p) == ToChar(Round(v, Power(Scale - p)), p)

(* greatest(length(digits), p + 1) *)
TargetLengthMutant(digits, p) == p + 1   \* mutation: without greatest()

TargetLength(digits, p) == Greater(Length(digits), p + 1)

ClickHouseDec1(v, p) ==
  LET n == Banker(v, Power(Scale - p))
  IN  Fixed(n < 0, IF p = 0 THEN Abs(n) ELSE LeftPad(Abs(n), TargetLength(Abs(n), p)), p)

Exponent(v) == CHOOSE e \in (-Scale)..(Abs(v) + 1) :
                 Power(e + Scale) <= Abs(v) /\ Abs(v) < Power(e + Scale + 1)

(* FLT-1: |v| / Ten^exponent, rounded to Precise significant digits.  The   *)
(* logarithm and the division are taken as exact.                           *)
Mantissa(v, Rounding(_, _)) ==
  Rounding(Abs(v) * Power(Precise - 1), Power(Exponent(v) + Scale))

FloatText(v, mantissa, exponent) ==
  IF v = 0 THEN << "flt", FALSE, 0, 0 >> ELSE << "flt", v < 0, mantissa, exponent >>

(* EEEE prints a mantissa that rounds up to ten as one, one exponent up. *)
PostgresFlt1(v) ==
  LET m == Mantissa(v, Round)
  IN  IF v # 0 /\ m = Power(Precise) THEN FloatText(v, Power(Precise - 1), Exponent(v) + 1)
      ELSE FloatText(v, m, Exponent(v))

(* The other two print the exponent of the number before it was rounded. *)
ClickHouseFlt1(v) == FloatText(v, Mantissa(v, Round), Exponent(v))

SnowflakeFlt1(v) == FloatText(v, Mantissa(v, HalfAway), Exponent(v))

-------------------------------------------------------------------------------
Second == Power(Micro)

(* Every expression works on microseconds: DateTime64(9) is converted to    *)
(* DateTime64(6), EPOCH_MICROSECOND and FF6 cut what follows.               *)
Microseconds(v) == v \div Power(Nano - Micro)

Unit(p) == Power(Micro - p)

TimeText(second, p, negative, digits) == << "time", second, p, negative, digits >>

(* to_char with a format of p fraction digits *)
Clock(m, p) == TimeText(m \div Second, p, FALSE, (m % Second) \div Unit(p))

(* ClickHouse takes the fraction from % on the microseconds since 1970,     *)
(* which has a sign before that, and pads it.                               *)
ClickHouseClock(m, p) ==
  LET fraction == SqlMod(m, Second)
      digits   == Abs(fraction) \div Unit(p)
  IN  TimeText(m \div Second, p, fraction < 0,
               IF fraction < 0 /\ p > 0 THEN LeftPad(digits, p - 1) ELSE digits)

(* TS-2: half a unit is added and the sum floored to a unit (date_bin). *)
RoundedMutant(m, p) == (m \div Unit(p)) * Unit(p)   \* mutation: no half unit

Rounded(m, p) == ((m + Unit(p) \div 2) \div Unit(p)) * Unit(p)

(* Snowflake's / is not an integer division: ROUND rounds, to the nearest,  *)
(* what half a unit was already added to.                                   *)
SnowflakeRounded(m, p) == HalfAway(m + Unit(p) \div 2, Unit(p)) * Unit(p)

(* A time of day is anchored on a date, and only the time of day printed. *)
WallClock(column, m) == IF column.native = "time" THEN m % (Day * Second) ELSE m

-------------------------------------------------------------------------------
LowerCase ==
  [c \in {"A", "N", "E'"} |-> CASE c = "A" -> "a" [] c = "N" -> "n" [] c = "E'" -> "e'"]

Ascii == {"A", "N"}

(* lower(), of the characters an engine's lower() knows. *)
LowerText(known, s) ==
  IF IsUuid(s) THEN << "uuid", s[2], "lower", s[4] >>
  ELSE [k \in DOMAIN s |-> IF s[k] \in known THEN LowerCase[s[k]] ELSE s[k]]

RTrim(s) ==
  IF \A k \in DOMAIN s : s[k] = " " THEN << >>
  ELSE SubSeq(s, 1, CHOOSE k \in DOMAIN s : s[k] # " " /\ \A j \in (k + 1)..Len(s) : s[j] = " ")

(* STR-2, with --trim or --case-insensitive or both. *)
Relaxed(options, known, s) ==
  LET t == IF options.trim THEN RTrim(s) ELSE s
  IN  IF options.lower THEN LowerText(known, t) ELSE t

Str2(options, s) == Relaxed(options, DOMAIN LowerCase, s)

(* ClickHouse's lower() knows ASCII only. *)
ClickHouseStr2(options, s) == Relaxed(options, Ascii, s)

(* UUID-1: only Snowflake, where a uuid is always text, does more than cast. *)
SnowflakeUuid1(s) ==
  IF IsUuid(s) THEN << "uuid", s[2], "lower", "hyphens" >> ELSE LowerText(DOMAIN LowerCase, s)

NullText == << "\\", "N" >>

(* ARR-1 *)
Arr1(elements) ==
  LET text(k) == (IF k > 1 THEN << "," >> ELSE << >>)
                 \o (IF elements[k] = None THEN NullText ELSE elements[k])
  IN  << "[" >> \o FlattenSeq([k \in DOMAIN elements |-> text(k)]) \o << "]" >>

(* The server refuses rtrim and lower of a uuid, and to_char of an array. *)
Refused(column, rule) ==
  \/ rule = "STR_2" /\ column.native = "uuid"
  \/ rule \in {"TS_2", "TS_3"} /\ column.native = "timestamptz[]"

-------------------------------------------------------------------------------
(* normalise_expr of each connector, for a value that is not NULL.  p is    *)
(* the column's number of digits or, if it has one, the override of it.     *)
Precision(column, digits) == Lesser(OwnDigits(column, digits, Micro), Micro)

PostgresExpr(column, rule, digits, options, v) ==
  LET p    == Precision(column, digits)
      m(t) == WallClock(column, t)
  IN  CASE rule = "INT_1"                      -> Fixed(v < 0, Abs(v) \div Power(Scale), 0)
        [] rule = "DEC_1"                      -> PostgresDec1(v, OwnDigits(column, digits, 0))
        [] rule = "FLT_1"                      -> PostgresFlt1(v)
        [] rule \in {"TS_1", "TS_3", "TIME_1"} -> Clock(m(Microseconds(v)), Micro)
        [] rule = "TS_2"                       -> Clock(m(Rounded(Microseconds(v), p)), p)
        [] rule = "ARR_1"                      -> Arr1(v)
        [] rule = "STR_2"                      -> Str2(options, v)
        [] rule \in {"STR_1", "UUID_1"}        -> v

ClickHouseExpr(column, rule, digits, options, v) ==
  LET p == Precision(column, digits)
  IN  CASE rule = "INT_1"            -> Fixed(v < 0, Abs(v) \div Power(Scale), 0)
        [] rule = "DEC_1"            -> ClickHouseDec1(v, OwnDigits(column, digits, 0))
        [] rule = "FLT_1"            -> ClickHouseFlt1(v)
        [] rule \in {"TS_1", "TS_3"} -> ClickHouseClock(Microseconds(v), Micro)
        [] rule = "TS_2"             -> ClickHouseClock(Rounded(Microseconds(v), p), p)
        [] rule = "ARR_1"            -> Arr1(v)
        [] rule = "STR_2"            -> ClickHouseStr2(options, v)
        [] rule \in {"STR_1", "UUID_1"} -> v

SnowflakeExpr(column, rule, digits, options, v) ==
  LET p    == Precision(column, digits)
      m(t) == WallClock(column, t)
  IN  CASE rule = "INT_1"                      -> Fixed(v < 0, Abs(v) \div Power(Scale), 0)
        [] rule = "DEC_1"                      -> SnowflakeDec1(v, OwnDigits(column, digits, 0))
        [] rule = "FLT_1"                      -> SnowflakeFlt1(v)
        [] rule \in {"TS_1", "TS_3", "TIME_1"} -> Clock(m(Microseconds(v)), Micro)
        [] rule = "TS_2"                       -> Clock(m(SnowflakeRounded(Microseconds(v), p)), p)
        [] rule = "UUID_1"                     -> SnowflakeUuid1(v)
        [] rule = "STR_2"                      -> Str2(options, v)
        [] rule = "STR_1"                      -> v

(* NULL-1 *)
NormaliseExpr(column, rule, digits, options, v) ==
  IF Refused(column, rule) THEN << "refused" >>
  ELSE IF v = None THEN NullText
  ELSE CASE column.engine = "postgres"   -> PostgresExpr(column, rule, digits, options, v)
         [] column.engine = "clickhouse" -> ClickHouseExpr(column, rule, digits, options, v)
         [] column.engine = "snowflake"  -> SnowflakeExpr(column, rule, digits, options, v)

(* What a pair of columns, and whether --trim and --case-insensitive are on, *)
(* makes of a value of one of the two.                                      *)
Agreed(pair) == Negotiate(pair.source, pair.target, pair.trim \/ pair.lower)

FinalRule(pair, column) ==
  IF Agreed(pair).rule = None THEN PickRule(column.native) ELSE Agreed(pair).rule

Text(pair, column, v) ==
  NormaliseExpr(column, FinalRule(pair, column), Agreed(pair).digits, pair, v)

(* row_hash_expr joins the columns' texts before it takes their digest. *)
Separator == "\\x1f"

RowTextMutant(texts) == FlattenSeq(texts)   \* mutation: no separator

RowText(texts) ==
  FlattenSeq([k \in DOMAIN texts |-> IF k = 1 THEN texts[k] ELSE << Separator >> \o texts[k]])

-------------------------------------------------------------------------------
(* What the rules of SPEC.md promise instead: two values have one meaning   *)
(* when a comparison at the pair's lower scale or precision finds them      *)
(* equal.  For floats and STR-2 that is what PostgreSQL does.               *)
Rules(pair) == { PickRule(pair.source.native), PickRule(pair.target.native) }

CommonDigits(pair, default) ==
  Lesser(Digits(pair.source, default), Digits(pair.target, default))

FixedScale(column) == IF PickRule(column.native) = "INT_1" THEN 0 ELSE Digits(column, Scale)

Meaning(pair, v) ==
  LET rules == Rules(pair)
      scale == Lesser(FixedScale(pair.source), FixedScale(pair.target))
      p     == Lesser(CommonDigits(pair, Micro), Micro)
      unit  == Power(Nano - p)
      time  == (v + unit \div 2) \div unit
  IN  IF v = None THEN << "null" >>
      ELSE
      CASE rules = {"FLT_1"}                      -> PostgresFlt1(v)
        [] rules \subseteq {"INT_1", "DEC_1"}     -> << "dec", Round(v, Power(Scale - scale)) >>
        [] "FLT_1" \in rules /\ rules # {"FLT_1"} -> << "number", v >>
        [] rules \subseteq {"TS_1", "TS_3"}       -> << "time", time >>
        [] rules = {"TIME_1"}                     -> << "time", time % (Day * Power(p)) >>
        [] "UUID_1" \in rules                     ->
             IF IsUuid(v) THEN << "uuid", v[2] >> ELSE << "str", v >>
        [] rules = {"STR_1"}                      ->
             << "str", Str2(pair, v) >>
        [] rules = {"ARR_1"}                      -> << "array", v >>

(* Where the code is known to depart from that, by name; README.md tells    *)
(* each.  The first says it of a pair, the second of one side's value.      *)
Holding(departures) == { d \in DOMAIN departures : departures[d] }

KnownOfPair(pair) ==
  LET rules   == Rules(pair)
      n       == Agreed(pair)
      columns == {pair.source, pair.target}
  IN  Holding(
       [float_against_fixed    |-> "FLT_1" \in rules /\ rules # {"FLT_1"},
        undeclared_scale       |-> \E c \in columns : PickRule(c.native) = "DEC_1" /\ c.digits = None,
        snowflake_rounds_twice |-> /\ n.rule = "TS_2" /\ n.digits < Micro
                                   /\ \E c \in columns : c.engine = "snowflake"])

KnownOfValue(pair, column, v) ==
  LET rule  == PickRule(column.native)
      final == FinalRule(pair, column)
      p     == OwnDigits(column, Agreed(pair).digits, 0)
      timed == rule \in {"TS_1", "TS_3", "TIME_1"}
  IN  IF Refused(column, final) THEN {"refused"}
      ELSE IF v = None THEN {}
      ELSE Holding(
       [wide_decimal    |-> /\ rule = "DEC_1" /\ column.engine # "clickhouse"
                            /\ Round(Abs(v), Power(Scale - p)) >= Power(FormatDigits + p),
        float_rounding  |-> /\ rule = "FLT_1" /\ column.engine # "postgres" /\ v # 0
                            /\ \/ Mantissa(v, Round) = Power(Precise)
                               \/ Mantissa(v, Round) # Mantissa(v, HalfAway),
        nanoseconds_cut |-> timed /\ v % Power(Nano - Micro) # 0,
        before_1970     |-> timed /\ column.engine = "clickhouse" /\ v < 0,
        text_uuid       |-> final = "UUID_1" /\ rule = "STR_1" /\ column.engine # "snowflake",
        ascii_case_only |-> /\ final = "STR_2" /\ pair.lower /\ column.engine = "clickhouse"
                            /\ \E k \in DOMAIN v : v[k] = "E'",
        null_marker     |-> /\ rule = "STR_1" /\ final # "UUID_1" /\ ~pair.lower
                            /\ (IF pair.trim THEN RTrim(v) ELSE v) = NullText,
        array_text      |-> /\ rule = "ARR_1"
                            /\ \/ v = << << >> >>
                               \/ \E k \in DOMAIN v :
                                    /\ v[k] # None
                                    /\ \/ v[k] = NullText
                                       \/ \E j \in DOMAIN v[k] : v[k][j] = ","])

Known(pair, column, v) == KnownOfPair(pair) \cup KnownOfValue(pair, column, v)
===============================================================================
