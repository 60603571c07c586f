--------------------------- MODULE RenderingProofs ---------------------------
(***************************************************************************)
(* Values that mean the same have one text, and values that do not have     *)
(* different ones, whichever of the three engines made the texts: for any   *)
(* radix, scales, precisions, numbers and instants, and for every pair of   *)
(* columns that match_columns compares.                                     *)
(*                                                                          *)
(* One lemma for each kind of pair (NumbersAgree, FloatsAgree, TimesAgree,  *)
(* UuidsAgree, StringsAgree, ArraysAgree) says it of the values that no     *)
(* departure named in CanonicalForm concerns; PlainPair and PlainValue say  *)
(* what that gives.                                                         *)
(***************************************************************************)
EXTENDS FunctionsProofs

-------------------------------------------------------------------------------
(* Rendering.  Powers of Ten.                                               *)
LEMMA PowerNext ==
  /\ Power(0) = 1
  /\ \A k \in Nat : Power(k) \in Int /\ Power(k + 1) = Ten * Power(k)
<1>1. Ten \in Int
  BY CanonicalAssumption
<1> QED
  BY <1>1, PowNext DEF Power

(* A power is greater than its exponent, and so at least one.               *)
LEMMA PowerExceeds ==
  ASSUME NEW k \in Nat
  PROVE  Power(k) \in Nat \ {0} /\ k < Power(k)
<1>1. Ten \in Int /\ Ten >= 2
  BY CanonicalAssumption
<1> QED
  BY <1>1, PowExceeds DEF Power

LEMMA PowerSum ==
  ASSUME NEW a \in Nat, NEW k \in Nat
  PROVE  Power(a + k) = Power(a) * Power(k)
<1>1. Ten \in Int
  BY CanonicalAssumption
<1> QED
  BY <1>1, PowSum DEF Power

-------------------------------------------------------------------------------
(* Numbers.                                                                  *)
LEMMA QuotientIs ==
  ASSUME NEW d \in Nat \ {0}, NEW q \in Int, NEW r \in 0..(d - 1), NEW a \in Int, a = d * q + r
  PROVE  a \div d = q /\ a % d = r
<1> DEFINE p == d * q
           m == d * (a \div d)
<1>1. a % d = r
  BY ModUnique
<1>2. a \div d \in Int /\ a = m + (a % d)
  BY DivMod
<1>3. p \in Int /\ m \in Int /\ m = p
  BY <1>1, <1>2
<1>4. p \div d = q /\ p \div d = a \div d
  BY <1>2, <1>3, QuotientBetween, SMTT(40)
<1> QED
  BY <1>1, <1>4

(* The engines' CASE rounds half to even, as Python does.                   *)
LEMMA HalfEven ==
  ASSUME NEW v \in Int, NEW u \in Nat \ {0}
  PROVE  Banker(v, u) = Round(v, u)
<1> DEFINE q == v \div u
           r == v % u
           t == u * q
           w == 2 * u
<1>1. q \in Int /\ r \in 0..(u - 1) /\ v = t + r
  BY DivMod
<1>2. /\ Round(v, u) = IF 2 * r < u \/ (2 * r = u /\ q % 2 = 0) THEN q ELSE q + 1
      /\ Banker(v, u) = IF 2 * (v - q * u) = u THEN IF q % 2 = 0 THEN q ELSE q + 1
                        ELSE HalfAway(v, u)
  BY DEF Round, Banker
<1> HIDE DEF q, r
<1>3. /\ t \in Int /\ q * u = t /\ w \in Nat \ {0}
      /\ w * q = 2 * t /\ w * (q + 1) = 2 * t + w /\ w * (-q) = -(2 * t)
      /\ w * (-q - 1) = -(2 * t) - w
  BY <1>1
<1> HIDE DEF t
<1>4. CASE 2 * r = u
  BY <1>1, <1>2, <1>3, <1>4
<1>5. CASE 2 * r # u /\ v >= 0
  <2>0. HalfAway(v, u) = (2 * v + u) \div w
    BY <1>5 DEF HalfAway
  <2> DEFINE a == 2 * v + u
  <2>1. CASE 2 * r < u
    <3> DEFINE k == q
               s == 2 * r + u
    <3>1. s \in 0..(w - 1) /\ a \in Int /\ k \in Int /\ a = w * k + s
      BY <1>1, <1>3, <2>1
    <3> HIDE DEF k, s, a, w
    <3>2. a \div w = k
      BY <1>3, <3>1, QuotientIs
    <3> QED
      BY <1>1, <1>2, <1>3, <1>5, <2>0, <2>1, <3>2 DEF k, a
  <2>2. CASE 2 * r > u
    <3> DEFINE k == q + 1
               s == 2 * r - u
    <3>1. s \in 0..(w - 1) /\ a \in Int /\ k \in Int /\ a = w * k + s
      BY <1>1, <1>3, <2>2
    <3> HIDE DEF k, s, a, w
    <3>2. a \div w = k
      BY <1>3, <3>1, QuotientIs
    <3> QED
      BY <1>1, <1>2, <1>3, <1>5, <2>0, <2>2, <3>2 DEF k, a
  <2> QED
    BY <1>1, <1>5, <2>1, <2>2
<1>6. CASE 2 * r # u /\ v < 0
  <2>0. HalfAway(v, u) = -((u - 2 * v) \div w)
    BY <1>1, <1>6 DEF HalfAway
  <2> DEFINE a == u - 2 * v
  <2>1. CASE 2 * r < u
    <3> DEFINE k == -q
               s == u - 2 * r
    <3>1. s \in 0..(w - 1) /\ a \in Int /\ k \in Int /\ a = w * k + s
      BY <1>1, <1>3, <2>1
    <3> HIDE DEF k, s, a, w
    <3>2. a \div w = k
      BY <1>3, <3>1, QuotientIs
    <3> QED
      BY <1>1, <1>2, <1>3, <1>6, <2>0, <2>1, <3>2 DEF k, a
  <2>2. CASE 2 * r > u
    <3> DEFINE k == -q - 1
               s == 3 * u - 2 * r
    <3>1. s \in 0..(w - 1) /\ a \in Int /\ k \in Int /\ a = w * k + s
      BY <1>1, <1>3, <2>2
    <3> HIDE DEF k, s, a, w
    <3>2. a \div w = k
      BY <1>3, <3>1, QuotientIs
    <3> QED
      BY <1>1, <1>2, <1>3, <1>6, <2>0, <2>2, <3>2 DEF k, a
  <2> QED
    BY <1>1, <1>6, <2>1, <2>2
<1> QED
  BY <1>1, <1>4, <1>5, <1>6

LEMMA RoundOpposite ==
  ASSUME NEW v \in Int, NEW u \in Nat \ {0}
  PROVE  Round(-v, u) = -Round(v, u)
<1> DEFINE q == v \div u
           r == v % u
           t == u * q
           a == -v
<1>1. q \in Int /\ r \in 0..(u - 1) /\ v = t + r
  BY DivMod
<1>2. /\ Round(v, u) = IF 2 * r < u \/ (2 * r = u /\ q % 2 = 0) THEN q ELSE q + 1
      /\ Round(a, u) = IF 2 * (a % u) < u \/ (2 * (a % u) = u /\ (a \div u) % 2 = 0)
                       THEN a \div u ELSE a \div u + 1
  BY DEF Round
<1> HIDE DEF q, r
<1>3. t \in Int /\ u * (-q) = -t /\ u * (-q - 1) = -t - u
  BY <1>1
<1> HIDE DEF t
<1>4. CASE r = 0
  <2>1. a \in Int /\ -q \in Int /\ 0 \in 0..(u - 1) /\ a = u * (-q) + 0
    BY <1>1, <1>3, <1>4
  <2>2. a \div u = -q /\ a % u = 0
    BY <2>1, QuotientIs, ZenonT(60)
  <2> QED
    BY <1>1, <1>2, <1>4, <2>2
<1>5. CASE r # 0
  <2> DEFINE k == -q - 1
             s == u - r
  <2>1. a \in Int /\ k \in Int /\ s \in 0..(u - 1) /\ a = u * k + s
    BY <1>1, <1>3, <1>5
  <2>2. k % 2 = 0 <=> q % 2 # 0
    BY <1>1
  <2> HIDE DEF a, k, s
  <2>3. a \div u = k /\ a % u = s
    BY <2>1, QuotientIs
  <2>4. Round(a, u) = IF 2 * s < u \/ (2 * s = u /\ k % 2 = 0) THEN k ELSE k + 1
    BY <1>2, <2>3
  <2> QED
    BY <1>1, <1>2, <2>2, <2>4 DEF a, k, s
<1> QED
  BY <1>4, <1>5

LEMMA RoundAbs ==
  ASSUME NEW v \in Int, NEW u \in Nat \ {0}
  PROVE  Round(v, u) \in Int /\ Round(Abs(v), u) = Abs(Round(v, u))
<1>1. Round(v, u) \in Int /\ Round(-v, u) = -Round(v, u)
  BY RoundNear, RoundOpposite
<1>2. v >= 0 => Round(v, u) >= 0
  <2>1. Round(u * 0, u) = 0 /\ u * 0 = 0
    BY RoundExact
  <2> QED
    BY <2>1, RoundMonotone
<1>3. v <= 0 => Round(v, u) <= 0
  <2>1. Round(u * 0, u) = 0 /\ u * 0 = 0
    BY RoundExact
  <2> QED
    BY <2>1, RoundMonotone
<1> QED
  BY <1>1, <1>2, <1>3 DEF Abs

LEMMA FixedApart ==
  ASSUME NEW m \in Int, NEW n \in Int, NEW p \in Nat,
         Fixed(m < 0, Abs(m), p) = Fixed(n < 0, Abs(n), p)
  PROVE  m = n
<1> DEFINE u == Power(p)
<1>1. u \in Nat \ {0}
  BY PowerExceeds
<1>2. (m < 0) = (n < 0) /\ Abs(m) \div u = Abs(n) \div u /\ Abs(m) % u = Abs(n) % u
  BY DEF Fixed
<1>3. Abs(m) \in Int /\ Abs(n) \in Int
  BY DEF Abs
<1> DEFINE x == Abs(m)
           y == Abs(n)
<1> HIDE DEF u, x, y
<1>4. x = u * (x \div u) + (x % u) /\ y = u * (y \div u) + (y % u)
  BY <1>1, <1>3, DivMod DEF x, y
<1>5. x = y
  BY <1>2, <1>4 DEF x, y
<1> QED
  BY <1>2, <1>5 DEF Abs, x, y

(* ClickHouse pads to a length no shorter than the number's own.            *)
LEMMA LengthType ==
  ASSUME NEW n \in Nat
  PROVE  Length(n) \in 1..(n + 1)
<1> DEFINE S == { k \in 1..(n + 1) : n < Power(k) }
<1>1. S \in SUBSET Int /\ IsFiniteSet(S)
  <2>1. IsFiniteSet(1..(n + 1)) /\ S \in SUBSET (1..(n + 1))
    BY FS_Interval
  <2> QED
    BY <2>1, FS_Subset
<1>2. n + 1 \in S
  <2> DEFINE m == n + 1
  <2>1. m \in Nat /\ m \in 1..(n + 1) /\ n < m
    OBVIOUS
  <2> HIDE DEF m
  <2>2. m < Power(m) /\ Power(m) \in Nat
    BY <2>1, PowerExceeds
  <2> QED
    BY <2>1, <2>2 DEF m
<1> HIDE DEF S
<1>3. PICK x \in S : \A y \in S : x <= y
  BY <1>1, <1>2, LeastElement
<1>4. x \in 1..(n + 1) /\ n < Power(x)
  BY DEF S
<1>5. x = 1 \/ n >= Power(x - 1)
  <2> SUFFICES ASSUME x # 1 PROVE n >= Power(x - 1)
    OBVIOUS
  <2> DEFINE y == x - 1
  <2>1. y \in Nat /\ y \in 1..(n + 1) /\ y < x
    BY <1>4
  <2> HIDE DEF y
  <2>2. Power(y) \in Int
    BY <2>1, PowerExceeds
  <2>3. y \notin S
    BY <1>3, <1>4, <2>1
  <2> QED
    BY <2>1, <2>2, <2>3 DEF S, y
<1> QED
  BY <1>4, <1>5 DEF Length

LEMMA PadKeeps ==
  ASSUME NEW n \in Nat, NEW p \in Nat
  PROVE  LeftPad(n, TargetLength(n, p)) = n
<1>1. Length(n) \in Int
  BY LengthType
<1>2. Length(n) <= TargetLength(n, p)
  BY <1>1 DEF TargetLength, Greater
<1> QED
  BY <1>2 DEF LeftPad

-------------------------------------------------------------------------------
(* Columns.                                                                  *)
LEMMA RulesOfTypes ==
  /\ PickRule("bigint") = "INT_1"
  /\ PickRule("numeric") = "DEC_1" /\ PickRule("decimal") = "DEC_1"
  /\ PickRule("double precision") = "FLT_1"
  /\ PickRule("time") = "TIME_1"
  /\ PickRule("timestamp with time zone") = "TS_1"
  /\ PickRule("timestamp") = "TS_3" /\ PickRule("timestamp without time zone") = "TS_3"
  /\ PickRule("timestamptz[]") = "TS_3"
  /\ PickRule("uuid") = "UUID_1"
  /\ PickRule("array[]") = "ARR_1" /\ PickRule("text[]") = "ARR_1"
  /\ PickRule("text") = "STR_1"
BY DEF PickRule

(* The types of a rule that an engine has, and the digits they may declare. *)
Declares(c, natives, digits) == c.native \in natives /\ c.digits \in digits

Timestamps == {"timestamp with time zone", "timestamp", "timestamp without time zone"}

HasKind(c) ==
  \/ Declares(c, {"bigint"}, {0, None})
  \/ Declares(c, {"numeric", "decimal"}, {None} \cup 0..Scale)
  \/ Declares(c, {"double precision"}, {None})
  \/ Declares(c, {"time"}, 0..Nano) /\ c.engine # "clickhouse"
  \/ Declares(c, Timestamps, 0..Nano)
  \/ Declares(c, {"timestamptz[]"}, {None})
  \/ Declares(c, {"uuid"}, {None}) /\ c.engine # "snowflake"
  \/ Declares(c, {"array[]", "text[]"}, {None}) /\ c.engine # "snowflake"
  \/ Declares(c, {"text"}, {None})

LEMMA MicroDigits == Micro \in 0..Nano /\ \A i \in 0..Micro : i \in 0..Nano
BY CanonicalAssumption

LEMMA PostgresKinds ==
  ASSUME NEW type, NEW digits,
         \/ /\ type \in {"double precision", "text", "uuid", "_text", "_timestamptz"}
            /\ digits = None
         \/ type = "bigint" /\ digits = 0
         \/ type = "numeric" /\ digits \in {None} \cup 0..Scale
         \/ /\ type \in {"timestamp with time zone", "timestamp without time zone", "time"}
            /\ digits \in 0..Micro
  PROVE  LET c == PostgresColumn(type, digits) IN c.engine = "postgres" /\ HasKind(c)
<1> DEFINE c == PostgresColumn(type, digits)
<1>1. c.engine = "postgres"
  BY DEF PostgresColumn, Column
<1>2. \A i \in 0..Micro : i \in 0..Nano
  BY MicroDigits, Zenon
<1>3. /\ type = "_text" => c.native = "text[]"
      /\ type = "_timestamptz" => c.native = "timestamptz[]"
      /\ type \notin {"_text", "_timestamptz"} => c.native = type
      /\ c.digits = IF type = "bigint" THEN 0 ELSE digits
  BY DEF PostgresColumn, Column
<1> HIDE DEF c
<1>4. HasKind(c)
  BY <1>1, <1>2, <1>3 DEF HasKind, Declares, Timestamps
<1> QED
  BY <1>1, <1>4 DEF c

LEMMA ClickHouseKinds ==
  ASSUME NEW type, NEW digits,
         \/ /\ type \in {"Int64", "Float64", "DateTime", "String", "UUID", "Array"}
            /\ digits = None
         \/ type = "Decimal" /\ digits \in 0..Scale
         \/ type = "DateTime64" /\ digits \in 0..Nano
  PROVE  LET c == ClickHouseColumn(type, digits) IN c.engine = "clickhouse" /\ HasKind(c)
<1> DEFINE c == ClickHouseColumn(type, digits)
<1>1. c.engine = "clickhouse"
  BY DEF ClickHouseColumn, Column
<1>2. 0 \in 0..Nano
  BY CanonicalAssumption
<1>3. /\ type = "Int64" => c.native = "bigint"
      /\ type = "Float64" => c.native = "double precision"
      /\ type = "Decimal" => c.native = "decimal"
      /\ type \in {"DateTime", "DateTime64"} => c.native = "timestamp with time zone"
      /\ type = "String" => c.native = "text"
      /\ type = "UUID" => c.native = "uuid"
      /\ type = "Array" => c.native = "array[]"
      /\ c.digits = IF type = "DateTime" THEN 0 ELSE digits
  BY DEF ClickHouseColumn, Column
<1> HIDE DEF c
<1>4. HasKind(c)
  BY <1>1, <1>2, <1>3 DEF HasKind, Declares, Timestamps
<1> QED
  BY <1>1, <1>4 DEF c

LEMMA SnowflakeKinds ==
  ASSUME NEW type, NEW digits,
         \/ type \in {"FLOAT", "TEXT"} /\ digits = None
         \/ type = "NUMBER" /\ digits \in 0..Scale
         \/ type \in {"TIME", "TIMESTAMP_NTZ", "TIMESTAMP_TZ"} /\ digits \in 0..Nano
  PROVE  LET c == SnowflakeColumn(type, digits) IN c.engine = "snowflake" /\ HasKind(c)
<1> DEFINE c == SnowflakeColumn(type, digits)
<1>1. c.engine = "snowflake"
  BY DEF SnowflakeColumn, Column
<1>2. /\ type = "NUMBER" => c.native = IF digits = 0 THEN "bigint" ELSE "numeric"
      /\ type = "FLOAT" => c.native = "double precision"
      /\ type = "TEXT" => c.native = "text"
      /\ type = "TIME" => c.native = "time"
      /\ type = "TIMESTAMP_NTZ" => c.native = "timestamp"
      /\ type = "TIMESTAMP_TZ" => c.native = "timestamp with time zone"
      /\ c.digits = IF type = "NUMBER" /\ digits = 0 THEN None ELSE digits
  BY DEF SnowflakeColumn, Column
<1> HIDE DEF c
<1>3. HasKind(c)
  BY <1>1, <1>2 DEF HasKind, Declares, Timestamps
<1> QED
  BY <1>1, <1>3 DEF c

LEMMA ColumnKinds ==
  ASSUME NEW c \in Columns
  PROVE  c.engine \in {"postgres", "clickhouse", "snowflake"} /\ HasKind(c)
<1> DEFINE T == {"double precision", "text", "uuid", "_text", "_timestamptz"} \X {None}
                \cup {"bigint"} \X {0} \cup {"numeric"} \X ({None} \cup (0..Scale))
                \cup {"timestamp with time zone", "timestamp without time zone", "time"}
                     \X (0..Micro)
           U == { "Int64", "Float64", "DateTime", "String", "UUID", "Array" } \X {None}
                \cup {"Decimal"} \X (0..Scale) \cup {"DateTime64"} \X (0..Nano)
           V == { "FLOAT", "TEXT" } \X {None} \cup {"NUMBER"} \X (0..Scale)
                \cup {"TIME", "TIMESTAMP_NTZ", "TIMESTAMP_TZ"} \X (0..Nano)
<1>1. \/ \E t \in T : c = PostgresColumn(t[1], t[2])
      \/ \E t \in U : c = ClickHouseColumn(t[1], t[2])
      \/ \E t \in V : c = SnowflakeColumn(t[1], t[2])
  <2> HIDE DEF T, U, V
  <2>1. Columns = { PostgresColumn(t[1], t[2]) : t \in T }
                  \cup { ClickHouseColumn(t[1], t[2]) : t \in U }
                  \cup { SnowflakeColumn(t[1], t[2]) : t \in V }
    BY Zenon DEF Columns, T, U, V
  <2> QED
    BY <2>1
<1>2. CASE \E t \in T : c = PostgresColumn(t[1], t[2])
  <2>1. PICK t \in T : c = PostgresColumn(t[1], t[2])
    BY <1>2
  <2> DEFINE type == t[1]
             digits == t[2]
  <2>2. \/ /\ type \in {"double precision", "text", "uuid", "_text", "_timestamptz"}
           /\ digits = None
        \/ type = "bigint" /\ digits = 0
        \/ type = "numeric" /\ digits \in {None} \cup (0..Scale)
        \/ /\ type \in {"timestamp with time zone", "timestamp without time zone", "time"}
           /\ digits \in 0..Micro
    BY DEF T
  <2> HIDE DEF type, digits
  <2>3. LET d == PostgresColumn(type, digits) IN d.engine = "postgres" /\ HasKind(d)
    BY <2>2, PostgresKinds
  <2> QED
    BY <2>1, <2>3 DEF type, digits
<1>3. CASE \E t \in U : c = ClickHouseColumn(t[1], t[2])
  <2>1. PICK t \in U : c = ClickHouseColumn(t[1], t[2])
    BY <1>3
  <2> DEFINE type == t[1]
             digits == t[2]
  <2>2. \/ /\ type \in {"Int64", "Float64", "DateTime", "String", "UUID", "Array"}
           /\ digits = None
        \/ type = "Decimal" /\ digits \in 0..Scale
        \/ type = "DateTime64" /\ digits \in 0..Nano
    BY DEF U
  <2> HIDE DEF type, digits
  <2>3. LET d == ClickHouseColumn(type, digits) IN d.engine = "clickhouse" /\ HasKind(d)
    BY <2>2, ClickHouseKinds
  <2> QED
    BY <2>1, <2>3 DEF type, digits
<1>4. CASE \E t \in V : c = SnowflakeColumn(t[1], t[2])
  <2>1. PICK t \in V : c = SnowflakeColumn(t[1], t[2])
    BY <1>4
  <2> DEFINE type == t[1]
             digits == t[2]
  <2>2. \/ type \in {"FLOAT", "TEXT"} /\ digits = None
        \/ type = "NUMBER" /\ digits \in 0..Scale
        \/ type \in {"TIME", "TIMESTAMP_NTZ", "TIMESTAMP_TZ"} /\ digits \in 0..Nano
    BY DEF V
  <2> HIDE DEF type, digits
  <2>3. LET d == SnowflakeColumn(type, digits) IN d.engine = "snowflake" /\ HasKind(d)
    BY <2>2, SnowflakeKinds
  <2> QED
    BY <2>1, <2>3 DEF type, digits
<1> QED
  BY <1>1, <1>2, <1>3, <1>4

RuleOf(column) == PickRule(column.native)

Timed == {"TS_1", "TS_3", "TIME_1"}

LEMMA RuleOfColumn ==
  ASSUME NEW c \in Columns
  PROVE  /\ c.engine \in {"postgres", "clickhouse", "snowflake"}
         /\ RuleOf(c) \in {"INT_1", "DEC_1", "FLT_1", "UUID_1", "ARR_1", "STR_1"} \cup Timed
         /\ RuleOf(c) = "INT_1" => Digits(c, 0) = 0
         /\ RuleOf(c) = "DEC_1" => c.digits = None \/ c.digits \in 0..Scale
         /\ RuleOf(c) \in Timed => Digits(c, Micro) \in 0..Nano
         /\ RuleOf(c) = "TIME_1" <=> c.native = "time"
         /\ RuleOf(c) = "UUID_1" <=> c.native = "uuid"
         /\ c.native = "timestamptz[]" => RuleOf(c) = "TS_3"
         /\ RuleOf(c) = "TIME_1" => c.engine # "clickhouse"
         /\ RuleOf(c) \in {"UUID_1", "ARR_1"} => c.engine # "snowflake"
<1>1. c.engine \in {"postgres", "clickhouse", "snowflake"} /\ HasKind(c)
  BY ColumnKinds
<1>2. \A i \in 0..Nano : i # None
  BY NoneAssumption
<1>3. CASE Declares(c, {"bigint"}, {0, None})
  BY <1>1, <1>3, RulesOfTypes DEF Declares, RuleOf, Timed, Digits
<1>4. CASE Declares(c, {"numeric", "decimal"}, {None} \cup 0..Scale)
  <2>1. RuleOf(c) = "DEC_1" /\ c.native \in {"numeric", "decimal"}
    BY <1>4, RulesOfTypes DEF Declares, RuleOf
  <2>2. c.digits = None \/ c.digits \in 0..Scale
    BY <1>4 DEF Declares
  <2> QED
    BY <1>1, <2>1, <2>2 DEF Timed
<1>5. CASE Declares(c, {"double precision"}, {None})
  BY <1>1, <1>5, RulesOfTypes DEF Declares, RuleOf, Timed
<1>6. CASE Declares(c, {"time"}, 0..Nano) /\ c.engine # "clickhouse"
  BY <1>1, <1>2, <1>6, RulesOfTypes DEF Declares, RuleOf, Timed, Digits
<1>7. CASE Declares(c, Timestamps, 0..Nano)
  BY <1>1, <1>2, <1>7, RulesOfTypes DEF Declares, Timestamps, RuleOf, Timed, Digits
<1>8. CASE Declares(c, {"timestamptz[]"}, {None})
  BY <1>1, <1>8, RulesOfTypes, MicroDigits DEF Declares, RuleOf, Timed, Digits
<1>9. CASE Declares(c, {"uuid"}, {None}) /\ c.engine # "snowflake"
  BY <1>1, <1>9, RulesOfTypes DEF Declares, RuleOf, Timed
<1>10. CASE Declares(c, {"array[]", "text[]"}, {None}) /\ c.engine # "snowflake"
  BY <1>1, <1>10, RulesOfTypes DEF Declares, RuleOf, Timed
<1>11. CASE Declares(c, {"text"}, {None})
  BY <1>1, <1>11, RulesOfTypes DEF Declares, RuleOf, Timed
<1> QED
  BY <1>1, <1>3, <1>4, <1>5, <1>6, <1>7, <1>8, <1>9, <1>10, <1>11 DEF HasKind

(* The pairs that are compared, by their two rules.                         *)
KindsOfPair(r, q) ==
  \/ {r, q} \subseteq {"INT_1", "DEC_1", "FLT_1"}
  \/ {r, q} \subseteq {"TS_1", "TS_3"}
  \/ r = "TIME_1" /\ q = "TIME_1"
  \/ r = "UUID_1" /\ q = "UUID_1"
  \/ r = "UUID_1" /\ q = "STR_1"
  \/ r = "STR_1" /\ q = "UUID_1"
  \/ r = "STR_1" /\ q = "STR_1"
  \/ r = "ARR_1" /\ q = "ARR_1"

LEMMA PairKinds ==
  ASSUME NEW pair \in Pair
  PROVE  /\ pair.source \in Columns /\ pair.target \in Columns
         /\ pair.trim \in BOOLEAN /\ pair.lower \in BOOLEAN
         /\ pair.trim \/ pair.lower => RuleOf(pair.source) = "STR_1"
         /\ KindsOfPair(RuleOf(pair.source), RuleOf(pair.target))
<1> DEFINE r == RuleOf(pair.source)
           q == RuleOf(pair.target)
           Nine == {"INT_1", "DEC_1", "FLT_1", "UUID_1", "ARR_1", "STR_1"} \cup Timed
<1>1. /\ pair.source \in Columns /\ pair.target \in Columns
      /\ pair.trim \in BOOLEAN /\ pair.lower \in BOOLEAN
      /\ pair.trim \/ pair.lower => RuleOf(pair.source) = "STR_1"
      /\ Compatible(r, q)
  BY DEF Pair, RuleOf
<1>2. r \in Nine /\ q \in Nine
  BY <1>1, RuleOfColumn
<1> HIDE DEF r, q
<1>3. \A x \in Nine : Family(x) = IF x \in {"INT_1", "DEC_1", "FLT_1"} THEN "numeric"
                                  ELSE IF x = "STR_1" THEN "string"
                                  ELSE IF x \in {"TS_1", "TS_3"} THEN "timestamp" ELSE x
  BY DEF Family, Timed
<1>4. "UNK_1" \notin {r, q}
  BY <1>2 DEF Timed
<1>5. {Family(r), Family(q)} = {"UUID_1", "string"} \/ Family(r) = Family(q)
  BY <1>1, <1>4 DEF Compatible
<1>6. ASSUME Family(r) = Family(q) PROVE KindsOfPair(r, q)
  BY <1>2, <1>3, <1>6 DEF Timed, KindsOfPair
<1>7. ASSUME {Family(r), Family(q)} = {"UUID_1", "string"} PROVE KindsOfPair(r, q)
  <2>1. \/ Family(r) = "UUID_1" /\ Family(q) = "string"
        \/ Family(r) = "string" /\ Family(q) = "UUID_1"
    BY <1>7
  <2> QED
    BY <1>2, <1>3, <2>1 DEF Timed, KindsOfPair
<1> QED
  BY <1>1, <1>5, <1>6, <1>7 DEF r, q

-------------------------------------------------------------------------------
(* What it means of a pair, and of a value, that no departure is known.     *)
LEMMA PlainPair ==
  ASSUME NEW pair, KnownOfPair(pair) = {}
  PROVE  /\ ~("FLT_1" \in Rules(pair) /\ Rules(pair) # {"FLT_1"})
         /\ \A c \in {pair.source, pair.target} : ~(RuleOf(c) = "DEC_1" /\ c.digits = None)
         /\ Agreed(pair).rule = "TS_2" /\ Agreed(pair).digits < Micro
              => \A c \in {pair.source, pair.target} : c.engine # "snowflake"
<1> DEFINE A == "FLT_1" \in Rules(pair) /\ Rules(pair) # {"FLT_1"}
           B == \E c \in {pair.source, pair.target} : PickRule(c.native) = "DEC_1" /\ c.digits = None
           C == /\ Agreed(pair).rule = "TS_2" /\ Agreed(pair).digits < Micro
                /\ \E c \in {pair.source, pair.target} : c.engine = "snowflake"
           all == [float_against_fixed |-> A, undeclared_scale |-> B, snowflake_rounds_twice |-> C]
<1>1. Holding(all) = {}
  BY DEF KnownOfPair
<1>2. DOMAIN all = {"float_against_fixed", "undeclared_scale", "snowflake_rounds_twice"}
  OBVIOUS
<1>3. /\ all["float_against_fixed"] = A /\ all["undeclared_scale"] = B
      /\ all["snowflake_rounds_twice"] = C
  OBVIOUS
<1> HIDE DEF A, B, C, all
<1>4. ~A /\ ~B /\ ~C
  BY <1>1, <1>2, <1>3, Zenon DEF Holding
<1> QED
  BY <1>4 DEF A, B, C, RuleOf

Wide(pair, column, v) ==
  LET p == OwnDigits(column, Agreed(pair).digits, 0)
  IN  Round(Abs(v), Power(Scale - p)) >= Power(FormatDigits + p)

(* An array whose text may be another's, too. *)
OddArray(v) ==
  \/ v = << << >> >>
  \/ \E k \in DOMAIN v :
       v[k] # None /\ (v[k] = NullText \/ \E j \in DOMAIN v[k] : v[k][j] = ",")

LEMMA PlainValue ==
  ASSUME NEW pair, NEW column, NEW v, v # None, KnownOfValue(pair, column, v) = {}
  PROVE  LET rule  == RuleOf(column)
             final == FinalRule(pair, column)
         IN  /\ ~Refused(column, final)
             /\ rule = "DEC_1" /\ column.engine # "clickhouse" => ~Wide(pair, column, v)
             /\ rule = "FLT_1" /\ column.engine # "postgres" /\ v # 0
                  => /\ Mantissa(v, Round) # Power(Precise)
                     /\ Mantissa(v, Round) = Mantissa(v, HalfAway)
             /\ rule \in Timed => v % Power(Nano - Micro) = 0
             /\ rule \in Timed /\ column.engine = "clickhouse" => ~(v < 0)
             /\ ~(final = "UUID_1" /\ rule = "STR_1" /\ column.engine # "snowflake")
             /\ final = "STR_2" /\ pair.lower /\ column.engine = "clickhouse"
                  => \A k \in DOMAIN v : v[k] # "E'"
             /\ rule = "STR_1" /\ final # "UUID_1" /\ ~pair.lower
                  => (IF pair.trim THEN RTrim(v) ELSE v) # NullText
             /\ rule = "ARR_1" => ~OddArray(v)
<1> DEFINE rule == PickRule(column.native)
           final == FinalRule(pair, column)
           A == rule = "DEC_1" /\ column.engine # "clickhouse" /\ Wide(pair, column, v)
           B == /\ rule = "FLT_1" /\ column.engine # "postgres" /\ v # 0
                /\ \/ Mantissa(v, Round) = Power(Precise)
                   \/ Mantissa(v, Round) # Mantissa(v, HalfAway)
           C == rule \in Timed /\ v % Power(Nano - Micro) # 0
           D == rule \in Timed /\ column.engine = "clickhouse" /\ v < 0
           E == final = "UUID_1" /\ rule = "STR_1" /\ column.engine # "snowflake"
           F == /\ final = "STR_2" /\ pair.lower /\ column.engine = "clickhouse"
                /\ \E k \in DOMAIN v : v[k] = "E'"
           G == /\ rule = "STR_1" /\ final # "UUID_1" /\ ~pair.lower
                /\ (IF pair.trim THEN RTrim(v) ELSE v) = NullText
           H == rule = "ARR_1" /\ OddArray(v)
           all == [wide_decimal |-> A, float_rounding |-> B, nanoseconds_cut |-> C,
                   before_1970 |-> D, text_uuid |-> E, ascii_case_only |-> F,
                   null_marker |-> G, array_text |-> H]
<1>1. ~Refused(column, final) /\ Holding(all) = {}
  BY DEF KnownOfValue, Wide, Timed, OddArray
<1>2. DOMAIN all = {"wide_decimal", "float_rounding", "nanoseconds_cut", "before_1970",
                    "text_uuid", "ascii_case_only", "null_marker", "array_text"}
  OBVIOUS
<1>3. /\ all["wide_decimal"] = A /\ all["float_rounding"] = B /\ all["nanoseconds_cut"] = C
      /\ all["before_1970"] = D /\ all["text_uuid"] = E /\ all["ascii_case_only"] = F
      /\ all["null_marker"] = G /\ all["array_text"] = H
  OBVIOUS
<1> HIDE DEF A, B, C, D, E, F, G, H, all
<1>4. ~A /\ ~B /\ ~C /\ ~D /\ ~E /\ ~F /\ ~G /\ ~H
  BY <1>1, <1>2, <1>3, Zenon DEF Holding
<1>5. rule = RuleOf(column)
  BY DEF RuleOf
<1> HIDE DEF rule, final
<1>6. /\ rule = "DEC_1" /\ column.engine # "clickhouse" => ~Wide(pair, column, v)
      /\ rule = "FLT_1" /\ column.engine # "postgres" /\ v # 0
           => /\ Mantissa(v, Round) # Power(Precise)
              /\ Mantissa(v, Round) = Mantissa(v, HalfAway)
  BY <1>4, Zenon DEF A, B
<1>7. /\ rule \in Timed => v % Power(Nano - Micro) = 0
      /\ rule \in Timed /\ column.engine = "clickhouse" => ~(v < 0)
      /\ ~(final = "UUID_1" /\ rule = "STR_1" /\ column.engine # "snowflake")
  BY <1>4, Zenon DEF C, D, E
<1>8. /\ final = "STR_2" /\ pair.lower /\ column.engine = "clickhouse"
           => \A k \in DOMAIN v : v[k] # "E'"
      /\ rule = "STR_1" /\ final # "UUID_1" /\ ~pair.lower
           => (IF pair.trim THEN RTrim(v) ELSE v) # NullText
  BY <1>4, Zenon DEF F, G
<1>9. rule = "ARR_1" => ~OddArray(v)
  BY <1>4, Zenon DEF H
<1> QED
  BY <1>1, <1>5, <1>6, <1>7, <1>8, <1>9, Zenon DEF final

-------------------------------------------------------------------------------
(* A text that is compared, and the null marker, which no other text is.    *)
LEMMA NullTextIs == NullText[1] = "\\" /\ NullText[2] = "N" /\ DOMAIN NullText = 1..2
BY DEF NullText

(* Integers and decimals: both sides print the number at the lower scale,   *)
(* rounded half to even, and the number they print is the meaning.          *)
CommonScale(pair) == Lesser(FixedScale(pair.source), FixedScale(pair.target))

Rescaled(pair, v) == Round(v, Power(Scale - CommonScale(pair)))

LEMMA ScaleOfPair ==
  ASSUME NEW pair \in Pair, KnownOfPair(pair) = {},
         RuleOf(pair.source) \in {"INT_1", "DEC_1"}, RuleOf(pair.target) \in {"INT_1", "DEC_1"}
  PROVE  /\ Agreed(pair).rule = None
         /\ CommonScale(pair) \in 0..Scale
         /\ "INT_1" \in {RuleOf(pair.source), RuleOf(pair.target)} => CommonScale(pair) = 0
         /\ "DEC_1" \in {RuleOf(pair.source), RuleOf(pair.target)}
              => Agreed(pair).digits = CommonScale(pair)
<1> DEFINE s == pair.source
           t == pair.target
           a == FixedScale(s)
           b == FixedScale(t)
<1>1. s \in Columns /\ t \in Columns
  BY PairKinds
<1>2. \A c \in {s, t} : /\ FixedScale(c) \in 0..Scale /\ FixedScale(c) = Digits(c, 0)
                        /\ RuleOf(c) = "INT_1" => FixedScale(c) = 0
  <2> SUFFICES ASSUME NEW c \in {s, t}
               PROVE  /\ FixedScale(c) \in 0..Scale /\ FixedScale(c) = Digits(c, 0)
                      /\ RuleOf(c) = "INT_1" => FixedScale(c) = 0
    OBVIOUS
  <2>1. c \in Columns /\ RuleOf(c) \in {"INT_1", "DEC_1"}
    BY <1>1
  <2>2. CASE RuleOf(c) = "INT_1"
    <3>1. Digits(c, 0) = 0
      BY <2>1, <2>2, RuleOfColumn
    <3> QED
      BY <2>2, <3>1, CanonicalAssumption DEF FixedScale, RuleOf
  <2>3. CASE RuleOf(c) = "DEC_1"
    <3>1. c.digits # None /\ c.digits \in 0..Scale
      BY <2>1, <2>3, RuleOfColumn, PlainPair
    <3> QED
      BY <2>3, <3>1 DEF FixedScale, RuleOf, Digits
  <2> QED
    BY <2>1, <2>2, <2>3
<1>3. /\ a \in 0..Scale /\ b \in 0..Scale /\ a = Digits(s, 0) /\ b = Digits(t, 0)
      /\ "INT_1" \in {RuleOf(s), RuleOf(t)} => a = 0 \/ b = 0
  BY <1>2
<1>4. /\ Agreed(pair).rule = None
      /\ "DEC_1" \in {RuleOf(s), RuleOf(t)}
           => Agreed(pair).digits = Lesser(Digits(s, 0), Digits(t, 0))
  BY DEF Agreed, Negotiate, RuleOf, Family, SharesScale
<1> HIDE DEF a, b
<1>5. /\ Lesser(a, b) \in 0..Scale
      /\ "INT_1" \in {RuleOf(s), RuleOf(t)} => Lesser(a, b) = 0
  BY <1>3 DEF Lesser
<1> QED
  BY <1>3, <1>4, <1>5 DEF CommonScale, a, b

LEMMA DecimalText ==
  ASSUME NEW v \in Int, NEW p \in 0..Scale
  PROVE  LET r == Round(v, Power(Scale - p))
         IN  /\ r \in Int
             /\ ClickHouseDec1(v, p) = Fixed(r < 0, Abs(r), p)
             /\ ~(Round(Abs(v), Power(Scale - p)) >= Power(FormatDigits + p))
                  => /\ PostgresDec1(v, p) = Fixed(r < 0, Abs(r), p)
                     /\ SnowflakeDec1(v, p) = Fixed(r < 0, Abs(r), p)
<1> DEFINE u == Power(Scale - p)
           r == Round(v, u)
<1>1. u \in Nat \ {0} /\ p \in Nat
  <2> DEFINE k == Scale - p
  <2>1. k \in Nat /\ p \in Nat
    BY CanonicalAssumption
  <2> HIDE DEF k
  <2>2. Power(k) \in Nat \ {0}
    BY <2>1, PowerExceeds
  <2> QED
    BY <2>1, <2>2 DEF k
<1> HIDE DEF u
<1>2. r \in Int /\ Round(Abs(v), u) = Abs(r) /\ Banker(v, u) = r
  BY <1>1, RoundAbs, HalfEven
<1> HIDE DEF r
<1>3. Abs(r) \in Nat
  BY <1>2 DEF Abs
<1>4. LeftPad(Abs(r), TargetLength(Abs(r), p)) = Abs(r)
  BY <1>1, <1>3, PadKeeps
<1>5. ClickHouseDec1(v, p) = Fixed(r < 0, Abs(r), p)
  BY <1>2, <1>4 DEF ClickHouseDec1, u
<1>6. /\ PostgresDec1(v, p) = ToChar(r, p) /\ SnowflakeDec1(v, p) = ToChar(r, p)
  BY <1>2 DEF PostgresDec1, SnowflakeDec1, u, r
<1>7. ~(Abs(r) >= Power(FormatDigits + p)) => ToChar(r, p) = Fixed(r < 0, Abs(r), p)
  BY DEF ToChar
<1> QED
  BY <1>2, <1>5, <1>6, <1>7 DEF u, r

LEMMA IntegerText ==
  ASSUME NEW v \in Int, v % Power(Scale) = 0
  PROVE  LET r == Round(v, Power(Scale))
         IN  r \in Int /\ Fixed(v < 0, Abs(v) \div Power(Scale), 0) = Fixed(r < 0, Abs(r), 0)
<1> DEFINE u == Power(Scale)
           x == v \div u
           y == -x
           w == u * x
<1>1. u \in Nat \ {0}
  BY CanonicalAssumption, PowerExceeds
<1> HIDE DEF u
<1>2. x \in Int /\ v = w
  <2>1. v \div u \in Int /\ v = u * (v \div u) + (v % u) /\ v % u = 0
    BY <1>1, DivMod DEF u
  <2>2. w \in Int
    BY <1>1, <2>1
  <2> QED
    BY <2>1, <2>2
<1> HIDE DEF x
<1>3. Round(w, u) = x
  BY <1>1, <1>2, RoundExact
<1>4. y \in Int /\ u * y = -w /\ w \in Int
  BY <1>1, <1>2
<1>5. x < 0 => w < 0
  BY <1>1, <1>2
<1>6. x >= 0 => w >= 0
  BY <1>1, <1>2
<1> HIDE DEF w, y
<1>7. w \div u = x /\ (-w) \div u = y
  <2> DEFINE m == -w
  <2>1. w = u * x
    BY DEF w
  <2>2. m = u * y /\ m \in Int
    BY <1>4
  <2> HIDE DEF m
  <2>3. w \div u = x /\ m \div u = y
    BY <1>1, <1>2, <1>4, <2>1, <2>2, QuotientIs, QuotientBetween
  <2> QED
    BY <2>3 DEF m
<1>8. (w < 0) = (x < 0) /\ Abs(w) \div u = Abs(x)
  BY <1>2, <1>4, <1>5, <1>6, <1>7 DEF Abs, y
<1> QED
  BY <1>2, <1>3, <1>8 DEF u

Columns2(pair) == {pair.source, pair.target}

(* The text of a value is what the engine of its column prints.             *)
LEMMA EngineText ==
  ASSUME NEW pair, NEW column, NEW v, v # None, ~Refused(column, FinalRule(pair, column))
  PROVE  LET rule   == FinalRule(pair, column)
             digits == Agreed(pair).digits
         IN  /\ column.engine = "postgres"
                  => Text(pair, column, v) = PostgresExpr(column, rule, digits, pair, v)
             /\ column.engine = "clickhouse"
                  => Text(pair, column, v) = ClickHouseExpr(column, rule, digits, pair, v)
             /\ column.engine = "snowflake"
                  => Text(pair, column, v) = SnowflakeExpr(column, rule, digits, pair, v)
BY DEF Text, NormaliseExpr

LEMMA NumberHeld ==
  ASSUME NEW column \in Columns, NEW v \in Holds(column), v # None,
         RuleOf(column) \in {"INT_1", "DEC_1", "FLT_1"}
  PROVE  v \in Int /\ (RuleOf(column) = "INT_1" => v % Power(Scale) = 0)
BY ValuesAssumption DEF Holds, RuleOf

LEMMA NumberText ==
  ASSUME NEW pair \in Pair, KnownOfPair(pair) = {},
         RuleOf(pair.source) \in {"INT_1", "DEC_1"}, RuleOf(pair.target) \in {"INT_1", "DEC_1"},
         NEW column \in Columns2(pair), NEW v \in Holds(column), v # None,
         KnownOfValue(pair, column, v) = {}
  PROVE  LET r == Rescaled(pair, v)
         IN  /\ r \in Int
             /\ Text(pair, column, v) = Fixed(r < 0, Abs(r), CommonScale(pair))
             /\ Meaning(pair, v) = << "dec", r >>
<1> DEFINE p == CommonScale(pair)
           r == Rescaled(pair, v)
           text == Fixed(r < 0, Abs(r), p)
           rule == RuleOf(column)
           digits == Agreed(pair).digits
<1>1. column \in Columns /\ rule \in {"INT_1", "DEC_1"}
  BY PairKinds DEF Columns2
<1>2. v \in Int /\ (rule = "INT_1" => v % Power(Scale) = 0)
  BY <1>1, NumberHeld
<1>3. /\ FinalRule(pair, column) = rule /\ p \in 0..Scale
      /\ rule = "INT_1" => p = 0
      /\ rule = "DEC_1" => digits = p
  BY ScaleOfPair DEF FinalRule, RuleOf, Columns2
<1>4. column.engine \in {"postgres", "clickhouse", "snowflake"}
  BY <1>1, RuleOfColumn
<1>5. ~Refused(column, rule)
  BY <1>1 DEF Refused
<1>6. Meaning(pair, v) = << "dec", r >>
  <2> DEFINE rules == Rules(pair)
  <2>1. /\ rules # {"FLT_1"} /\ "FLT_1" \notin rules /\ "UUID_1" \notin rules
        /\ ~(rules \subseteq {"TS_1", "TS_3"}) /\ rules # {"TIME_1"}
        /\ rules # {"STR_1"} /\ rules # {"ARR_1"} /\ rules \subseteq {"INT_1", "DEC_1"}
    BY DEF Rules, RuleOf
  <2> HIDE DEF rules
  <2> QED
    BY <2>1 DEF Meaning, Rescaled, CommonScale, rules
<1>7. r \in Int
  <2>1. LET q == Round(v, Power(Scale - p)) IN q \in Int
    BY <1>2, <1>3, DecimalText
  <2> QED
    BY <2>1 DEF Rescaled
<1>8. CASE rule = "INT_1"
  <2>1. Text(pair, column, v) = Fixed(v < 0, Abs(v) \div Power(Scale), 0)
    BY <1>3, <1>4, <1>5, <1>8, EngineText DEF PostgresExpr, ClickHouseExpr, SnowflakeExpr
  <2>2. p = 0 /\ Scale - 0 = Scale
    BY <1>3, <1>8, CanonicalAssumption
  <2>3. LET q == Round(v, Power(Scale)) IN
          Fixed(v < 0, Abs(v) \div Power(Scale), 0) = Fixed(q < 0, Abs(q), 0)
    BY <1>2, <1>8, IntegerText
  <2>4. r = Round(v, Power(Scale))
    BY <2>2 DEF Rescaled
  <2> QED
    BY <1>6, <1>7, <2>1, <2>2, <2>3, <2>4
<1>9. CASE rule = "DEC_1"
  <2>1. digits = p /\ digits # None /\ OwnDigits(column, digits, 0) = p
    BY <1>3, <1>9, NoneAssumption DEF OwnDigits
  <2>2. /\ column.engine = "postgres" => Text(pair, column, v) = PostgresDec1(v, p)
        /\ column.engine = "clickhouse" => Text(pair, column, v) = ClickHouseDec1(v, p)
        /\ column.engine = "snowflake" => Text(pair, column, v) = SnowflakeDec1(v, p)
    BY <1>3, <1>5, <1>9, <2>1, EngineText DEF PostgresExpr, ClickHouseExpr, SnowflakeExpr
  <2>3. column.engine # "clickhouse"
          => ~(Round(Abs(v), Power(Scale - p)) >= Power(FormatDigits + p))
    BY <1>9, <2>1, PlainValue DEF Wide
  <2>4. LET q == Round(v, Power(Scale - p))
        IN  /\ ClickHouseDec1(v, p) = Fixed(q < 0, Abs(q), p)
            /\ ~(Round(Abs(v), Power(Scale - p)) >= Power(FormatDigits + p))
                 => /\ PostgresDec1(v, p) = Fixed(q < 0, Abs(q), p)
                    /\ SnowflakeDec1(v, p) = Fixed(q < 0, Abs(q), p)
    BY <1>2, <1>3, DecimalText
  <2>5. Text(pair, column, v) = text
    BY <1>4, <2>2, <2>3, <2>4 DEF Rescaled
  <2> QED
    BY <1>6, <1>7, <2>5
<1> QED
  BY <1>1, <1>8, <1>9

(* Two values that no departure concerns: they have one text when they have *)
(* one meaning; a value is never taken for NULL.                            *)
Plainly(pair, column, v) ==
  /\ column \in Columns2(pair) /\ v \in Holds(column)
  /\ KnownOfPair(pair) = {} /\ KnownOfValue(pair, column, v) = {}

NotNull(pair, column, v) == Meaning(pair, v) # << "null" >> /\ Text(pair, column, v) # NullText

Agrees(pair, v, w) ==
  Meaning(pair, v) = Meaning(pair, w)
    <=> Text(pair, pair.source, v) = Text(pair, pair.target, w)

LEMMA TextsApart ==
  /\ \A a, b, c, d : << "dec", a, b, c, d >> # NullText
  /\ \A a, b, c : << "flt", a, b, c >> # NullText
  /\ \A a, b, c, d : << "time", a, b, c, d >> # NullText
  /\ \A a, b, c : << "uuid", a, b, c >> # NullText
  /\ \A a : << "dec", a >> # << "null" >> /\ << "time", a >> # << "null" >>
            /\ << "uuid", a >> # << "null" >> /\ << "str", a >> # << "null" >>
            /\ << "array", a >> # << "null" >>
  /\ \A a, b : << "uuid", a >> # << "str", b >>
  /\ \A a, b, c : << "flt", a, b, c >> # << "null" >>
BY DEF NullText

LEMMA NumbersAgree ==
  ASSUME NEW pair \in Pair,
         RuleOf(pair.source) \in {"INT_1", "DEC_1"}, RuleOf(pair.target) \in {"INT_1", "DEC_1"}
  PROVE  /\ \A column, v : v # None /\ Plainly(pair, column, v) => NotNull(pair, column, v)
         /\ \A v, w : /\ v # None /\ Plainly(pair, pair.source, v)
                      /\ w # None /\ Plainly(pair, pair.target, w)
                      => Agrees(pair, v, w)
<1>1. ASSUME NEW column, NEW v, v # None, Plainly(pair, column, v)
      PROVE  LET r == Rescaled(pair, v)
             IN  /\ r \in Int /\ CommonScale(pair) \in 0..Scale
                 /\ Text(pair, column, v) = Fixed(r < 0, Abs(r), CommonScale(pair))
                 /\ Meaning(pair, v) = << "dec", r >>
  BY <1>1, NumberText, ScaleOfPair DEF Plainly
<1>2. ASSUME NEW column, NEW v, v # None, Plainly(pair, column, v)
      PROVE  NotNull(pair, column, v)
  BY <1>1, <1>2, TextsApart, Zenon DEF NotNull, Fixed
<1>3. ASSUME NEW v, NEW w, v # None, Plainly(pair, pair.source, v),
             w # None, Plainly(pair, pair.target, w)
      PROVE  Agrees(pair, v, w)
  <2> DEFINE p == CommonScale(pair)
             m == Rescaled(pair, v)
             n == Rescaled(pair, w)
  <2>1. /\ m \in Int /\ p \in Nat
        /\ Text(pair, pair.source, v) = Fixed(m < 0, Abs(m), p) /\ Meaning(pair, v) = << "dec", m >>
    BY <1>1, <1>3, CanonicalAssumption
  <2>2. /\ n \in Int
        /\ Text(pair, pair.target, w) = Fixed(n < 0, Abs(n), p) /\ Meaning(pair, w) = << "dec", n >>
    BY <1>1, <1>3
  <2> HIDE DEF p, m, n
  <2>3. Fixed(m < 0, Abs(m), p) = Fixed(n < 0, Abs(n), p) => m = n
    BY <2>1, <2>2, FixedApart
  <2>4. << "dec", m >> = << "dec", n >> => m = n
    OBVIOUS
  <2> QED
    BY <2>1, <2>2, <2>3, <2>4, Zenon DEF Agrees
<1> QED
  BY <1>2, <1>3, Zenon

(* Floats: what is not known to depart has PostgreSQL's text.               *)
LEMMA FloatsAgree ==
  ASSUME NEW pair \in Pair, RuleOf(pair.source) = "FLT_1", RuleOf(pair.target) = "FLT_1"
  PROVE  /\ \A column, v : v # None /\ Plainly(pair, column, v) => NotNull(pair, column, v)
         /\ \A v, w : /\ v # None /\ Plainly(pair, pair.source, v)
                      /\ w # None /\ Plainly(pair, pair.target, w)
                      => Agrees(pair, v, w)
<1>1. ASSUME NEW column, NEW v, v # None, Plainly(pair, column, v)
      PROVE  Text(pair, column, v) = PostgresFlt1(v) /\ Meaning(pair, v) = PostgresFlt1(v)
  <2>1. /\ column \in Columns /\ RuleOf(column) = "FLT_1"
        /\ column.engine \in {"postgres", "clickhouse", "snowflake"}
    BY <1>1, PairKinds, RuleOfColumn DEF Plainly, Columns2
  <2>2. Agreed(pair).rule = None
    BY DEF Agreed, Negotiate, RuleOf, Family
  <2>3. FinalRule(pair, column) = "FLT_1"
    BY <2>1, <2>2 DEF FinalRule, RuleOf
  <2>4. /\ column.engine = "postgres" => Text(pair, column, v) = PostgresFlt1(v)
        /\ column.engine = "clickhouse" => Text(pair, column, v) = ClickHouseFlt1(v)
        /\ column.engine = "snowflake" => Text(pair, column, v) = SnowflakeFlt1(v)
    BY <1>1, <2>3, EngineText DEF PostgresExpr, ClickHouseExpr, SnowflakeExpr, Refused
  <2>5. column.engine # "postgres" /\ v # 0
          => Mantissa(v, Round) # Power(Precise) /\ Mantissa(v, Round) = Mantissa(v, HalfAway)
    BY <1>1, <2>1, PlainValue DEF Plainly
  <2>6. column.engine # "postgres"
          => PostgresFlt1(v) = ClickHouseFlt1(v) /\ PostgresFlt1(v) = SnowflakeFlt1(v)
    BY <2>5, Zenon DEF PostgresFlt1, ClickHouseFlt1, SnowflakeFlt1, FloatText
  <2>7. Rules(pair) = {"FLT_1"}
    BY DEF Rules, RuleOf
  <2>8. Meaning(pair, v) = PostgresFlt1(v)
    BY <1>1, <2>7 DEF Meaning
  <2> QED
    BY <2>1, <2>4, <2>6, <2>8
<1>2. ASSUME NEW column, NEW v, v # None, Plainly(pair, column, v)
      PROVE  NotNull(pair, column, v)
  <2>1. \E a, b, c : PostgresFlt1(v) = << "flt", a, b, c >>
    BY Zenon DEF PostgresFlt1, FloatText
  <2> QED
    BY <1>1, <1>2, <2>1, TextsApart, Zenon DEF NotNull
<1>3. ASSUME NEW v, NEW w, v # None, Plainly(pair, pair.source, v),
             w # None, Plainly(pair, pair.target, w)
      PROVE  Agrees(pair, v, w)
  BY <1>1, <1>3, Zenon DEF Agrees
<1> QED
  BY <1>2, <1>3, Zenon

-------------------------------------------------------------------------------
(* Times.                                                                    *)
LEMMA MultipleOf ==
  ASSUME NEW u \in Nat \ {0}, NEW d \in Nat \ {0}, NEW t \in Int
  PROVE  /\ u * d \in Nat \ {0} /\ u * t \in Int
         /\ (u * t) \div (u * d) = t \div d
         /\ (u * t) % (u * d) = u * (t % d)
<1> DEFINE q == t \div d
           r == t % d
           e == u * d
           s == u * r
           a == u * t
<1>1. q \in Int /\ r \in 0..(d - 1) /\ t = d * q + r
  BY DivMod
<1> HIDE DEF q, r
<1>2. e \in Nat \ {0} /\ a \in Int /\ s \in Int
  BY <1>1
<1>3. a = e * q + s
  BY <1>1
<1>4. s \in 0..(e - 1)
  <2>1. u * 0 <= u * r /\ u * r <= u * (d - 1)
    BY <1>1, Scaled
  <2>2. u * (d - 1) = e - u /\ u * 0 = 0
    OBVIOUS
  <2> QED
    BY <1>2, <2>1, <2>2
<1> HIDE DEF e, s, a
<1>5. a \div e = q /\ a % e = s
  BY <1>1, <1>2, <1>3, <1>4, QuotientIs
<1> QED
  BY <1>2, <1>5 DEF a, e, s, q, r

OneOrEven(u) == u = 1 \/ \E h \in Nat : u = 2 * h

LEMMA Units ==
  ASSUME NEW p \in 0..Micro
  PROVE  /\ p \in Nat /\ Power(p) \in Nat \ {0}
         /\ Unit(p) \in Nat \ {0} /\ Power(Nano - Micro) \in Nat \ {0}
         /\ OneOrEven(Unit(p))
         /\ p = Micro => Unit(p) = 1
         /\ Second = Unit(p) * Power(p)
         /\ Power(Nano - p) = Power(Nano - Micro) * Unit(p)
<1> DEFINE k == Micro - p
           j == Nano - Micro
<1>1. /\ p \in Nat /\ k \in Nat /\ j \in Nat /\ k + p = Micro /\ j + k = Nano - p
      /\ (p = Micro => k = 0)
  BY CanonicalAssumption
<1> HIDE DEF k, j
<1>2. Power(p) \in Nat \ {0} /\ Power(k) \in Nat \ {0} /\ Power(j) \in Nat \ {0}
  BY <1>1, PowerExceeds
<1>3. OneOrEven(Power(k))
  <2>1. CASE k = 0
    BY <2>1, PowerNext DEF OneOrEven
  <2>2. CASE k # 0
    <3> DEFINE i == k - 1
    <3>1. i \in Nat /\ i + 1 = k
      BY <1>1, <2>2
    <3> HIDE DEF i
    <3> DEFINE x == Power(i)
               half == Ten \div 2
    <3>2. x \in Nat /\ Power(k) = Ten * x
      BY <3>1, PowerExceeds, PowerNext
    <3>3. half \in Nat /\ Ten = 2 * half
      BY CanonicalAssumption
    <3> HIDE DEF x, half
    <3>4. half * x \in Nat /\ Power(k) = 2 * (half * x)
      BY <3>2, <3>3
    <3> QED
      BY <3>4 DEF OneOrEven
  <2> QED
    BY <2>1, <2>2
<1>4. Power(k + p) = Power(k) * Power(p) /\ Power(j + k) = Power(j) * Power(k)
  BY <1>1, PowerSum
<1>5. k = 0 => Power(k) = 1
  BY PowerNext
<1>6. Unit(p) = Power(k) /\ Second = Power(k + p) /\ Power(Nano - p) = Power(j + k)
  BY <1>1, Zenon DEF Unit, Second, k
<1> QED
  BY <1>1, <1>2, <1>3, <1>4, <1>5, <1>6, Zenon DEF j

(* Half a unit is added before a time is cut to a unit.                     *)
Product(a, n, m) == a = n * m

HalfUp(m, unit) == (m + unit \div 2) \div unit

LEMMA HalfUnit ==
  ASSUME NEW n \in Nat \ {0}, NEW u \in Nat \ {0}, OneOrEven(u), NEW m \in Int,
         NEW v, NEW unit, Product(v, n, m), Product(unit, n, u)
  PROVE  /\ HalfUp(v, unit) = HalfUp(m, u)
         /\ HalfUp(m, u) \in Int
         /\ m >= 0 => HalfUp(m, u) >= 0
         /\ \A t \in Int : Product(m, u, t) => HalfUp(m, u) = t
<1> DEFINE h == u \div 2
<1>1. h \in 0..(u - 1) /\ (u = 1 => h = 0) /\ (u # 1 => u = 2 * h)
  BY DEF OneOrEven
<1> HIDE DEF h
<1> DEFINE b == m + h
<1>2. b \in Int /\ (m >= 0 => b >= 0)
  BY <1>1
<1> DEFINE k == b \div u
           c == n * m + (n * u) \div 2
<1>3. k \in Int /\ (m >= 0 => k >= 0)
  <2> HIDE DEF b
  <2>1. k \in Int
    BY <1>2, DivMod
  <2>2. 0 <= b => 0 <= k
    BY <1>2
  <2> QED
    BY <1>2, <2>1, <2>2
<1>4. c \div (n * u) = k
  <2>1. CASE u = 1
    <3> DEFINE e == n * m
               r == n \div 2
    <3>1. n * u = n /\ h = 0 /\ b = m
      BY <1>1, <2>1
    <3>2. e \in Int /\ r \in 0..(n - 1) /\ c = e + r
      BY <3>1
    <3> HIDE DEF c
    <3>3. c \in Int /\ c = n * m + r
      BY <3>2
    <3> HIDE DEF r
    <3>4. c \div n = m
      BY <3>2, <3>3, QuotientIs
    <3>5. m \div 1 = m
      OBVIOUS
    <3> QED
      BY <2>1, <3>1, <3>4, <3>5
  <2>2. CASE u # 1
    <3> DEFINE g == n * h
    <3>1. n * u = 2 * g /\ g \in Int /\ n * b = n * m + g
      BY <1>1, <2>2
    <3> HIDE DEF g
    <3>2. (n * u) \div 2 = g
      BY <3>1
    <3>3. c = n * b
      BY <3>1, <3>2
    <3> HIDE DEF b, c
    <3>4. (n * b) \div (n * u) = b \div u
      BY <1>2, MultipleOf
    <3> QED
      BY <3>3, <3>4
  <2> QED
    BY <2>1, <2>2
<1>5. ASSUME NEW t \in Int, Product(m, u, t) PROVE k = t
  <2>1. b = u * t + h
    BY <1>5 DEF Product
  <2> HIDE DEF b
  <2> QED
    BY <1>1, <1>2, <2>1, QuotientIs
<1>6. HalfUp(v, unit) = c \div (n * u) /\ HalfUp(m, u) = k
  BY DEF HalfUp, Product, h
<1> HIDE DEF k, c
<1> QED
  BY <1>3, <1>4, <1>5, <1>6, Zenon

(* A whole number of units is printed as itself, at that precision.         *)
LEMMA UnitsOf ==
  ASSUME NEW u \in Nat \ {0}, NEW d \in Nat \ {0}, NEW t \in Int
  PROVE  (u * t) \div (u * d) = t \div d /\ ((u * t) % (u * d)) \div u = t % d
<1> DEFINE r == t % d
           a == u * r
<1>1. r \in Int
  BY DivMod
<1>2. (u * t) \div (u * d) = t \div d
  BY MultipleOf, ZenonT(60)
<1>3. (u * t) % (u * d) = u * (t % d)
  BY MultipleOf, ZenonT(60)
<1> HIDE DEF r
<1>4. a \in Int
  BY <1>1
<1>5. a \div u = r
  BY <1>1, <1>4, QuotientBetween
<1> QED
  BY <1>2, <1>5 DEF r

LEMMA ClockIs ==
  ASSUME NEW p \in 0..Micro, NEW t \in Int
  PROVE  Clock(Unit(p) * t, p) = TimeText(t \div Power(p), p, FALSE, t % Power(p))
<1> DEFINE u == Unit(p)
           d == Power(p)
<1>1. u \in Nat \ {0} /\ d \in Nat \ {0} /\ Second = u * d
  BY Units
<1>2. Clock(u * t, p) = TimeText((u * t) \div (u * d), p, FALSE, ((u * t) % (u * d)) \div u)
  BY <1>1 DEF Clock
<1> HIDE DEF u, d
<1>3. (u * t) \div (u * d) = t \div d /\ ((u * t) % (u * d)) \div u = t % d
  BY <1>1, UnitsOf
<1> QED
  BY <1>2, <1>3 DEF u, d

LEMMA ClockApart ==
  ASSUME NEW p \in 0..Micro, NEW s \in Int, NEW t \in Int,
         Clock(Unit(p) * s, p) = Clock(Unit(p) * t, p)
  PROVE  s = t
<1> DEFINE d == Power(p)
<1>1. d \in Nat \ {0}
  BY Units
<1>2. TimeText(s \div d, p, FALSE, s % d) = TimeText(t \div d, p, FALSE, t % d)
  BY ClockIs
<1>3. s \div d = t \div d /\ s % d = t % d
  BY <1>2 DEF TimeText
<1> HIDE DEF d
<1>4. s = d * (s \div d) + (s % d) /\ t = d * (t \div d) + (t % d)
  BY <1>1, DivMod
<1> QED
  BY <1>3, <1>4

(* ClickHouse prints an instant that is not before 1970 as the others do.   *)
LEMMA ClockSince1970 ==
  ASSUME NEW m \in Nat, NEW p
  PROVE  ClickHouseClock(m, p) = Clock(m, p)
<1>1. Second \in Nat \ {0}
  BY CanonicalAssumption, PowerExceeds DEF Second
<1> DEFINE r == m % Second
<1>2. r \in Nat
  BY <1>1
<1>3. SqlMod(m, Second) = r
  BY DEF SqlMod
<1> HIDE DEF r
<1>4. (r < 0) = FALSE /\ Abs(r) = r
  BY <1>2 DEF Abs
<1>5. ClickHouseClock(m, p) = TimeText(m \div Second, p, FALSE, r \div Unit(p))
  BY <1>3, <1>4 DEF ClickHouseClock
<1> QED
  BY <1>5 DEF Clock, r

-------------------------------------------------------------------------------
(* The precision both columns of a pair of times have, the time of a value  *)
(* at that precision, and the precision its text is printed with.           *)
CommonPrecision(pair) == Lesser(CommonDigits(pair, Micro), Micro)

TimeOf(pair, v) ==
  LET p == CommonPrecision(pair)
      k == HalfUp(v, Power(Nano - p))
  IN  IF RuleOf(pair.source) = "TIME_1" THEN k % (Day * Power(p)) ELSE k

PrintedAt(pair) == IF Agreed(pair).rule = "TS_2" THEN CommonPrecision(pair) ELSE Micro

TimedPair(pair) ==
  \/ RuleOf(pair.source) \in {"TS_1", "TS_3"} /\ RuleOf(pair.target) \in {"TS_1", "TS_3"}
  \/ RuleOf(pair.source) = "TIME_1" /\ RuleOf(pair.target) = "TIME_1"

LEMMA PrecisionOfPair ==
  ASSUME NEW pair \in Pair, TimedPair(pair)
  PROVE  LET s == Digits(pair.source, Micro)
             t == Digits(pair.target, Micro)
         IN  /\ CommonPrecision(pair) \in 0..Micro /\ CommonDigits(pair, Micro) \in 0..Nano
             /\ s # t => /\ Agreed(pair).rule = "TS_2"
                         /\ Agreed(pair).digits = CommonDigits(pair, Micro)
             /\ s = t => Agreed(pair).rule = None /\ CommonDigits(pair, Micro) = s
<1> DEFINE s == Digits(pair.source, Micro)
           t == Digits(pair.target, Micro)
<1>1. s \in 0..Nano /\ t \in 0..Nano
  <2>1. /\ pair.source \in Columns /\ pair.target \in Columns
        /\ RuleOf(pair.source) \in Timed /\ RuleOf(pair.target) \in Timed
    BY PairKinds DEF TimedPair, Timed
  <2> QED
    BY <2>1, RuleOfColumn
<1>2. LET timed == {Family(PickRule(pair.source.native)), Family(PickRule(pair.target.native))}
                     \cap {"timestamp", "TIME_1"} # {}
      IN  timed = TRUE
  BY DEF TimedPair, RuleOf, Family
<1>3. /\ s # t => /\ Agreed(pair).rule = "TS_2"
                  /\ Agreed(pair).digits = Lesser(s, t)
      /\ s = t => Agreed(pair).rule = None
  BY <1>2 DEF Agreed, Negotiate, TimedPair, RuleOf, Family
<1>4. CommonDigits(pair, Micro) = Lesser(s, t)
  BY DEF CommonDigits
<1> HIDE DEF s, t
<1>5. Lesser(s, t) \in 0..Nano /\ (s = t => Lesser(s, t) = s)
  BY <1>1 DEF Lesser
<1>6. CommonPrecision(pair) \in 0..Micro
  BY <1>4, <1>5, CanonicalAssumption DEF CommonPrecision, Lesser
<1> QED
  BY <1>3, <1>4, <1>5, <1>6 DEF s, t

LEMMA TimeHeld ==
  ASSUME NEW column \in Columns, NEW v \in Holds(column), v # None, RuleOf(column) \in Timed
  PROVE  v \in Int /\ v % Power(Nano - Digits(column, Micro)) = 0
BY ValuesAssumption DEF Holds, RuleOf, Timed

(* In microseconds the value is a whole number of units, if the precision   *)
(* is its own, and becomes one when it is rounded.                          *)
LEMMA TimeUnits ==
  ASSUME NEW v \in Int, v % Power(Nano - Micro) = 0, NEW p \in 0..Micro
  PROVE  LET k == HalfUp(v, Power(Nano - p))
         IN  /\ k \in Int /\ Microseconds(v) \in Int
             /\ v >= 0 => k >= 0
             /\ Rounded(Microseconds(v), p) = Unit(p) * k
             /\ v % Power(Nano - p) = 0 => Microseconds(v) = Unit(p) * k
<1> DEFINE n == Power(Nano - Micro)
           u == Unit(p)
           m == v \div n
           k == HalfUp(m, u)
           e == Power(Nano - p)
<1>1. /\ n \in Nat \ {0} /\ u \in Nat \ {0} /\ e = n * u
      /\ OneOrEven(u)
  BY Units
<1>2. Microseconds(v) = m /\ Rounded(Microseconds(v), p) = k * u
  BY DEF Microseconds, Rounded, HalfUp
<1>3. v % n = 0
  OBVIOUS
<1> HIDE DEF n, u, e
<1>4. m \in Int /\ v = n * m
  BY <1>1, <1>3, DivMod
<1> HIDE DEF m
<1>5. /\ HalfUp(v, e) = k /\ k \in Int
      /\ m >= 0 => k >= 0
      /\ \A t \in Int : Product(m, u, t) => k = t
  <2>1. OneOrEven(u) /\ m \in Int /\ n \in Nat \ {0} /\ u \in Nat \ {0}
    BY <1>1, <1>4
  <2>b. Product(v, n, m) /\ Product(e, n, u)
    BY <1>1, <1>4 DEF Product
  <2>2. HalfUp(v, e) = HalfUp(m, u)
    BY <2>1, <2>b, HalfUnit
  <2>3. HalfUp(m, u) \in Int
    BY <2>1, <2>b, HalfUnit
  <2>4. m >= 0 => HalfUp(m, u) >= 0
    BY <2>1, <2>b, HalfUnit
  <2>5. \A t \in Int : Product(m, u, t) => HalfUp(m, u) = t
    BY <2>1, <2>b, HalfUnit, ZenonT(60)
  <2> QED
    BY <2>2, <2>3, <2>4, <2>5, Zenon
<1> HIDE DEF k
<1>6. v >= 0 => m >= 0
  BY <1>1, <1>4
<1>7. v % e = 0 => m = u * k
  <2> SUFFICES ASSUME v % e = 0 PROVE m = u * k
    OBVIOUS
  <2> DEFINE t == v \div e
  <2>1. e \in Nat \ {0}
    BY <1>1, MultipleOf
  <2>2. t \in Int /\ v = e * t
    BY <2>1, DivMod
  <2> HIDE DEF t
  <2> DEFINE x == u * t
  <2>3. x \in Int /\ e * t = n * x
    BY <1>1, <2>2
  <2> HIDE DEF x
  <2>4. m = x
    BY <1>1, <1>4, <2>2, <2>3
  <2> QED
    BY <1>5, <2>2, <2>4 DEF x, Product
<1>8. k * u = u * k
  BY <1>1, <1>5
<1> QED
  BY <1>1, <1>2, <1>4, <1>5, <1>6, <1>7, <1>8 DEF n, u, e

LEMMA WallClockIs ==
  ASSUME NEW column, NEW p \in 0..Micro, NEW k \in Int
  PROVE  LET t == IF column.native = "time" THEN k % (Day * Power(p)) ELSE k
         IN  t \in Int /\ WallClock(column, Unit(p) * k) = Unit(p) * t
<1> DEFINE u == Unit(p)
           d == Day * Power(p)
           m == u * k
<1>1. u \in Nat \ {0} /\ d \in Nat \ {0} /\ Day * Second = u * d
  <2> DEFINE x == Power(p)
  <2>1. u \in Nat \ {0} /\ x \in Nat \ {0} /\ Second = u * x
    BY Units
  <2> HIDE DEF u, x
  <2>2. Day * (u * x) = u * (Day * x)
    BY <2>1, CanonicalAssumption
  <2>3. Day * x \in Nat \ {0}
    <3>1. Day \in Nat \ {0}
      BY CanonicalAssumption
    <3> QED
      BY <2>1, <3>1, MultipleOf, Zenon
  <2> QED
    BY <2>1, <2>2, <2>3 DEF x
<1> HIDE DEF u, d
<1>2. k % d \in Int
  BY <1>1, DivMod
<1>3. (u * k) % (u * d) = u * (k % d)
  BY <1>1, MultipleOf, Zenon
<1>4. m % (Day * Second) = u * (k % d)
  BY <1>1, <1>3
<1>5. WallClock(column, m) = IF column.native = "time" THEN m % (Day * Second) ELSE m
  BY DEF WallClock
<1> QED
  BY <1>2, <1>4, <1>5 DEF u, d

(* With an exact unit nothing is rounded, by Snowflake either.              *)
LEMMA RoundedToMicro ==
  ASSUME NEW m \in Int
  PROVE  Rounded(m, Micro) = m /\ SnowflakeRounded(m, Micro) = m
<1>1. Unit(Micro) = 1
  <2>1. Micro \in 0..Micro
    BY CanonicalAssumption
  <2> QED
    BY <2>1, Units
<1>2. Rounded(m, Micro) = m
  BY <1>1 DEF Rounded
<1>3. m + 1 \div 2 = m
  OBVIOUS
<1>4. SnowflakeRounded(m, Micro) = HalfAway(m, 1) * 1
  BY <1>1, <1>3 DEF SnowflakeRounded
<1>5. HalfAway(m, 1) = m
  BY DEF HalfAway
<1> QED
  BY <1>2, <1>4, <1>5

LEMMA InstantText ==
  ASSUME NEW pair \in Pair, TimedPair(pair), NEW column, NEW v, v # None, Plainly(pair, column, v)
  PROVE  LET p == CommonPrecision(pair)
             t == TimeOf(pair, v)
         IN  /\ p \in 0..Micro /\ t \in Int /\ PrintedAt(pair) \in {p, Micro}
             /\ Text(pair, column, v) = Clock(Unit(p) * t, PrintedAt(pair))
             /\ Meaning(pair, v) = << "time", t >>
<1> DEFINE p == CommonPrecision(pair)
           d == CommonDigits(pair, Micro)
           q == PrintedAt(pair)
           e == Power(Nano - p)
           k == HalfUp(v, e)
           t == TimeOf(pair, v)
           m == Microseconds(v)
           u == Unit(p)
           own == Digits(column, Micro)
           rule == FinalRule(pair, column)
<1>1. /\ column \in Columns /\ column \in {pair.source, pair.target}
      /\ RuleOf(column) \in Timed
      /\ RuleOf(pair.source) = "TIME_1" <=> column.native = "time"
      /\ column.native = "time" => column.engine # "clickhouse"
      /\ column.engine \in {"postgres", "clickhouse", "snowflake"}
  <2>1. column \in {pair.source, pair.target} /\ column \in Columns
    BY PairKinds DEF Plainly, Columns2
  <2>2. RuleOf(column) \in Timed /\ (RuleOf(pair.source) = "TIME_1" <=> RuleOf(column) = "TIME_1")
    BY <2>1 DEF TimedPair, Timed
  <2> QED
    BY <2>1, <2>2, RuleOfColumn
<1>2. /\ v \in Int /\ v % Power(Nano - own) = 0
      /\ v % Power(Nano - Micro) = 0
      /\ column.engine = "clickhouse" => v >= 0
      /\ ~Refused(column, rule)
  <2>1. v \in Int /\ v % Power(Nano - own) = 0
    BY <1>1, TimeHeld DEF Plainly
  <2>2. /\ v % Power(Nano - Micro) = 0
        /\ column.engine = "clickhouse" => ~(v < 0)
        /\ ~Refused(column, rule)
    BY <1>1, PlainValue DEF Plainly
  <2> QED
    BY <2>1, <2>2
<1>3. /\ p \in 0..Micro /\ d \in 0..Nano /\ p = Lesser(d, Micro)
      /\ \/ Agreed(pair).rule = "TS_2" /\ Agreed(pair).digits = d
         \/ Agreed(pair).rule = None /\ own = d
  <2>1. \/ Agreed(pair).rule = "TS_2" /\ Agreed(pair).digits = d
        \/ /\ Agreed(pair).rule = None /\ d = Digits(pair.source, Micro)
           /\ Digits(pair.source, Micro) = Digits(pair.target, Micro)
    BY PrecisionOfPair
  <2>2. p \in 0..Micro /\ d \in 0..Nano
    BY PrecisionOfPair
  <2> QED
    BY <1>1, <2>1, <2>2 DEF CommonPrecision
<1>4. /\ k \in Int /\ m \in Int /\ (v >= 0 => k >= 0)
      /\ Rounded(m, p) = u * k
      /\ v % e = 0 => m = u * k
  BY <1>2, <1>3, TimeUnits
<1>5. u \in Nat \ {0}
  BY <1>3, Units
<1>6. t \in Int /\ WallClock(column, u * k) = u * t /\ t = IF RuleOf(pair.source) = "TIME_1"
                                                         THEN k % (Day * Power(p)) ELSE k
  <2>1. t = IF RuleOf(pair.source) = "TIME_1" THEN k % (Day * Power(p)) ELSE k
    BY DEF TimeOf
  <2> HIDE DEF p, k, t, u
  <2>2. LET x == IF column.native = "time" THEN k % (Day * Power(p)) ELSE k
        IN  x \in Int /\ WallClock(column, Unit(p) * k) = Unit(p) * x
    BY <1>3, <1>4, WallClockIs
  <2> QED
    BY <1>1, <2>1, <2>2 DEF u
<1>7. Meaning(pair, v) = << "time", t >>
  <2> DEFINE rules == Rules(pair)
  <2>1. /\ rules # {"FLT_1"} /\ "FLT_1" \notin rules /\ "UUID_1" \notin rules
        /\ ~(rules \subseteq {"INT_1", "DEC_1"}) /\ rules # {"STR_1"} /\ rules # {"ARR_1"}
        /\ IF RuleOf(pair.source) = "TIME_1"
           THEN rules = {"TIME_1"} /\ ~(rules \subseteq {"TS_1", "TS_3"})
           ELSE rules \subseteq {"TS_1", "TS_3"} /\ rules # {"TIME_1"}
    BY DEF Rules, RuleOf, TimedPair
  <2>2. k = (v + e \div 2) \div e
    BY DEF HalfUp
  <2>3. Meaning(pair, v) = << "time", IF RuleOf(pair.source) = "TIME_1"
                                     THEN k % (Day * Power(p)) ELSE k >>
    <3> HIDE DEF rules
    <3> QED
      BY <2>1, <2>2 DEF Meaning, CommonPrecision, rules
  <2> QED
    BY <1>6, <2>3
<1>8. column.engine = "clickhouse"
        => /\ \A r \in {p, Micro} : ClickHouseClock(u * k, r) = Clock(u * k, r)
           /\ u * k = u * t
  <2> SUFFICES ASSUME column.engine = "clickhouse"
               PROVE  /\ \A r \in {p, Micro} : ClickHouseClock(u * k, r) = Clock(u * k, r)
                      /\ u * k = u * t
    OBVIOUS
  <2>1. k \in Nat
    BY <1>2, <1>4
  <2> DEFINE a == u * k
  <2>2. a \in Nat
    BY <1>5, <2>1
  <2>3. t = k
    BY <1>1, <1>6
  <2> HIDE DEF a
  <2>4. \A r \in {p, Micro} : ClickHouseClock(a, r) = Clock(a, r)
    BY <2>2, ClockSince1970
  <2> QED
    BY <2>3, <2>4 DEF a
<1>9. CASE Agreed(pair).rule = None
  <2>1. m = u * k
    <3>1. v % e = 0
      <4>1. own = d
        BY <1>3, <1>9, CanonicalAssumption
      <4>2. p = d \/ p = Micro
        BY <1>3 DEF Lesser
      <4> QED
        BY <1>2, <4>1, <4>2
    <3> QED
      BY <1>4, <3>1
  <2>2. rule = RuleOf(column) /\ q = Micro
    BY <1>9, CanonicalAssumption DEF FinalRule, RuleOf, PrintedAt
  <2>3. /\ column.engine = "postgres" => Text(pair, column, v) = Clock(WallClock(column, m), Micro)
        /\ column.engine = "clickhouse" => Text(pair, column, v) = ClickHouseClock(m, Micro)
        /\ column.engine = "snowflake" => Text(pair, column, v) = Clock(WallClock(column, m), Micro)
    <3> HIDE DEF m, rule
    <3>1. rule \in Timed /\ (column.engine = "clickhouse" => rule # "TIME_1")
      BY <1>1, <2>2, RuleOfColumn
    <3> QED
      BY <1>2, <3>1, EngineText DEF PostgresExpr, ClickHouseExpr, SnowflakeExpr, Timed, m, rule
  <2>4. Text(pair, column, v) = Clock(u * t, Micro)
    BY <1>1, <1>6, <1>8, <2>1, <2>3
  <2> QED
    BY <1>3, <1>6, <1>7, <2>2, <2>4
<1>10. CASE Agreed(pair).rule = "TS_2"
  <2>1. rule = "TS_2" /\ q = p
    BY <1>10, CanonicalAssumption DEF FinalRule, PrintedAt
  <2>2. Agreed(pair).digits = d /\ d # None
    BY <1>3, <1>10, NoneAssumption, CanonicalAssumption
  <2>3. Precision(column, Agreed(pair).digits) = p
    BY <1>3, <2>2 DEF Precision, OwnDigits
  <2>4. /\ column.engine = "postgres"
             => Text(pair, column, v) = Clock(WallClock(column, Rounded(m, p)), p)
        /\ column.engine = "clickhouse"
             => Text(pair, column, v) = ClickHouseClock(Rounded(m, p), p)
        /\ column.engine = "snowflake"
             => Text(pair, column, v) = Clock(WallClock(column, SnowflakeRounded(m, p)), p)
    <3> HIDE DEF m, p
    <3> QED
      BY <1>2, <2>1, <2>3, EngineText DEF PostgresExpr, ClickHouseExpr, SnowflakeExpr, m
  <2>5. column.engine = "snowflake" => SnowflakeRounded(m, p) = Rounded(m, p)
    <3> SUFFICES ASSUME column.engine = "snowflake" PROVE SnowflakeRounded(m, p) = Rounded(m, p)
      OBVIOUS
    <3>1. ~(Agreed(pair).digits < Micro)
      BY <1>1, <1>10, PlainPair DEF Plainly
    <3>2. p = Micro
      BY <1>3, <2>2, <3>1, CanonicalAssumption DEF Lesser
    <3> QED
      BY <1>4, <3>2, RoundedToMicro
  <2>6. Text(pair, column, v) = Clock(u * t, p)
    BY <1>1, <1>4, <1>6, <1>8, <2>4, <2>5
  <2> QED
    BY <1>3, <1>6, <1>7, <2>1, <2>6
<1> QED
  BY <1>3, <1>9, <1>10

LEMMA InstantsApart ==
  ASSUME NEW p \in 0..Micro, NEW q \in {p, Micro}, NEW s \in Int, NEW t \in Int,
         Clock(Unit(p) * s, q) = Clock(Unit(p) * t, q)
  PROVE  s = t
<1>1. CASE q = p
  BY <1>1, ClockApart
<1>2. CASE q = Micro
  <2> DEFINE u == Unit(p)
             x == u * s
             y == u * t
             one == Unit(Micro)
  <2>1. u \in Nat \ {0}
    BY Units
  <2>2. Micro \in 0..Micro
    BY CanonicalAssumption
  <2>3. one = 1
    BY <2>2, Units
  <2>4. Clock(x, Micro) = Clock(y, Micro)
    BY <1>2
  <2> HIDE DEF u
  <2>5. x \in Int /\ y \in Int
    BY <2>1
  <2>6. x = y
    <3> HIDE DEF x, y, one
    <3>1. one * x = x /\ one * y = y
      BY <2>3, <2>5
    <3>2. Clock(one * x, Micro) = Clock(one * y, Micro)
      BY <2>4, <3>1
    <3> QED
      BY <2>2, <2>5, <3>2, ClockApart DEF one
  <2> QED
    BY <2>1, <2>6
<1> QED
  BY <1>1, <1>2

LEMMA TimesAgree ==
  ASSUME NEW pair \in Pair, TimedPair(pair)
  PROVE  /\ \A column, v : v # None /\ Plainly(pair, column, v) => NotNull(pair, column, v)
         /\ \A v, w : /\ v # None /\ Plainly(pair, pair.source, v)
                      /\ w # None /\ Plainly(pair, pair.target, w)
                      => Agrees(pair, v, w)
<1>1. ASSUME NEW column, NEW v, v # None, Plainly(pair, column, v)
      PROVE  LET p == CommonPrecision(pair)
                 t == TimeOf(pair, v)
             IN  /\ p \in 0..Micro /\ t \in Int /\ PrintedAt(pair) \in {p, Micro}
                 /\ Text(pair, column, v) = Clock(Unit(p) * t, PrintedAt(pair))
                 /\ Meaning(pair, v) = << "time", t >>
  BY <1>1, InstantText
<1>2. ASSUME NEW column, NEW v, v # None, Plainly(pair, column, v)
      PROVE  NotNull(pair, column, v)
  BY <1>1, <1>2, TextsApart, Zenon DEF NotNull, Clock, TimeText
<1>3. ASSUME NEW v, NEW w, v # None, Plainly(pair, pair.source, v),
             w # None, Plainly(pair, pair.target, w)
      PROVE  Agrees(pair, v, w)
  <2> DEFINE p == CommonPrecision(pair)
             q == PrintedAt(pair)
             m == TimeOf(pair, v)
             n == TimeOf(pair, w)
  <2>1. /\ m \in Int /\ p \in 0..Micro /\ q \in {p, Micro}
        /\ Text(pair, pair.source, v) = Clock(Unit(p) * m, q) /\ Meaning(pair, v) = << "time", m >>
    BY <1>1, <1>3
  <2>2. /\ n \in Int
        /\ Text(pair, pair.target, w) = Clock(Unit(p) * n, q) /\ Meaning(pair, w) = << "time", n >>
    BY <1>1, <1>3
  <2> HIDE DEF p, q, m, n
  <2>3. Clock(Unit(p) * m, q) = Clock(Unit(p) * n, q) => m = n
    BY <2>1, <2>2, InstantsApart
  <2>4. << "time", m >> = << "time", n >> => m = n
    OBVIOUS
  <2> QED
    BY <2>1, <2>2, <2>3, <2>4, Zenon DEF Agrees
<1> QED
  BY <1>2, <1>3, Zenon

-------------------------------------------------------------------------------
(* Text and uuids.                                                           *)
Character == {"a", "A", "e'", "E'", " ", "\\", "N"}

UuidPart == {"uuid", "u1", "u2", "lower", "upper", "hyphens", "plain"}

ShortText(v) == v \in Seq(Character) /\ Len(v) \in 0..3

LEMMA OneOf == ASSUME NEW C, NEW x \in C PROVE << x >> \in Seq(C) /\ Len(<< x >>) = 1
OBVIOUS

LEMMA TwoOf ==
  ASSUME NEW C, NEW x \in C, NEW y \in C
  PROVE  << x, y >> \in Seq(C) /\ Len(<< x, y >>) = 2
OBVIOUS

LEMMA SomeOf ==
  ASSUME NEW C, NEW n \in 0..2, NEW D, C \subseteq D, NEW v \in [1..n -> C]
  PROVE  v \in Seq(D) /\ Len(v) \in 0..3
<1>1. n \in Nat /\ v \in [1..n -> D]
  OBVIOUS
<1>2. v \in Seq(D)
  BY <1>1
<1>3. Len(v) = n
  BY <1>1
<1> QED
  BY <1>2, <1>3

LEMMA SeqOfLength == ASSUME NEW C, NEW n \in Nat, NEW v \in [1..n -> C] PROVE v \in Seq(C)
OBVIOUS

LEMMA ShortTexts ==
  /\ ShortText(NullText)
  /\ ShortText(NullText \o << " " >>)
  /\ \A v \in Strings({"a", "A", "e'", "E'", " "}) : ShortText(v)
<1>1. "\\" \in Character /\ "N" \in Character /\ " " \in Character
  BY DEF Character
<1>2. NullText \in Seq(Character) /\ Len(NullText) = 2
  BY <1>1, TwoOf, Zenon DEF NullText
<1>3. << " " >> \in Seq(Character) /\ Len(<< " " >>) = 1
  BY <1>1, OneOf, Zenon
<1>4. ShortText(NullText \o << " " >>)
  <2> DEFINE a == NullText
             b == << " " >>
  <2>1. a \in Seq(Character) /\ b \in Seq(Character) /\ Len(a) = 2 /\ Len(b) = 1
    BY <1>2, <1>3
  <2> HIDE DEF a, b
  <2>2. a \o b \in Seq(Character) /\ Len(a \o b) = Len(a) + Len(b)
    BY <2>1, ConcatProperties
  <2> DEFINE c == a \o b
  <2>3. c \in Seq(Character) /\ Len(c) = 3
    BY <2>1, <2>2
  <2> HIDE DEF c
  <2>4. ShortText(c)
    BY <2>3 DEF ShortText
  <2> QED
    BY <2>4 DEF c, a, b
<1>5. ASSUME NEW v \in Strings({"a", "A", "e'", "E'", " "})
      PROVE  ShortText(v)
  <2> DEFINE S == {"a", "A", "e'", "E'", " "}
  <2>1. PICK n \in 0..2 : v \in [1..n -> S]
    BY DEF Strings
  <2>2. S \subseteq Character
    BY DEF Character
  <2> HIDE DEF S
  <2>3. v \in Seq(Character) /\ Len(v) \in 0..3
    BY <2>1, <2>2, SomeOf, Zenon
  <2> QED
    BY <2>3 DEF ShortText
<1>6. ShortText(NullText)
  <2>1. 2 \in 0..3
    OBVIOUS
  <2> QED
    BY <1>2, <2>1, Zenon DEF ShortText
<1> QED
  BY <1>4, <1>5, <1>6, Zenon

LEMMA TextHeld ==
  ASSUME NEW column \in Columns, NEW v \in Holds(column), v # None, RuleOf(column) = "STR_1"
  PROVE  v \in UuidForms \/ ShortText(v)
<1>1. \/ v \in Strings({"a", "A", "e'", "E'", " "}) \/ v \in UuidForms
      \/ v = NullText \/ v = NullText \o << " " >>
  BY DEF Holds, RuleOf
<1> QED
  BY <1>1, ShortTexts, Zenon

LEMMA UuidHeld ==
  ASSUME NEW v \in UuidForms
  PROVE  /\ IsUuid(v) /\ v[1] = "uuid" /\ v \in [1..4 -> UuidPart]
         /\ v[3] = "lower" /\ v[4] = "hyphens" => v = << "uuid", v[2], "lower", "hyphens" >>
<1>1. PICK id \in {"u1", "u2"}, case \in {"lower", "upper"}, form \in {"hyphens", "plain"} :
             v = << "uuid", id, case, form >>
  BY DEF UuidForms
<1>2. "uuid" \in UuidPart /\ id \in UuidPart /\ case \in UuidPart /\ form \in UuidPart
  BY DEF UuidPart
<1>3. v \in [1..4 -> UuidPart]
  BY <1>1, <1>2
<1>4. IsUuid(v) /\ v[1] = "uuid" /\ v[2] = id /\ v[3] = case /\ v[4] = form
  BY <1>1 DEF IsUuid
<1> QED
  BY <1>1, <1>3, <1>4

LEMMA ShortIsNoUuid ==
  ASSUME NEW v, ShortText(v)
  PROVE  ~IsUuid(v)
<1>1. Len(v) \in 0..3
  BY DEF ShortText
<1> QED
  BY <1>1 DEF IsUuid

(* What lower() gives is never the null marker.                             *)
LEMMA LowerNotNull ==
  ASSUME NEW s
  PROVE  LowerText(DOMAIN LowerCase, s) # NullText
<1> DEFINE known == DOMAIN LowerCase
           t == [k \in DOMAIN s |-> IF s[k] \in known THEN LowerCase[s[k]] ELSE s[k]]
<1>1. /\ known = {"A", "N", "E'"}
      /\ LowerCase["A"] = "a" /\ LowerCase["N"] = "n" /\ LowerCase["E'"] = "e'"
  BY DEF LowerCase
<1>2. CASE IsUuid(s)
  BY <1>2, TextsApart DEF LowerText
<1>3. CASE ~IsUuid(s)
  <2> SUFFICES ASSUME t = NullText PROVE FALSE
    BY <1>3 DEF LowerText
  <2>1. DOMAIN s = 1..2 /\ t[2] = "N"
    BY NullTextIs
  <2>2. t[2] = IF s[2] \in known THEN LowerCase[s[2]] ELSE s[2]
    BY <2>1
  <2> QED
    BY <1>1, <2>1, <2>2
<1> QED
  BY <1>2, <1>3

Without(s, c) == \A k \in DOMAIN s : s[k] # c

LEMMA RTrimKeeps ==
  ASSUME NEW S, NEW v \in Seq(S), NEW c, Without(v, c)
  PROVE  Without(RTrim(v), c)
<1>0. Len(v) \in Nat /\ DOMAIN v = 1..Len(v)
  OBVIOUS
<1>1. CASE \A k \in DOMAIN v : v[k] = " "
  <2>1. RTrim(v) = << >>
    BY <1>1 DEF RTrim
  <2> QED
    BY <2>1 DEF Without
<1>2. CASE ~(\A k \in DOMAIN v : v[k] = " ")
  <2> DEFINE n == Len(v)
             T == { k \in 1..n : v[k] # " " }
             last == CHOOSE k \in DOMAIN v : v[k] # " " /\ \A j \in (k + 1)..Len(v) : v[j] = " "
  <2>1. T \in SUBSET Int /\ IsFiniteSet(T) /\ T # {}
    <3>1. T # {}
      BY <1>0, <1>2
    <3>2. T \subseteq 1..n
      OBVIOUS
    <3>3. n \in Nat
      BY <1>0
    <3> HIDE DEF T, n
    <3>4. IsFiniteSet(1..n)
      BY <3>3, FS_Interval
    <3>5. IsFiniteSet(T)
      BY <3>2, <3>4, FS_Subset
    <3>6. T \in SUBSET Int
      BY <3>2, <3>3
    <3> QED
      BY <3>1, <3>5, <3>6
  <2> HIDE DEF T
  <2>2. PICK x \in T : \A y \in T : y <= x
    BY <2>1, GreatestElement
  <2>3. x \in DOMAIN v /\ v[x] # " " /\ \A j \in (x + 1)..Len(v) : v[j] = " "
    <3>1. x \in 1..n /\ v[x] # " "
      BY DEF T
    <3>2. ASSUME NEW j \in (x + 1)..Len(v) PROVE v[j] = " "
      <4> HIDE DEF n, last
      <4>1. n \in Nat /\ x \in 1..n /\ j \in (x + 1)..n
        BY <1>0, <3>1 DEF n
      <4>2. j \in 1..n /\ ~(j <= x)
        BY <4>1
      <4> QED
        BY <2>2, <4>2 DEF T
    <3> QED
      BY <1>0, <3>1, <3>2
  <2>4. last \in DOMAIN v
    BY <2>3
  <2> HIDE DEF last
  <2>5. RTrim(v) = SubSeq(v, 1, last)
    BY <1>2 DEF RTrim, last
  <2>6. DOMAIN SubSeq(v, 1, last) = 1..last /\ \A k \in 1..last : SubSeq(v, 1, last)[k] = v[k]
    BY <1>0, <2>4
  <2>7. \A k \in 1..last : k \in DOMAIN v
    BY <1>0, <2>4
  <2>8. \A k \in 1..last : v[k] # c
    BY <2>7 DEF Without
  <2> DEFINE t == SubSeq(v, 1, last)
  <2> HIDE DEF t
  <2>9. Without(t, c)
    BY <2>6, <2>8 DEF Without, t
  <2> QED
    BY <2>5, <2>9 DEF t
<1> QED
  BY <1>1, <1>2

(* What is left of the parts of a uuid in lower case is no shorter text.    *)
LEMMA LowerIsNoUuid ==
  ASSUME NEW s, ShortText(s), NEW known, NEW a, NEW b, NEW c
  PROVE  LowerText(known, s) # << "uuid", a, b, c >>
<1> DEFINE t == [k \in DOMAIN s |-> IF s[k] \in known THEN LowerCase[s[k]] ELSE s[k]]
           u == << "uuid", a, b, c >>
<1>1. LowerText(known, s) = t
  BY ShortIsNoUuid DEF LowerText
<1>2. DOMAIN s = 1..Len(s) /\ Len(s) \in 0..3
  BY LenProperties DEF ShortText
<1>3. 4 \notin DOMAIN t
  BY <1>2
<1>4. 4 \in DOMAIN u
  OBVIOUS
<1> HIDE DEF t, u
<1>5. t # u
  BY <1>3, <1>4
<1> QED
  BY <1>1, <1>5 DEF u

UuidPair(pair) ==
  /\ RuleOf(pair.source) = "UUID_1" \/ RuleOf(pair.target) = "UUID_1"
  /\ ~(pair.trim \/ pair.lower)

LEMMA RuleOfUuids ==
  ASSUME NEW pair \in Pair, UuidPair(pair), NEW column \in Columns2(pair)
  PROVE  /\ column \in Columns /\ RuleOf(column) \in {"UUID_1", "STR_1"}
         /\ FinalRule(pair, column) = "UUID_1" /\ "UUID_1" \in Rules(pair)
<1> DEFINE r == RuleOf(pair.source)
           q == RuleOf(pair.target)
<1>1. /\ pair.source \in Columns /\ pair.target \in Columns /\ KindsOfPair(r, q)
      /\ r = "UUID_1" \/ q = "UUID_1"
  BY PairKinds DEF UuidPair
<1>2. r \in {"UUID_1", "STR_1"} /\ q \in {"UUID_1", "STR_1"} /\ (r = "UUID_1" \/ q = "UUID_1")
  BY <1>1 DEF KindsOfPair
<1>3. Agreed(pair).rule = IF r = q THEN None ELSE "UUID_1"
  <2>1. Family("UUID_1") = "UUID_1" /\ Family("STR_1") = "string"
    BY DEF Family
  <2>2. Agreed(pair) = Negotiate(pair.source, pair.target, FALSE)
    BY DEF Agreed, UuidPair
  <2>3. r = PickRule(pair.source.native) /\ q = PickRule(pair.target.native)
    BY DEF RuleOf
  <2> HIDE DEF r, q
  <2>4. {Family(r), Family(q)} \cap {"timestamp", "TIME_1"} = {}
    BY <1>2, <2>1
  <2>5. ((Family(r) = "UUID_1") # (Family(q) = "UUID_1")) = (r # q)
    BY <1>2, <2>1
  <2>6. Negotiate(pair.source, pair.target, FALSE).rule =
          IF /\ {Family(r), Family(q)} \cap {"timestamp", "TIME_1"} # {}
             /\ Digits(pair.source, Micro) # Digits(pair.target, Micro)
          THEN "TS_2"
          ELSE IF (Family(r) = "UUID_1") # (Family(q) = "UUID_1") THEN "UUID_1" ELSE None
    BY <2>3 DEF Negotiate
  <2> QED
    BY <2>2, <2>4, <2>5, <2>6
<1>4. "UUID_1" # None
  BY CanonicalAssumption
<1>5. FinalRule(pair, column) = "UUID_1"
  <2>1. CASE r = q
    <3>1. RuleOf(column) = "UUID_1"
      BY <1>2, <2>1 DEF Columns2
    <3> QED
      BY <1>3, <2>1, <3>1 DEF FinalRule, RuleOf
  <2>2. CASE r # q
    BY <1>3, <1>4, <2>2 DEF FinalRule
  <2> QED
    BY <2>1, <2>2
<1> QED
  BY <1>1, <1>2, <1>5 DEF Columns2, Rules, RuleOf

(* One side of a pair of uuids: a uuid, or a text that is none on Snowflake. *)
LEMMA UuidText ==
  ASSUME NEW pair \in Pair, UuidPair(pair),
         NEW column, NEW v, v # None, Plainly(pair, column, v)
  PROVE  \/ \E id : /\ Text(pair, column, v) = << "uuid", id, "lower", "hyphens" >>
                    /\ Meaning(pair, v) = << "uuid", id >>
         \/ /\ RuleOf(column) = "STR_1" /\ ShortText(v)
            /\ Text(pair, column, v) = LowerText(DOMAIN LowerCase, v)
            /\ Meaning(pair, v) = << "str", v >>
<1>1. /\ column \in Columns /\ RuleOf(column) \in {"UUID_1", "STR_1"}
      /\ FinalRule(pair, column) = "UUID_1" /\ "UUID_1" \in Rules(pair)
      /\ column.engine \in {"postgres", "clickhouse", "snowflake"}
      /\ RuleOf(column) = "UUID_1" => column.engine # "snowflake"
      /\ v \in Holds(column)
  BY RuleOfUuids, RuleOfColumn DEF Plainly
<1>2. Meaning(pair, v) = IF IsUuid(v) THEN << "uuid", v[2] >> ELSE << "str", v >>
  <2>1. Rules(pair) # {"FLT_1"} /\ ~("FLT_1" \in Rules(pair) /\ Rules(pair) # {"FLT_1"})
    BY <1>1, PlainPair DEF Plainly
  <2>2. /\ ~(Rules(pair) \subseteq {"INT_1", "DEC_1"}) /\ ~(Rules(pair) \subseteq {"TS_1", "TS_3"})
        /\ Rules(pair) # {"TIME_1"}
    BY <1>1
  <2> QED
    BY <1>1, <2>1, <2>2, Zenon DEF Meaning
<1>3. RuleOf(column) = "STR_1" => column.engine = "snowflake"
  BY <1>1, PlainValue DEF Plainly
<1>4. ~Refused(column, FinalRule(pair, column))
  BY PlainValue DEF Plainly
<1>5. column.engine = "snowflake" => Text(pair, column, v) = SnowflakeUuid1(v)
  BY <1>1, <1>4, EngineText DEF SnowflakeExpr
<1>6. column.engine # "snowflake" => Text(pair, column, v) = v
  BY <1>1, <1>4, EngineText DEF PostgresExpr, ClickHouseExpr
<1>7. CASE RuleOf(column) = "UUID_1"
  <2>1. v \in UuidForms /\ v[3] = "lower" /\ v[4] = "hyphens"
    BY <1>1, <1>7 DEF Holds, RuleOf
  <2>2. IsUuid(v) /\ v = << "uuid", v[2], "lower", "hyphens" >>
    BY <2>1, UuidHeld
  <2>3. Text(pair, column, v) = v
    BY <1>1, <1>6, <1>7
  <2> QED
    BY <1>2, <2>2, <2>3
<1>8. CASE RuleOf(column) = "STR_1"
  <2>1. v \in UuidForms \/ ShortText(v)
    BY <1>1, <1>8, TextHeld
  <2>2. Text(pair, column, v) = SnowflakeUuid1(v)
    BY <1>3, <1>5, <1>8
  <2>3. CASE v \in UuidForms
    <3>1. IsUuid(v)
      BY <2>3, UuidHeld
    <3> QED
      BY <1>2, <2>2, <3>1 DEF SnowflakeUuid1
  <2>4. CASE ShortText(v)
    <3>1. ~IsUuid(v)
      BY <2>4, ShortIsNoUuid
    <3> QED
      BY <1>2, <1>8, <2>2, <2>4, <3>1 DEF SnowflakeUuid1
  <2> QED
    BY <2>1, <2>3, <2>4
<1> QED
  BY <1>1, <1>7, <1>8

LEMMA UuidsAgree ==
  ASSUME NEW pair \in Pair, UuidPair(pair)
  PROVE  /\ \A column, v : v # None /\ Plainly(pair, column, v) => NotNull(pair, column, v)
         /\ \A v, w : /\ v # None /\ Plainly(pair, pair.source, v)
                      /\ w # None /\ Plainly(pair, pair.target, w)
                      => Agrees(pair, v, w)
<1> DEFINE AsUuid(column, v) ==
             \E id : /\ Text(pair, column, v) = << "uuid", id, "lower", "hyphens" >>
                     /\ Meaning(pair, v) = << "uuid", id >>
           AsText(column, v) ==
             /\ RuleOf(column) = "STR_1" /\ ShortText(v)
             /\ Text(pair, column, v) = LowerText(DOMAIN LowerCase, v)
             /\ Meaning(pair, v) = << "str", v >>
<1>1. ASSUME NEW column, NEW v, v # None, Plainly(pair, column, v)
      PROVE  AsUuid(column, v) \/ AsText(column, v)
  BY <1>1, UuidText
<1>2. ASSUME NEW column, NEW v, v # None, Plainly(pair, column, v)
      PROVE  NotNull(pair, column, v)
  <2>1. CASE AsUuid(column, v)
    BY <2>1, TextsApart, Zenon DEF NotNull
  <2>2. CASE AsText(column, v)
    BY <2>2, TextsApart, LowerNotNull, Zenon DEF NotNull
  <2> QED
    BY <1>1, <1>2, <2>1, <2>2
<1>3. ASSUME NEW v, NEW w, v # None, Plainly(pair, pair.source, v),
             w # None, Plainly(pair, pair.target, w)
      PROVE  Agrees(pair, v, w)
  <2>1. AsUuid(pair.source, v) \/ AsText(pair.source, v)
    BY <1>1, <1>3
  <2>2. AsUuid(pair.target, w) \/ AsText(pair.target, w)
    BY <1>1, <1>3
  <2>3. CASE AsUuid(pair.source, v) /\ AsUuid(pair.target, w)
    <3>1. PICK i : /\ Text(pair, pair.source, v) = << "uuid", i, "lower", "hyphens" >>
                   /\ Meaning(pair, v) = << "uuid", i >>
      BY <2>3
    <3>2. PICK j : /\ Text(pair, pair.target, w) = << "uuid", j, "lower", "hyphens" >>
                   /\ Meaning(pair, w) = << "uuid", j >>
      BY <2>3
    <3>3. << "uuid", i >> = << "uuid", j >> <=> i = j
      OBVIOUS
    <3>4. << "uuid", i, "lower", "hyphens" >> = << "uuid", j, "lower", "hyphens" >> <=> i = j
      OBVIOUS
    <3> QED
      BY <3>1, <3>2, <3>3, <3>4 DEF Agrees
  <2>4. CASE AsUuid(pair.source, v) /\ AsText(pair.target, w)
    BY <2>4, TextsApart, LowerIsNoUuid, Zenon DEF Agrees
  <2>5. CASE AsText(pair.source, v) /\ AsUuid(pair.target, w)
    BY <2>5, TextsApart, LowerIsNoUuid, Zenon DEF Agrees
  <2>6. ~(AsText(pair.source, v) /\ AsText(pair.target, w))
    BY DEF UuidPair
  <2> QED
    BY <2>1, <2>2, <2>3, <2>4, <2>5, <2>6
<1> QED
  BY <1>2, <1>3

-------------------------------------------------------------------------------
(* Strings, as --trim and --case-insensitive leave them.                    *)
LEMMA LowerAscii ==
  ASSUME NEW t, Without(t, "E'")
  PROVE  LowerText(Ascii, t) = LowerText(DOMAIN LowerCase, t)
<1>1. DOMAIN LowerCase = {"A", "N", "E'"}
  BY DEF LowerCase
<1>2. \A k \in DOMAIN t : t[k] \in Ascii <=> t[k] \in DOMAIN LowerCase
  BY <1>1 DEF Without, Ascii
<1> QED
  BY <1>2 DEF LowerText

LEMMA StringText ==
  ASSUME NEW pair \in Pair, RuleOf(pair.source) = "STR_1", RuleOf(pair.target) = "STR_1",
         NEW column, NEW v, v # None, Plainly(pair, column, v)
  PROVE  /\ Text(pair, column, v) = Str2(pair, v) /\ Str2(pair, v) # NullText
         /\ Meaning(pair, v) = << "str", Str2(pair, v) >>
<1> DEFINE fold == pair.trim \/ pair.lower
           t == IF pair.trim THEN RTrim(v) ELSE v
<1>1. /\ column \in Columns /\ RuleOf(column) = "STR_1"
      /\ column.engine \in {"postgres", "clickhouse", "snowflake"}
      /\ v \in Holds(column)
  BY PairKinds, RuleOfColumn DEF Plainly, Columns2
<1>2. Rules(pair) = {"STR_1"}
  BY DEF Rules, RuleOf
<1>3. Meaning(pair, v) = << "str", Str2(pair, v) >>
  BY <1>2, Zenon DEF Meaning
<1>4. Agreed(pair).rule = IF fold THEN "STR_2" ELSE None
  <2>1. Family("STR_1") = "string"
    BY DEF Family
  <2> QED
    BY <2>1 DEF Agreed, Negotiate, RuleOf
<1>5. FinalRule(pair, column) = IF fold THEN "STR_2" ELSE "STR_1"
  BY <1>1, <1>4, CanonicalAssumption DEF FinalRule, RuleOf
<1>6. ~Refused(column, FinalRule(pair, column))
  BY PlainValue DEF Plainly
<1>7. ~pair.lower => t # NullText
  <2>1. FinalRule(pair, column) # "UUID_1"
    BY <1>5
  <2> QED
    BY <1>1, <2>1, PlainValue DEF Plainly
<1>8. Str2(pair, v) = IF pair.lower THEN LowerText(DOMAIN LowerCase, t) ELSE t
  BY DEF Str2, Relaxed
<1>9. Str2(pair, v) # NullText
  BY <1>7, <1>8, LowerNotNull, Zenon
<1>10. CASE ~fold
  <2>1. Text(pair, column, v) = v
    BY <1>1, <1>5, <1>6, <1>10, EngineText DEF PostgresExpr, ClickHouseExpr, SnowflakeExpr
  <2> QED
    BY <1>3, <1>8, <1>9, <1>10, <2>1
<1>11. CASE fold
  <2>1. /\ column.engine \in {"postgres", "snowflake"} => Text(pair, column, v) = Str2(pair, v)
        /\ column.engine = "clickhouse" => Text(pair, column, v) = ClickHouseStr2(pair, v)
    BY <1>1, <1>5, <1>6, <1>11, EngineText DEF PostgresExpr, ClickHouseExpr, SnowflakeExpr
  <2>2. ASSUME column.engine = "clickhouse" PROVE ClickHouseStr2(pair, v) = Str2(pair, v)
    <3>1. ClickHouseStr2(pair, v) = IF pair.lower THEN LowerText(Ascii, t) ELSE t
      BY DEF ClickHouseStr2, Relaxed
    <3>2. ASSUME pair.lower PROVE LowerText(Ascii, t) = LowerText(DOMAIN LowerCase, t)
      <4>1. Without(v, "E'")
        BY <1>5, <1>11, <2>2, <3>2, PlainValue DEF Plainly, Without
      <4>2. \E S : v \in Seq(S)
        <5>1. ASSUME v \in UuidForms PROVE v \in Seq(UuidPart)
          <6>1. v \in [1..4 -> UuidPart] /\ 4 \in Nat
            BY <5>1, UuidHeld
          <6> QED
            BY <6>1, SeqOfLength, Zenon
        <5> QED
          BY <1>1, <5>1, TextHeld, Zenon DEF ShortText
      <4>3. Without(t, "E'")
        BY <4>1, <4>2, RTrimKeeps
      <4> HIDE DEF t
      <4> QED
        BY <4>3, LowerAscii, Zenon
    <3> QED
      BY <1>8, <3>1, <3>2
  <2> QED
    BY <1>1, <1>3, <1>9, <2>1, <2>2
<1> QED
  BY <1>10, <1>11

LEMMA StringsAgree ==
  ASSUME NEW pair \in Pair, RuleOf(pair.source) = "STR_1", RuleOf(pair.target) = "STR_1"
  PROVE  /\ \A column, v : v # None /\ Plainly(pair, column, v) => NotNull(pair, column, v)
         /\ \A v, w : /\ v # None /\ Plainly(pair, pair.source, v)
                      /\ w # None /\ Plainly(pair, pair.target, w)
                      => Agrees(pair, v, w)
<1>1. ASSUME NEW column, NEW v, v # None, Plainly(pair, column, v)
      PROVE  /\ Text(pair, column, v) = Str2(pair, v) /\ Str2(pair, v) # NullText
             /\ Meaning(pair, v) = << "str", Str2(pair, v) >>
  BY <1>1, StringText
<1>2. ASSUME NEW column, NEW v, v # None, Plainly(pair, column, v)
      PROVE  NotNull(pair, column, v)
  BY <1>1, <1>2, TextsApart, Zenon DEF NotNull
<1>3. ASSUME NEW v, NEW w, v # None, Plainly(pair, pair.source, v),
             w # None, Plainly(pair, pair.target, w)
      PROVE  Agrees(pair, v, w)
  <2> DEFINE a == Str2(pair, v)
             b == Str2(pair, w)
  <2>1. /\ Text(pair, pair.source, v) = a /\ Meaning(pair, v) = << "str", a >>
        /\ Text(pair, pair.target, w) = b /\ Meaning(pair, w) = << "str", b >>
    BY <1>1, <1>3
  <2> HIDE DEF a, b
  <2>2. << "str", a >> = << "str", b >> <=> a = b
    OBVIOUS
  <2> QED
    BY <2>1, <2>2, Zenon DEF Agrees
<1> QED
  BY <1>2, <1>3

-------------------------------------------------------------------------------
(* Arrays.                                                                   *)
LEMMA FlattenTwo ==
  ASSUME NEW texts, Len(texts) = 2
  PROVE  FlattenSeq(texts) = texts[1] \o texts[2]
<1> DEFINE Eq(f) == f = [i \in 1..2 |-> IF i = 1 THEN texts[i] ELSE f[i - 1] \o texts[i]]
           flatten == CHOOSE f : Eq(f)
<1>1. \E f : Eq(f)
  <2> DEFINE first == texts[1]
             both == texts[1] \o texts[2]
             g == [i \in 1..2 |-> IF i = 1 THEN first ELSE both]
  <2>1. g[1] = texts[1] /\ g[2] = texts[1] \o texts[2] /\ DOMAIN g = 1..2
    <3> HIDE DEF first, both
    <3>1. g[1] = first /\ g[2] = both /\ DOMAIN g = 1..2
      OBVIOUS
    <3> QED
      BY <3>1 DEF first, both
  <2>2. \A i \in 1..2 : g[i] = IF i = 1 THEN texts[i] ELSE g[i - 1] \o texts[i]
    <3> HIDE DEF g
    <3>1. 2 - 1 = 1 /\ 1..2 = {1, 2}
      OBVIOUS
    <3> QED
      BY <2>1, <3>1
  <2>3. g = [i \in 1..2 |-> IF i = 1 THEN texts[i] ELSE g[i - 1] \o texts[i]]
    BY <2>2
  <2> QED
    BY <2>3
<1>2. Eq(flatten)
  <2> HIDE DEF Eq
  <2> QED
    BY <1>1
<1>3. FlattenSeq(texts) = flatten[2]
  BY DEF FlattenSeq
<1> HIDE DEF flatten
<1>4. flatten[1] = texts[1] /\ flatten[2] = flatten[1] \o texts[2]
  <2>1. 1 \in 1..2 /\ 2 \in 1..2 /\ 2 - 1 = 1 /\ 2 # 1
    OBVIOUS
  <2> QED
    BY <1>2, <2>1
<1> QED
  BY <1>3, <1>4

LEMMA FlattenOne ==
  ASSUME NEW texts, Len(texts) = 1
  PROVE  FlattenSeq(texts) = texts[1]
<1> DEFINE Eq(f) == f = [i \in 1..1 |-> IF i = 1 THEN texts[i] ELSE f[i - 1] \o texts[i]]
           flatten == CHOOSE f : Eq(f)
<1>1. \E f : Eq(f)
  <2> DEFINE g == [i \in 1..1 |-> texts[i]]
  <2>1. \A i \in 1..1 : i = 1
    OBVIOUS
  <2>2. Eq(g)
    BY <2>1
  <2> QED
    BY <2>2
<1>2. Eq(flatten)
  <2> HIDE DEF Eq
  <2> QED
    BY <1>1
<1>3. FlattenSeq(texts) = flatten[1]
  BY DEF FlattenSeq
<1> HIDE DEF flatten
<1>4. flatten[1] = texts[1]
  BY <1>2
<1> QED
  BY <1>3, <1>4

(* A text between brackets gives itself back.                               *)
LEMMA Bracketed ==
  ASSUME NEW S, NEW a \in S, NEW b \in S, NEW f \in Seq(S)
  PROVE  LET h == << a >> \o f \o << b >>
         IN  /\ h \in Seq(S) /\ Len(h) = 2 + Len(f) /\ h[1] = a
             /\ \A i \in 1..Len(f) : h[1 + i] = f[i]
<1> DEFINE g == << a >> \o f
           t == << b >>
<1>1. g \in Seq(S) /\ Len(g) = 1 + Len(f) /\ g[1] = a /\ \A i \in 1..Len(f) : g[1 + i] = f[i]
  OBVIOUS
<1>2. t \in Seq(S) /\ Len(t) = 1
  OBVIOUS
<1>3. Len(f) \in Nat
  OBVIOUS
<1> DEFINE h == g \o t
<1> HIDE DEF g, t
<1>4. /\ h \in Seq(S) /\ Len(h) = Len(g) + Len(t)
      /\ \A i \in 1..(Len(g) + Len(t)) : i <= Len(g) => h[i] = g[i]
  <2>1. \A i \in 1..(Len(g) + Len(t)) : i <= Len(g) => h[i] = g[i]
    BY <1>1, <1>2, Concatenated
  <2> QED
    BY <1>1, <1>2, <2>1, ConcatProperties
<1> HIDE DEF h
<1>5. Len(h) = 2 + Len(f) /\ h[1] = a
  BY <1>1, <1>2, <1>3, <1>4
<1>6. ASSUME NEW i \in 1..Len(f) PROVE h[1 + i] = f[i]
  <2>1. 1 + i \in 1..(Len(g) + Len(t)) /\ 1 + i <= Len(g)
    BY <1>1, <1>2, <1>3
  <2> QED
    BY <1>1, <1>4, <2>1
<1> QED
  BY <1>4, <1>5, <1>6 DEF g, t, h

LEMMA BracketsApart ==
  ASSUME NEW S, NEW a \in S, NEW b \in S, NEW f \in Seq(S), NEW g \in Seq(S),
         << a >> \o f \o << b >> = << a >> \o g \o << b >>
  PROVE  f = g
<1> DEFINE h == << a >> \o f \o << b >>
           k == << a >> \o g \o << b >>
<1>1. Len(h) = 2 + Len(f) /\ \A i \in 1..Len(f) : h[1 + i] = f[i]
  BY Bracketed
<1>2. Len(k) = 2 + Len(g) /\ \A i \in 1..Len(g) : k[1 + i] = g[i]
  BY Bracketed
<1>3. h = k
  OBVIOUS
<1>4. Len(f) \in Nat /\ Len(g) \in Nat
  OBVIOUS
<1> HIDE DEF h, k
<1>5. Len(f) = Len(g)
  BY <1>1, <1>2, <1>3, <1>4
<1>6. \A i \in 1..Len(f) : f[i] = g[i]
  BY <1>1, <1>2, <1>3, <1>5
<1> QED
  BY <1>5, <1>6, SameSequence

ArrayCharacter == {"a", ",", "\\", "N", "[", "]"}

Shown(e) == IF e = None THEN NullText ELSE e

PlainElement(e) ==
  e \in Elements /\ (e # None => e # NullText /\ \A j \in DOMAIN e : e[j] # ",")

PlainArray(v) ==
  /\ \E m \in 0..2 : v \in [1..m -> Elements]
  /\ v # << << >> >> /\ \A k \in DOMAIN v : PlainElement(v[k])

LEMMA OneLacks == ASSUME NEW x, NEW c, x # c PROVE Lacks(<< x >>, c)
BY DEF Lacks

LEMMA TwoLacks == ASSUME NEW x, NEW y, NEW c, x # c, y # c PROVE Lacks(<< x, y >>, c)
BY DEF Lacks

LEMMA ElementShown ==
  ASSUME NEW e, PlainElement(e)
  PROVE  Shown(e) \in Seq(ArrayCharacter) /\ Lacks(Shown(e), ",")
<1>1. /\ "a" \in ArrayCharacter /\ "\\" \in ArrayCharacter /\ "N" \in ArrayCharacter
      /\ "a" # "," /\ "\\" # "," /\ "N" # ","
  BY DEF ArrayCharacter
<1>2. NullText \in Seq(ArrayCharacter) /\ Lacks(NullText, ",")
  BY <1>1, TwoOf, TwoLacks, Zenon DEF NullText
<1>3. << "a", "a" >> \in Seq(ArrayCharacter) /\ Lacks(<< "a", "a" >>, ",")
  BY <1>1, TwoOf, TwoLacks, Zenon
<1>4. << "a" >> \in Seq(ArrayCharacter) /\ Lacks(<< "a" >>, ",")
  BY <1>1, OneOf, OneLacks, Zenon
<1>5. << >> \in Seq(ArrayCharacter) /\ Lacks(<< >>, ",")
  BY DEF Lacks
<1>6. 1 \in DOMAIN << "," >> /\ << "," >>[1] = ","
  OBVIOUS
<1>7. \/ e = None \/ e = << >> \/ e = << "a" >> \/ e = << "," >> \/ e = << "a", "a" >>
      \/ e = NullText
  BY DEF PlainElement, Elements
<1>8. e # None => e # << "," >>
  BY <1>6, Zenon DEF PlainElement
<1> QED
  BY <1>2, <1>3, <1>4, <1>5, <1>7, <1>8, Zenon DEF Shown

LEMMA ShownApart ==
  ASSUME NEW e, NEW f, PlainElement(e), PlainElement(f), Shown(e) = Shown(f)
  PROVE  e = f
BY Zenon DEF Shown, PlainElement

Body(v) ==
  FlattenSeq([k \in DOMAIN v |-> (IF k > 1 THEN << "," >> ELSE << >>)
                                 \o (IF v[k] = None THEN NullText ELSE v[k])])

LEMMA Arr1Is == ASSUME NEW v PROVE Arr1(v) = << "[" >> \o Body(v) \o << "]" >>
BY DEF Arr1, Body

LEMMA BodyOfOne ==
  ASSUME NEW v, DOMAIN v = 1..1
  PROVE  Body(v) = << >> \o Shown(v[1])
<1> DEFINE part(k) == (IF k > 1 THEN << "," >> ELSE << >>) \o Shown(v[k])
           texts == [k \in 1..1 |-> part(k)]
<1>1. Body(v) = FlattenSeq(texts)
  BY DEF Body, Shown
<1>2. part(1) = << >> \o Shown(v[1])
  <2>1. ~(1 > 1)
    OBVIOUS
  <2> QED
    BY <2>1, Zenon
<1> HIDE DEF part
<1>3. Len(texts) = 1 /\ texts[1] = part(1)
  OBVIOUS
<1> HIDE DEF texts
<1> QED
  BY <1>1, <1>2, <1>3, FlattenOne

LEMMA BodyOfTwo ==
  ASSUME NEW v, DOMAIN v = 1..2
  PROVE  Body(v) = (<< >> \o Shown(v[1])) \o (<< "," >> \o Shown(v[2]))
<1> DEFINE part(k) == (IF k > 1 THEN << "," >> ELSE << >>) \o Shown(v[k])
           texts == [k \in 1..2 |-> part(k)]
<1>1. Body(v) = FlattenSeq(texts)
  BY DEF Body, Shown
<1>2. part(1) = << >> \o Shown(v[1]) /\ part(2) = << "," >> \o Shown(v[2])
  <2>1. ~(1 > 1) /\ 2 > 1
    OBVIOUS
  <2> QED
    BY <2>1, Zenon
<1> HIDE DEF part
<1>3. Len(texts) = 2 /\ texts[1] = part(1) /\ texts[2] = part(2)
  OBVIOUS
<1> HIDE DEF texts
<1> QED
  BY <1>1, <1>2, <1>3, FlattenTwo

LEMMA Joined ==
  ASSUME NEW C, NEW c \in C, NEW s \in Seq(C), NEW t \in Seq(C)
  PROVE  LET z == s \o (<< c >> \o t)
         IN  z \in Seq(C) /\ Len(z) # 0 /\ ~Lacks(z, c)
<1> DEFINE z == s \o (<< c >> \o t)
<1>1. z \in Seq(C)
  <2>1. << c >> \o t \in Seq(C)
    OBVIOUS
  <2> QED
    BY <2>1, ConcatProperties
<1>2. Len(z) = Len(s) + 1 + Len(t) /\ z[Len(s) + 1] = c
  BY JoinedTexts
<1>3. Len(s) \in Nat /\ Len(t) \in Nat
  OBVIOUS
<1> HIDE DEF z
<1>4. Len(z) # 0 /\ Len(s) + 1 \in 1..Len(z)
  BY <1>2, <1>3
<1> QED
  BY <1>1, <1>2, <1>4 DEF Lacks, z

LEMMA NotEmpty ==
  ASSUME NEW E, NEW v \in [1..1 -> E], v # << << >> >>
  PROVE  Shown(v[1]) # << >>
<1>1. NullText # << >>
  <2>1. 1 \in DOMAIN NullText
    BY NullTextIs
  <2> QED
    BY <2>1
<1>2. v[1] # << >>
  <2> SUFFICES ASSUME v[1] = << >> PROVE v = << << >> >>
    OBVIOUS
  <2> DEFINE e == << >>
  <2>1. v[1] = e
    OBVIOUS
  <2> HIDE DEF e
  <2>2. v = << e >>
    BY <2>1
  <2> QED
    BY <2>2 DEF e
<1> QED
  BY <1>1, <1>2, Zenon DEF Shown

(* What the body of an array's text says of how many elements there are.    *)
BodyTells(v, m) ==
  /\ Body(v) \in Seq(ArrayCharacter)
  /\ m = 0 => Len(Body(v)) = 0
  /\ m = 1 => Body(v) = Shown(v[1]) /\ Len(Body(v)) # 0 /\ Lacks(Body(v), ",")
  /\ m = 2 => /\ Body(v) = Shown(v[1]) \o (<< "," >> \o Shown(v[2]))
              /\ Len(Body(v)) # 0 /\ ~Lacks(Body(v), ",")

LEMMA BodyIs ==
  ASSUME NEW v, NEW m \in 0..2, v \in [1..m -> Elements], PlainArray(v)
  PROVE  BodyTells(v, m)
<1>1. DOMAIN v = 1..m
  OBVIOUS
<1>2. \A k \in 1..m : PlainElement(v[k]) /\ Shown(v[k]) \in Seq(ArrayCharacter)
                      /\ Lacks(Shown(v[k]), ",")
  BY <1>1, ElementShown DEF PlainArray
<1>3. CASE m = 0
  <2>1. v = << >>
    BY <1>3
  <2> DEFINE texts == [k \in DOMAIN v |-> (IF k > 1 THEN << "," >> ELSE << >>) \o Shown(v[k])]
  <2>2. texts = << >>
    BY <2>1
  <2>3. Body(v) = FlattenSeq(texts)
    BY DEF Body, Shown
  <2> HIDE DEF texts
  <2>4. Body(v) = << >>
    BY <2>2, <2>3 DEF FlattenSeq
  <2>5. << >> \in Seq(ArrayCharacter) /\ Len(<< >>) = 0
    OBVIOUS
  <2>6. m # 1 /\ m # 2
    BY <1>3
  <2> QED
    BY <2>4, <2>5, <2>6, Zenon DEF BodyTells
<1>4. CASE m = 1
  <2> DEFINE s == Shown(v[1])
  <2>1. DOMAIN v = 1..1 /\ 1 \in 1..m /\ m # 0 /\ m # 2
    BY <1>1, <1>4
  <2>2. s \in Seq(ArrayCharacter) /\ Lacks(s, ",")
    BY <1>2, <2>1, Zenon
  <2>3. Body(v) = << >> \o s
    BY <2>1, BodyOfOne
  <2>4. s # << >>
    <3>1. v \in [1..1 -> Elements]
      BY <1>4
    <3> QED
      BY <3>1, NotEmpty DEF PlainArray
  <2> HIDE DEF s
  <2>5. Body(v) = s /\ Len(s) # 0
    BY <2>2, <2>3, <2>4, ConcatEmptySeq, EmptySeq
  <2> QED
    BY <2>1, <2>2, <2>5, Zenon DEF BodyTells, s
<1>5. CASE m = 2
  <2> DEFINE s == Shown(v[1])
             t == Shown(v[2])
  <2>1. DOMAIN v = 1..2 /\ 1 \in 1..m /\ 2 \in 1..m /\ m # 0 /\ m # 1
    BY <1>1, <1>5
  <2>2. s \in Seq(ArrayCharacter) /\ t \in Seq(ArrayCharacter)
    BY <1>2, <2>1, Zenon
  <2>3. Body(v) = (<< >> \o s) \o (<< "," >> \o t)
    BY <2>1, BodyOfTwo
  <2>4. "," \in ArrayCharacter
    BY DEF ArrayCharacter
  <2> HIDE DEF s, t
  <2>5. << >> \o s = s
    BY <2>2, ConcatEmptySeq
  <2>6. Body(v) = s \o (<< "," >> \o t)
    BY <2>3, <2>5
  <2>7. LET z == s \o (<< "," >> \o t)
        IN  z \in Seq(ArrayCharacter) /\ Len(z) # 0 /\ ~Lacks(z, ",")
    BY <2>2, <2>4, Joined, Zenon
  <2> QED
    BY <2>1, <2>6, <2>7, Zenon DEF BodyTells, s, t
<1> QED
  BY <1>3, <1>4, <1>5

LEMMA ArraysApart ==
  ASSUME NEW v, NEW w, PlainArray(v), PlainArray(w), Arr1(v) = Arr1(w)
  PROVE  v = w
<1>1. PICK m \in 0..2 : v \in [1..m -> Elements]
  BY DEF PlainArray
<1>2. PICK n \in 0..2 : w \in [1..n -> Elements]
  BY DEF PlainArray
<1> DEFINE b == Body(v)
           c == Body(w)
<1>3. BodyTells(v, m) /\ BodyTells(w, n)
  BY <1>1, <1>2, BodyIs
<1>4. b \in Seq(ArrayCharacter) /\ c \in Seq(ArrayCharacter)
  BY <1>3 DEF BodyTells
<1>5. << "[" >> \o b \o << "]" >> = << "[" >> \o c \o << "]" >>
  BY Arr1Is
<1>6. b = c
  <2> HIDE DEF b, c
  <2>1. "[" \in ArrayCharacter /\ "]" \in ArrayCharacter
    BY DEF ArrayCharacter
  <2> QED
    BY <1>4, <1>5, <2>1, BracketsApart, Zenon
<1>7. m = n
  <2>1. (m = 0 \/ m = 1 \/ m = 2) /\ (n = 0 \/ n = 1 \/ n = 2)
    BY <1>1, <1>2
  <2>2. /\ m = 0 => Len(b) = 0
        /\ m = 1 => Len(b) # 0 /\ Lacks(b, ",")
        /\ m = 2 => Len(b) # 0 /\ ~Lacks(b, ",")
    BY <1>3, Zenon DEF BodyTells
  <2>3. /\ n = 0 => Len(c) = 0
        /\ n = 1 => Len(c) # 0 /\ Lacks(c, ",")
        /\ n = 2 => Len(c) # 0 /\ ~Lacks(c, ",")
    BY <1>3, Zenon DEF BodyTells
  <2> HIDE DEF b, c
  <2> QED
    BY <1>6, <2>1, <2>2, <2>3, Zenon
<1>8. \A k \in 1..m : PlainElement(v[k]) /\ PlainElement(w[k])
  <2>1. DOMAIN v = 1..m /\ DOMAIN w = 1..m
    BY <1>1, <1>2, <1>7
  <2> QED
    BY <2>1 DEF PlainArray
<1>9. ASSUME NEW k \in 1..m PROVE v[k] = w[k]
  <2>1. PlainElement(v[k]) /\ PlainElement(w[k])
    BY <1>8
  <2>2. Shown(v[k]) = Shown(w[k])
    <3>1. (m = 1 /\ k = 1) \/ (m = 2 /\ (k = 1 \/ k = 2))
      BY <1>1
    <3>2. CASE m = 1 /\ k = 1
      BY <1>3, <1>6, <1>7, <3>2, Zenon DEF BodyTells
    <3>3. CASE m = 2
      <4> DEFINE s == Shown(v[1])
                 t == Shown(v[2])
                 x == Shown(w[1])
                 y == Shown(w[2])
      <4>1. s \o (<< "," >> \o t) = x \o (<< "," >> \o y)
        BY <1>3, <1>6, <1>7, <3>3, Zenon DEF BodyTells
      <4>2. 1 \in 1..m /\ 2 \in 1..m
        BY <3>3
      <4>3. /\ PlainElement(v[1]) /\ PlainElement(v[2]) /\ PlainElement(w[1]) /\ PlainElement(w[2])
        BY <1>8, <4>2, Zenon
      <4>4. /\ s \in Seq(ArrayCharacter) /\ t \in Seq(ArrayCharacter)
            /\ x \in Seq(ArrayCharacter) /\ y \in Seq(ArrayCharacter)
            /\ Lacks(s, ",") /\ Lacks(t, ",")
        BY <4>3, ElementShown, Zenon
      <4>5. "," \in ArrayCharacter
        BY DEF ArrayCharacter
      <4> HIDE DEF s, t, x, y
      <4>6. s = x /\ t = y
        BY <4>1, <4>4, <4>5, JoinApart, Zenon
      <4> QED
        BY <3>1, <3>3, <4>6, Zenon DEF s, t, x, y
    <3> QED
      BY <3>1, <3>2, <3>3
  <2> QED
    BY <2>1, <2>2, ShownApart, Zenon
<1>10. v \in [1..m -> Elements] /\ w \in [1..m -> Elements]
  BY <1>1, <1>2, <1>7
<1> QED
  BY <1>9, <1>10

LEMMA BracketFirst ==
  ASSUME NEW S, NEW a \in S, NEW b \in S, NEW f \in Seq(S)
  PROVE  (<< a >> \o f \o << b >>)[1] = a
BY Bracketed, ZenonT(60)

LEMMA ArrayNotNull ==
  ASSUME NEW v, PlainArray(v)
  PROVE  Arr1(v) # NullText
<1>1. PICK m \in 0..2 : v \in [1..m -> Elements]
  BY DEF PlainArray
<1> DEFINE b == Body(v)
<1>2. b \in Seq(ArrayCharacter)
  BY <1>1, BodyIs DEF BodyTells
<1>3. "[" \in ArrayCharacter /\ "]" \in ArrayCharacter
  BY DEF ArrayCharacter
<1> HIDE DEF b
<1> DEFINE h == << "[" >> \o b \o << "]" >>
<1>4. h[1] = "["
  BY <1>2, <1>3, BracketFirst, Zenon
<1>5. Arr1(v) = h
  BY Arr1Is DEF b
<1> HIDE DEF h
<1> QED
  BY <1>4, <1>5, NullTextIs

LEMMA ArrayText ==
  ASSUME NEW pair \in Pair, RuleOf(pair.source) = "ARR_1", RuleOf(pair.target) = "ARR_1",
         NEW column, NEW v, v # None, Plainly(pair, column, v)
  PROVE  /\ Text(pair, column, v) = Arr1(v) /\ Meaning(pair, v) = << "array", v >>
         /\ PlainArray(v)
<1>1. /\ column \in Columns /\ RuleOf(column) = "ARR_1"
      /\ column.engine \in {"postgres", "clickhouse"}
      /\ v \in Holds(column)
  BY PairKinds, RuleOfColumn DEF Plainly, Columns2
<1>2. Rules(pair) = {"ARR_1"}
  BY DEF Rules, RuleOf
<1>3. Meaning(pair, v) = << "array", v >>
  BY <1>2, Zenon DEF Meaning
<1>4. Agreed(pair).rule = None
  <2>1. Family("ARR_1") = "ARR_1"
    BY DEF Family
  <2> QED
    BY <2>1 DEF Agreed, Negotiate, RuleOf
<1>5. FinalRule(pair, column) = "ARR_1"
  BY <1>1, <1>4 DEF FinalRule, RuleOf
<1>6. ~Refused(column, FinalRule(pair, column))
  BY PlainValue DEF Plainly
<1>7. Text(pair, column, v) = Arr1(v)
  BY <1>1, <1>5, <1>6, EngineText DEF PostgresExpr, ClickHouseExpr
<1>8. PlainArray(v)
  <2>1. v \in Strings(Elements)
    BY <1>1 DEF Holds, RuleOf
  <2>2. /\ v # << << >> >>
        /\ \A k \in DOMAIN v : v[k] # None
             => v[k] # NullText /\ \A j \in DOMAIN v[k] : v[k][j] # ","
    <3>1. ~OddArray(v)
      BY <1>1, PlainValue DEF Plainly
    <3> QED
      BY <3>1, Zenon DEF OddArray
  <2>3. PICK m \in 0..2 : v \in [1..m -> Elements]
    BY <2>1 DEF Strings
  <2>4. \A k \in DOMAIN v : v[k] \in Elements
    BY <2>3
  <2> QED
    BY <2>2, <2>3, <2>4, Zenon DEF PlainArray, PlainElement
<1> QED
  BY <1>3, <1>7, <1>8

LEMMA ArraysAgree ==
  ASSUME NEW pair \in Pair, RuleOf(pair.source) = "ARR_1", RuleOf(pair.target) = "ARR_1"
  PROVE  /\ \A column, v : v # None /\ Plainly(pair, column, v) => NotNull(pair, column, v)
         /\ \A v, w : /\ v # None /\ Plainly(pair, pair.source, v)
                      /\ w # None /\ Plainly(pair, pair.target, w)
                      => Agrees(pair, v, w)
<1>1. ASSUME NEW column, NEW v, v # None, Plainly(pair, column, v)
      PROVE  /\ Text(pair, column, v) = Arr1(v) /\ Meaning(pair, v) = << "array", v >>
             /\ PlainArray(v)
  BY <1>1, ArrayText
<1>2. ASSUME NEW column, NEW v, v # None, Plainly(pair, column, v)
      PROVE  NotNull(pair, column, v)
  BY <1>1, <1>2, ArrayNotNull, TextsApart, Zenon DEF NotNull
<1>3. ASSUME NEW v, NEW w, v # None, Plainly(pair, pair.source, v),
             w # None, Plainly(pair, pair.target, w)
      PROVE  Agrees(pair, v, w)
  <2>1. /\ Text(pair, pair.source, v) = Arr1(v) /\ Meaning(pair, v) = << "array", v >>
        /\ Text(pair, pair.target, w) = Arr1(w) /\ Meaning(pair, w) = << "array", w >>
        /\ PlainArray(v) /\ PlainArray(w)
    BY <1>1, <1>3
  <2>2. << "array", v >> = << "array", w >> => v = w
    OBVIOUS
  <2>3. Arr1(v) = Arr1(w) => v = w
    BY <2>1, ArraysApart
  <2> QED
    BY <2>1, <2>2, <2>3, Zenon DEF Agrees
<1> QED
  BY <1>2, <1>3

-------------------------------------------------------------------------------
(* Any pair, NULL included.                                                 *)
PairAgrees(pair) ==
  /\ \A column, v : v # None /\ Plainly(pair, column, v) => NotNull(pair, column, v)
  /\ \A v, w : /\ v # None /\ Plainly(pair, pair.source, v)
               /\ w # None /\ Plainly(pair, pair.target, w)
               => Agrees(pair, v, w)

(* A uuid column against text that is trimmed or folded has no query.       *)
LEMMA FoldedUuid ==
  ASSUME NEW pair \in Pair, pair.trim \/ pair.lower, RuleOf(pair.target) = "UUID_1", NEW w
  PROVE  ~Plainly(pair, pair.target, w)
<1>1. /\ pair.target \in Columns /\ RuleOf(pair.source) = "STR_1"
  BY PairKinds
<1>2. pair.target.native = "uuid"
  BY <1>1, RuleOfColumn
<1>3. Agreed(pair).rule = "STR_2"
  BY <1>1 DEF Agreed, Negotiate, RuleOf
<1>4. FinalRule(pair, pair.target) = "STR_2"
  BY <1>3, CanonicalAssumption DEF FinalRule
<1>5. Refused(pair.target, FinalRule(pair, pair.target))
  BY <1>2, <1>4 DEF Refused
<1>6. KnownOfValue(pair, pair.target, w) = {"refused"}
  BY <1>5, Zenon DEF KnownOfValue
<1> QED
  BY <1>6 DEF Plainly

LEMMA EveryPair ==
  ASSUME NEW pair \in Pair, KnownOfPair(pair) = {}
  PROVE  PairAgrees(pair) \/ \A w : ~Plainly(pair, pair.target, w)
<1> DEFINE r == RuleOf(pair.source)
           q == RuleOf(pair.target)
<1>1. KindsOfPair(r, q) /\ (pair.trim \/ pair.lower => r = "STR_1")
  BY PairKinds
<1>2. Rules(pair) = {r, q}
  BY DEF Rules, RuleOf
<1>3. ~("FLT_1" \in {r, q} /\ {r, q} # {"FLT_1"})
  BY <1>2, PlainPair
<1> HIDE DEF r, q
<1>4. CASE r = "FLT_1" /\ q = "FLT_1"
  <2>1. PairAgrees(pair)
    BY <1>4, FloatsAgree DEF PairAgrees, r, q
  <2> QED
    BY <2>1
<1>5. CASE r \in {"INT_1", "DEC_1"} /\ q \in {"INT_1", "DEC_1"}
  <2>1. PairAgrees(pair)
    BY <1>5, NumbersAgree DEF PairAgrees, r, q
  <2> QED
    BY <2>1
<1>6. CASE TimedPair(pair)
  <2>1. PairAgrees(pair)
    BY <1>6, TimesAgree DEF PairAgrees
  <2> QED
    BY <2>1
<1>7. CASE r = "UUID_1" \/ q = "UUID_1"
  <2>1. CASE pair.trim \/ pair.lower
    <3>1. q = "UUID_1"
      BY <1>1, <1>7, <2>1
    <3> QED
      BY <2>1, <3>1, FoldedUuid DEF q
  <2>2. CASE ~(pair.trim \/ pair.lower)
    <3>1. UuidPair(pair)
      BY <1>7, <2>2 DEF UuidPair, r, q
    <3>2. PairAgrees(pair)
      BY <3>1, UuidsAgree DEF PairAgrees
    <3> QED
      BY <3>2
  <2> QED
    BY <2>1, <2>2
<1>8. CASE r = "STR_1" /\ q = "STR_1"
  <2>1. PairAgrees(pair)
    BY <1>8, StringsAgree DEF PairAgrees, r, q
  <2> QED
    BY <2>1
<1>9. CASE r = "ARR_1" /\ q = "ARR_1"
  <2>1. PairAgrees(pair)
    BY <1>9, ArraysAgree DEF PairAgrees, r, q
  <2> QED
    BY <2>1
<1>10. \/ r = "FLT_1" /\ q = "FLT_1"
       \/ r \in {"INT_1", "DEC_1"} /\ q \in {"INT_1", "DEC_1"}
       \/ TimedPair(pair)
       \/ r = "UUID_1" \/ q = "UUID_1"
       \/ r = "STR_1" /\ q = "STR_1"
       \/ r = "ARR_1" /\ q = "ARR_1"
  <2>1. CASE {r, q} \subseteq {"INT_1", "DEC_1", "FLT_1"}
    BY <1>3, <2>1
  <2>2. CASE {r, q} \subseteq {"TS_1", "TS_3"} \/ (r = "TIME_1" /\ q = "TIME_1")
    BY <2>2 DEF TimedPair, r, q
  <2> QED
    BY <1>1, <2>1, <2>2 DEF KindsOfPair
<1> QED
  BY <1>4, <1>5, <1>6, <1>7, <1>8, <1>9, <1>10

(* NULL is one text and one meaning on every engine.                        *)
LEMMA NullText1 ==
  ASSUME NEW pair, NEW column, KnownOfValue(pair, column, None) = {}
  PROVE  Text(pair, column, None) = NullText /\ Meaning(pair, None) = << "null" >>
<1>1. ~Refused(column, FinalRule(pair, column))
  <2> SUFFICES ASSUME Refused(column, FinalRule(pair, column)) PROVE FALSE
    OBVIOUS
  <2>1. KnownOfValue(pair, column, None) = {"refused"}
    BY Zenon DEF KnownOfValue
  <2> QED
    BY <2>1
<1>2. Text(pair, column, None) = NullText
  BY <1>1, Zenon DEF Text, NormaliseExpr
<1>3. Meaning(pair, None) = << "null" >>
  BY Zenon DEF Meaning
<1> QED
  BY <1>2, <1>3

LEMMA PlainValuesAgree ==
  ASSUME NEW pair \in Pair, NEW v, NEW w,
         Plainly(pair, pair.source, v), Plainly(pair, pair.target, w)
  PROVE  Agrees(pair, v, w)
<1>1. KnownOfPair(pair) = {}
  BY DEF Plainly
<1>2. PairAgrees(pair)
  BY <1>1, EveryPair
<1>3. CASE v # None /\ w # None
  BY <1>2, <1>3, Zenon DEF PairAgrees
<1>4. v = None => Text(pair, pair.source, v) = NullText /\ Meaning(pair, v) = << "null" >>
  BY NullText1 DEF Plainly
<1>5. w = None => Text(pair, pair.target, w) = NullText /\ Meaning(pair, w) = << "null" >>
  BY NullText1 DEF Plainly
<1>6. v # None => NotNull(pair, pair.source, v)
  BY <1>2, Zenon DEF PairAgrees
<1>7. w # None => NotNull(pair, pair.target, w)
  BY <1>2, Zenon DEF PairAgrees
<1>8. CASE v = None \/ w = None
  BY <1>4, <1>5, <1>6, <1>7, <1>8, Zenon DEF Agrees, NotNull
<1> QED
  BY <1>3, <1>8, Zenon

(* What the invariants call plain is what the lemmas do.                    *)
LEMMA PlainSides ==
  ASSUME CallInv, Returned, call.op = "render"
  PROVE  /\ call.pair \in Pair
         /\ \A a \in Plain(1) :
              \E v : /\ Plainly(call.pair, call.pair.source, v)
                     /\ a[1] = Meaning(call.pair, v) /\ a[2] = Text(call.pair, call.pair.source, v)
         /\ \A b \in Plain(2) :
              \E w : /\ Plainly(call.pair, call.pair.target, w)
                     /\ b[1] = Meaning(call.pair, w) /\ b[2] = Text(call.pair, call.pair.target, w)
<1>1. call.pair \in Pair
  BY CallOfOp DEF CallInv, RenderCalls
<1>2. result = Rendered(call.pair)
  BY DEF CallInv, Computed, Returns
<1> DEFINE s == call.pair.source
           t == call.pair.target
           left == [v \in Holds(s) |-> Text(call.pair, s, v)]
           right == [v \in Holds(t) |-> Text(call.pair, t, v)]
<1>3. result[1] = left /\ result[2] = right
  <2>1. result = << left, right >>
    BY <1>2 DEF Rendered
  <2> HIDE DEF left, right
  <2> QED
    BY <2>1
<1>4. ASSUME NEW a \in Plain(1)
      PROVE  \E v : /\ Plainly(call.pair, s, v)
                    /\ a[1] = Meaning(call.pair, v) /\ a[2] = Text(call.pair, s, v)
  <2>1. PICK v \in Holds(s) : Known(call.pair, s, v) = {} /\ a = << Meaning(call.pair, v), result[1][v] >>
    BY DEF Plain
  <2>2. result[1][v] = Text(call.pair, s, v)
    BY <1>3, <2>1
  <2>3. Plainly(call.pair, s, v)
    BY <2>1 DEF Plainly, Known, Columns2
  <2>4. a[1] = Meaning(call.pair, v) /\ a[2] = result[1][v]
    BY <2>1
  <2> QED
    BY <2>2, <2>3, <2>4, Zenon
<1>5. ASSUME NEW b \in Plain(2)
      PROVE  \E w : /\ Plainly(call.pair, t, w)
                    /\ b[1] = Meaning(call.pair, w) /\ b[2] = Text(call.pair, t, w)
  <2>1. PICK w \in Holds(t) : Known(call.pair, t, w) = {} /\ b = << Meaning(call.pair, w), result[2][w] >>
    BY DEF Plain
  <2>2. result[2][w] = Text(call.pair, t, w)
    BY <1>3, <2>1
  <2>3. Plainly(call.pair, t, w)
    BY <2>1 DEF Plainly, Known, Columns2
  <2>4. b[1] = Meaning(call.pair, w) /\ b[2] = result[2][w]
    BY <2>1
  <2> QED
    BY <2>2, <2>3, <2>4, Zenon
<1> QED
  BY <1>1, <1>4, <1>5

LEMMA PlainAgree ==
  ASSUME CallInv, Returned, call.op = "render", NEW a \in Plain(1), NEW b \in Plain(2)
  PROVE  a[1] = b[1] <=> a[2] = b[2]
<1>1. PICK v : /\ Plainly(call.pair, call.pair.source, v)
               /\ a[1] = Meaning(call.pair, v) /\ a[2] = Text(call.pair, call.pair.source, v)
  BY PlainSides
<1>2. PICK w : /\ Plainly(call.pair, call.pair.target, w)
               /\ b[1] = Meaning(call.pair, w) /\ b[2] = Text(call.pair, call.pair.target, w)
  BY PlainSides
<1>3. PICK pair \in Pair : pair = call.pair
  BY PlainSides
<1>4. Agrees(pair, v, w)
  BY <1>1, <1>2, <1>3, PlainValuesAgree
<1> QED
  BY <1>1, <1>2, <1>3, <1>4 DEF Agrees

(* Values that mean the same have one text, whichever engines made them: no *)
(* difference is reported for them, but where a departure is known.         *)
THEOREM NoFalseDifferences == Spec => []NoFalseDifference
<1>1. CallInv => NoFalseDifference
  BY PlainAgree DEF NoFalseDifference
<1> QED
  BY <1>1, EachCall, PTL

(* Values that do not mean the same have different texts, NULL included: no *)
(* difference is missed, but where a departure is known.                    *)
THEOREM NoFalseMatches == Spec => []NoFalseMatch
<1>1. CallInv => NoFalseMatch
  BY PlainAgree DEF NoFalseMatch
<1> QED
  BY <1>1, EachCall, PTL
===============================================================================
