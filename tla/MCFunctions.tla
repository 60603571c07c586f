----------------------------- MODULE MCFunctions -----------------------------
(***************************************************************************)
(* Every small input of the pure functions of Segmentation, RowHash,        *)
(* Sampling and CanonicalForm, one call per behaviour: Init picks the       *)
(* arguments, an action runs the function, and the invariants speak of the  *)
(* arguments and the result together.                                       *)
(***************************************************************************)
EXTENDS Sampling, CanonicalForm

CONSTANTS MaxKey,      \* keys are 0..MaxKey
          FarKeys,     \* the ends of a few more numeric ranges, from 0 on
          MaxParts,    \* largest number of segments asked for
          MaxSample,   \* longest sample
          MaxRows,     \* rows of a segment that is hashed
          MaxCount,    \* rows of a table that is sampled
          MaxText,     \* longest text of a column that is joined with another's
          Number,      \* numbers, in units of Ten^-Scale
          Instant      \* instants, in units of Ten^-Nano seconds

ASSUME ValuesAssumption == Number \subseteq Int /\ Instant \subseteq Int

ASSUME RangeAssumption == MaxKey \in Nat /\ FarKeys \subseteq Nat

VARIABLES call,        \* the arguments of one call
          result       \* its result, << >> before the call

vars == << call, result >>

Keys == 0..MaxKey

(* Sorted samples; NULL keys, if the sample drew any, sort last. *)
SortsBefore(a, b) == b = None \/ (a # None /\ a <= b)
SortedSamples(K) ==
  { s \in UNION { [1..m -> K \cup {None}] : m \in 0..MaxSample } :
      \A i \in 1..(Len(s) - 1) : SortsBefore(s[i], s[i + 1]) }

(* The ranges to FarKeys are so wide that the floats there are sparse.      *)
Bounded == { Seg(l, h) : l \in Keys, h \in Keys } \cup { Seg(0, h) : h \in FarKeys }
Unbounded == { Seg(l, None) : l \in Keys }

(* The bounds query and the sample query run one after the other on live   *)
(* tables, so an initial sample need not lie between lo and hi.            *)
InitialCalls ==
  [op : {"initial"}, numeric : {TRUE}, num : 1..MaxParts,
   seg : Bounded, samples : {<< >>}]
  \cup
  [op : {"initial"}, numeric : {FALSE}, num : 1..MaxParts,
   seg : Unbounded, samples : SortedSamples(Keys)]

BisectCalls ==
  [op : {"bisect"}, numeric : {TRUE}, num : {2},
   seg : Bounded \cup Unbounded, samples : {<< >>}]
  \cup
  [op : {"bisect"}, numeric : {FALSE}, num : {2},
   seg : Bounded \cup Unbounded, samples : SortedSamples(Keys)]

(* What the callers guarantee: the numeric bounds of one query have         *)
(* lo <= hi, a segment that is bisected holds a row, and a sample drawn     *)
(* inside a segment holds only keys of that segment.                        *)
Sensible(c) ==
  /\ c.seg.hi # None => IF c.op = "initial" THEN c.seg.lo <= c.seg.hi
                                            ELSE c.seg.lo < c.seg.hi
  /\ c.op = "bisect" =>
       \A i \in DOMAIN c.samples : InSegment(c.samples[i], c.seg)

(* The digests of a segment's rows, in the order one engine meets them.     *)
HashCalls ==
  [op : {"hash"}, digests : UNION { [1..m -> Digest] : m \in 0..MaxRows }]

(* --sample-rows; the number is not validated and may be negative.          *)
SampleCalls ==
  [op : {"sample"}, rows : -1..(MaxCount + 1), source : 0..MaxCount, target : 0..MaxCount]

Numbers == -72..72
Instants == -80..130

(* The columns of each engine, by native type and digits, and what they hold. *)
Columns ==
  { PostgresColumn(t[1], t[2]) :
      t \in {"double precision", "text", "uuid", "_text", "_timestamptz"} \X {None}
            \cup {"bigint"} \X {0} \cup {"numeric"} \X ({None} \cup (0..Scale))
            \cup {"timestamp with time zone", "timestamp without time zone", "time"}
                 \X (0..Micro) }
  \cup
  { ClickHouseColumn(t[1], t[2]) :
      t \in { "Int64", "Float64", "DateTime", "String", "UUID", "Array" } \X {None}
            \cup {"Decimal"} \X (0..Scale) \cup {"DateTime64"} \X (0..Nano) }
  \cup
  { SnowflakeColumn(t[1], t[2]) :
      t \in { "FLOAT", "TEXT" } \X {None} \cup {"NUMBER"} \X (0..Scale)
            \cup {"TIME", "TIMESTAMP_NTZ", "TIMESTAMP_TZ"} \X (0..Nano) }

Strings(alphabet) == UNION { [1..m -> alphabet] : m \in 0..2 }

UuidForms == { << "uuid", id, case, form >> :
                 id \in {"u1", "u2"}, case \in {"lower", "upper"}, form \in {"hyphens", "plain"} }

Elements == { None, << >>, << "a" >>, << "," >>, << "a", "a" >>, NullText }

Holds(column) ==
  LET rule == PickRule(column.native)
  IN  {None} \cup
      CASE rule = "INT_1" -> { n \in Number : n % Power(Scale) = 0 }
        [] rule = "DEC_1" -> { n \in Number : n % Power(Scale - Digits(column, Scale)) = 0 }
        [] rule = "FLT_1" -> Number
        [] rule \in {"TS_1", "TS_3", "TIME_1"} ->
             { i \in Instant : /\ i % Power(Nano - Digits(column, Micro)) = 0
                               /\ rule = "TIME_1" => i \in 0..(Day * Power(Nano) - 1) }
        [] rule = "UUID_1" -> { u \in UuidForms : u[3] = "lower" /\ u[4] = "hyphens" }
        [] rule = "ARR_1"  -> Strings(Elements)
        [] rule = "STR_1"  -> Strings({"a", "A", "e'", "E'", " "}) \cup UuidForms
                              \cup {NullText, NullText \o << " " >>}

(* The pairs match_columns compares, but for those with an unmapped type.  *)
Pair == { p \in [source : Columns, target : Columns, trim : BOOLEAN, lower : BOOLEAN] :
            /\ Compatible(PickRule(p.source.native), PickRule(p.target.native))
            /\ p.trim \/ p.lower => PickRule(p.source.native) = "STR_1" }

RenderCalls == [op : {"render"}, pair : Pair]

(* A few pairs that show what the departures of CanonicalForm lead to.      *)
AuditPairs ==
  LET P(t, d) == PostgresColumn(t, d)
      C(t, d) == ClickHouseColumn(t, d)
      S(t, d) == SnowflakeColumn(t, d)
      tz      == "timestamp with time zone"
  IN  { [source |-> c[1], target |-> c[2], trim |-> c[3], lower |-> c[4]] :
          c \in { << P("numeric", None), P("numeric", None), FALSE, FALSE >>,
                  << P("numeric", 2), S("NUMBER", 2), FALSE, FALSE >>,
                  << P("double precision", None), C("Float64", None), FALSE, FALSE >>,
                  << P("double precision", None), P("numeric", 2), FALSE, FALSE >>,
                  << P(tz, Micro), S("TIMESTAMP_TZ", 0), FALSE, FALSE >>,
                  << P(tz, Micro), S("TIMESTAMP_TZ", Nano), FALSE, FALSE >>,
                  << P(tz, Micro), C("DateTime64", Micro), FALSE, FALSE >>,
                  << P("uuid", None), P("text", None), FALSE, FALSE >>,
                  << P("text", None), C("String", None), TRUE, FALSE >>,
                  << P("text", None), C("String", None), FALSE, TRUE >>,
                  << P("text", None), P("uuid", None), TRUE, FALSE >>,
                  << P("_text", None), P("_text", None), FALSE, FALSE >> } }

AuditValue(column) ==
  IF PickRule(column.native) \in {"STR_1", "UUID_1", "ARR_1"} THEN Holds(column)
  ELSE Holds(column) \cap ({None} \cup -1..4 \cup {16, 20, -8, 63, 64, 65})

AuditCalls == [op : {"audit"}, pairs : {AuditPairs}]

(* Two columns' texts in a row, characters of which may be the separator.   *)
RowTexts == [1..2 -> UNION { [1..m -> {"a", Separator}] : m \in 0..MaxText }]

ConcatCalls == [op : {"concat"}, row : RowTexts]

Init ==
  /\ call \in { c \in InitialCalls \cup BisectCalls : Sensible(c) }
             \cup HashCalls \cup SampleCalls
             \cup RenderCalls \cup AuditCalls \cup ConcatCalls
  /\ result = << >>

InitialCall ==
  /\ call.op = "initial" /\ result = << >>
  /\ result' = InitialSegments(call.numeric, call.num, call.seg.lo, call.seg.hi,
                               call.samples)
  /\ UNCHANGED call

BisectCall ==
  /\ call.op = "bisect" /\ result = << >>
  /\ result' = Bisect(call.numeric, call.seg, call.samples)
  /\ UNCHANGED call

(* For every engine the rows' hashes, their buckets and the aggregate, which *)
(* the second engine of a pair may compute in any other order.              *)
HashCall ==
  /\ call.op = "hash" /\ result = << >>
  /\ result' =
       [e \in Engine |->
          [rows      |-> [i \in DOMAIN call.digests |-> RowHash(e, call.digests[i])],
           buckets   |-> [i \in DOMAIN call.digests |-> Bucket(e, call.digests[i])],
           aggregate |-> AggregateHash(e, call.digests)]]
  /\ UNCHANGED call

SampleCall ==
  /\ call.op = "sample" /\ result = << >>
  /\ result' = << KeptBuckets(SampleRows(call.rows, call.source, call.target)) >>
  /\ UNCHANGED call

(* The texts of every value on both sides. *)
RenderCall ==
  /\ call.op = "render" /\ result = << >>
  /\ result' = << [v \in Holds(call.pair.source) |-> Text(call.pair, call.pair.source, v)],
                  [v \in Holds(call.pair.target) |-> Text(call.pair, call.pair.target, v)] >>
  /\ UNCHANGED call

ConcatCall ==
  /\ call.op = "concat" /\ result = << >>
  /\ result' = << RowText(call.row) >>
  /\ UNCHANGED call

(* Names the departures that alone make two values of a pair compare        *)
(* otherwise than they should, or the query fail.                           *)
Departures(pair) ==
  { d \in UNION { Known(pair, pair.source, v) \cup Known(pair, pair.target, w) :
                    v \in AuditValue(pair.source), w \in AuditValue(pair.target) } :
      \E v \in AuditValue(pair.source), w \in AuditValue(pair.target) :
        /\ Known(pair, pair.source, v) \cup Known(pair, pair.target, w) = {d}
        /\ \/ d = "refused"
           \/ (Text(pair, pair.source, v) = Text(pair, pair.target, w))
                # (Meaning(pair, v) = Meaning(pair, w)) }

(* Names an empty sample where one row or more is asked for and both tables *)
(* have rows: it compares nothing and is reported as MATCH.                 *)
SampleDepartures ==
  { d \in {"empty_sample"} :
      \E c \in SampleCalls :
        /\ c.rows >= 1 /\ c.source > 0 /\ c.target > 0
        /\ KeptBuckets(SampleRows(c.rows, c.source, c.target)) = {} }

AuditCall ==
  /\ call.op = "audit" /\ result = << >>
  /\ result' = << SampleDepartures \cup UNION { Departures(pair) : pair \in call.pairs } >>
  /\ UNCHANGED call

Returned == result # << >>

Terminated == Returned /\ UNCHANGED vars

Next == \/ InitialCall \/ BisectCall \/ HashCall \/ SampleCall
        \/ RenderCall \/ ConcatCall \/ AuditCall \/ Terminated

Spec == Init /\ [][Next]_vars

-------------------------------------------------------------------------------
(* The range a call must cover: everything from lo up for the initial       *)
(* segmentation, exactly the parent for a bisection.                        *)
Whole == IF call.op = "initial" THEN Seg(call.seg.lo, None) ELSE call.seg

(* The keys that are looked up in the result, some outside the range. *)
KeysAround ==
  -1..(2 + IF call.seg.hi = None THEN 2 * MaxKey ELSE Greater(call.seg.hi, 2 * MaxKey))

Owners(k) == { i \in DOMAIN result : InSegment(k, result[i]) }

(* Every key of the range is in exactly one of the segments, no key is in   *)
(* two, and a bisection claims none of its siblings' keys: a gap would hide *)
(* a difference on both sides at once, an overlap would count it twice.     *)
(* This is what assert_contiguous_coverage stands for but does not itself   *)
(* establish: it compares neighbouring ends and never looks at their order. *)
(* (A sample drawn after a row was inserted below lo may reach below lo;    *)
(* that costs nothing.)                                                     *)
TilesExactlyOnce ==
  Returned /\ call.op \in {"initial", "bisect"} =>
    \A k \in KeysAround :
      /\ Cardinality(Owners(k)) <= 1
      /\ InSegment(k, Whole) => Owners(k) # {}
      /\ call.op = "bisect" /\ ~InSegment(k, Whole) => Owners(k) = {}

(* The defensive assertion in both callers never fires.  (A bisection that  *)
(* returns the segment itself is not asserted on; the equation holds there  *)
(* too.)                                                                    *)
AssertionHolds ==
  Returned /\ call.op \in {"initial", "bisect"} => ContiguousCoverage(result, Whole.lo, Whole.hi)

(* Bisecting a bounded numeric segment of two keys or more makes real       *)
(* progress: both parts are smaller than the parent and neither is empty,   *)
(* so for integer keys recursion ends without the depth limit.              *)
BisectShrinks ==
  Returned /\ call.op = "bisect" /\ call.numeric /\ call.seg.hi # None
           /\ call.seg.hi - call.seg.lo >= 2
    => /\ Len(result) = 2
       /\ \A i \in 1..2 : result[i].lo < result[i].hi

(* "Every unit value maps into exactly one segment and the segments come    *)
(* out balanced": over dense keys lo..hi no two segments differ by more     *)
(* than one key, as long as the keys times the segments are an eighth of    *)
(* FloatLimit at most (2^50 in the code).  A wider range is cut at rounded  *)
(* multiples of a rounded width, and its segments may differ by more.       *)
Balanceable(keys, n) == 8 * keys * n <= FloatLimit /\ 4 * n * n <= FloatOne

SegmentsBalanced ==
  LET size(i) == Cardinality({ k \in call.seg.lo..call.seg.hi : i \in Owners(k) })
  IN  Returned /\ call.op = "initial" /\ call.numeric
        => (Balanceable(call.seg.hi - call.seg.lo + 1, call.num)
              => \A i, j \in DOMAIN result : size(i) <= size(j) + 1)

-------------------------------------------------------------------------------
(* "Both sides compute the same MD5-derived 64-bit value from the same      *)
(* canonical string": three engines with different byte orders and integer  *)
(* types agree on every row, whatever its top bit, and on which sample it   *)
(* belongs to ("both sides pick the same rows"); a bucket is one of the     *)
(* SampleModulus the threshold counts.                                      *)
EnginesAgree ==
  Returned /\ call.op = "hash" =>
    \A e, f \in Engine :
      /\ result[e].rows = result[f].rows
      /\ result[e].buckets = result[f].buckets
      /\ \A i \in DOMAIN result[e].buckets : result[e].buckets[i] \in 0..(SampleModulus - 1)

(* A segment's hash is the sum of its rows' unsigned hashes modulo 2^64: it *)
(* depends neither on their order nor on the signs of partial sums, so a    *)
(* single changed row always changes it.                                    *)
AggregateIsModularSum ==
  Returned /\ call.op = "hash" =>
    LET n == Len(call.digests)
        sum[i \in 0..n] == IF i = 0 THEN 0 ELSE sum[i - 1] + BigEndian(call.digests[i])
    IN  \A e \in Engine : result[e].aggregate = sum[n] % Width

(* --sample-rows N asks for about N rows: when N covers both tables every   *)
(* row is kept, and otherwise on neither side does the share kept of its    *)
(* rows exceed N by more than half a bucket - of tables whose rows a float  *)
(* can divide closely enough, up to FloatLimit / (16 * SampleModulus) of    *)
(* them (more than 10^11 in the code).                                      *)
SampleAsAsked ==
  Returned /\ call.op = "sample" =>
    LET kept   == Cardinality(result[1])
        larger == Greater(call.source, call.target)
    IN  IF call.rows >= larger
        THEN kept = SampleModulus
        ELSE 16 * SampleModulus * larger <= Lesser(FloatLimit, FloatOne) =>
               \A count \in {call.source, call.target} :
                 2 * kept * count <= 2 * Greater(call.rows, 0) * SampleModulus + count

-------------------------------------------------------------------------------
(* The meanings and texts of the values of a side that no known departure   *)
(* concerns.                                                                *)
Plain(side) ==
  LET column == IF side = 1 THEN call.pair.source ELSE call.pair.target
  IN  { << Meaning(call.pair, v), result[side][v] >> :
          v \in { u \in Holds(column) : Known(call.pair, column, u) = {} } }

(* "Cross-engine hash equality": values that mean the same, at the lower    *)
(* scale or precision of their columns, have one text, whichever of the     *)
(* three engines made it, so that no difference is reported for them.       *)
NoFalseDifference ==
  Returned /\ call.op = "render" =>
    \A a \in Plain(1), b \in Plain(2) : a[1] = b[1] => a[2] = b[2]

(* "Never report MATCH when rows differ": values that do not mean the same  *)
(* have different texts, NULL included.                                     *)
NoFalseMatch ==
  Returned /\ call.op = "render" =>
    \A a \in Plain(1), b \in Plain(2) : a[2] = b[2] => a[1] = b[1]

(* Two rows of different texts are joined to different strings, unless a    *)
(* text contains the separator itself.                                      *)
RowsApart ==
  Returned /\ call.op = "concat" =>
    \A row \in RowTexts :
      RowText(row) = result[1] =>
        \/ row = call.row
        \/ \E k \in 1..2 : Separator \in { row[k][i] : i \in DOMAIN row[k] }

(* SPEC.md's "Never report MATCH when rows differ" and its table of rules,  *)
(* and "a deterministic sample of approximately N rows" of --sample-rows,   *)
(* with no exception: nothing departs from them.                            *)
FollowsContract == Returned /\ call.op = "audit" => result[1] = {}
===============================================================================
