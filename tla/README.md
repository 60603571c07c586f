# A verification development for rowproof

rowproof compares a table in one database with a table in another and says
either MATCH or which rows differ. These modules model its core in TLA+: how a
key range is cut into segments, how a value becomes the text it is compared as,
how rows are hashed and sampled, the two diff algorithms, the worker pool, the
matching of columns and a command line session. TLC checks them on small
instances; TLAPS proves every invariant of every passing run, and the refinement of
the abstract specification, for all values of the constants. All paths below are relative to `src/`.

## The system

| Part | Where | State it keeps | Operations | Correct when |
|---|---|---|---|---|
| segmentation | `rowproof/core/segmentation.py`, `_initial_segments` and `_bisect` in `core/hashdiff.py` | none: pure functions | cut a numeric range, cut at sampled quantiles, clamp, bisect | the segments tile the range exactly |
| hashdiff, sequential | `core/hashdiff.py` | the plan of either side, the `DiffResult`, the recursion | uniqueness, bounds, statistics per segment, bisection, row fetch, classification | the report is the exact classification of the rows; MATCH is never false |
| hashdiff, parallel | `_diff_segments_parallel`, `_ConnectorPool` | queues of connections, two locks, a shared `DiffResult` | submit, acquire, query, classify under the lock, release | no update lost, no connection shared or lost, the call ends |
| joindiff | `core/joindiff.py` | the `DiffResult` | two uniqueness checks, two counts, one aggregate query over a FULL OUTER JOIN, one bounded detail query | the same report as hashdiff |
| column matching | `core/column_matching.py`, `_apply_column_match` | matched and excluded names, overrides, warnings, the target's name dictionary | match, exclude, override, alias, warn | no column dropped and nothing assumed silently, both sides render a pair alike |
| normalisation | `core/normalisation.py`, `get_schema` and `normalise_expr` of each connector | none | translate a type, choose a rule, render a column | values have one text on any two engines exactly when they mean the same |
| connectors | `connectors/` | one open connection each | schema, primary key, SQL fragments, `query` | autocommit; one query at a time |
| sampling | `_apply_sample_predicate`, `_resolve_sample_pct` | the plan's WHERE | derive a percentage, restrict both sides to the same hash buckets | both sides keep the same rows |
| command line | `cli/`, `config/`, `report/` | open connectors, the SQL log, the reports that are out, the exit code | connect with retries, dispatch, render, close | exit code 0, 1 or 2 as documented, and as the reports say; everything closed |

How they interact: `cmd_diff` opens one connector per side (and, with
`--threads N`, N more), chooses an algorithm and calls `hashdiff.diff` or
`joindiff.diff`. Both build a plan per side, match the columns, check that the
key is unique and then issue queries. hashdiff calls segmentation for the cuts
and shares one `DiffResult` with its workers. Nothing is persisted and nothing
is retried once connected: an error ends the run with exit code 2.

What is hard here:

* *Live tables.* Connectors run in autocommit. Bounds, sample, statistics and row
  fetches are separate queries on two servers; other sessions write in between.
* *Threads.* Tasks share counters, a list and two pools of connections.
* *Boundaries.* Rounded cuts, inclusive and exclusive ends, open-ended last
  segments, samples that miss the ends, NULL keys, sums over no rows, caps.
* *Three engines, one number.* Two tables are compared through 64-bit numbers that
  each engine computes with its own byte order, signs and integer types.
* *Three engines, one text.* Each engine renders a value with its own functions:
  ties, signs, carries, padding and the last digit must come out alike.
* *Failure at any step.* A command opens up to 2 + 2N connections, one after the
  other, and can fail before, between and after them, or between two outputs.
* *Two sides, one name.* A column has one name in the plan and another on the
  target; overrides and aliases are dictionaries keyed by one of them.

## The modules

| Module | Models | State and actions |
|---|---|---|
| `Sql` | the `%`, `MOD` and `round()` of the engines, Python's `round()`, powers, and `None` | operators, the base of the pure modules |
| `Floats` | Python's float, with any number of significant bits | operators: `Nearest` rounds what an operation would give exactly |
| `Segmentation` | `segmentation.py`, `_segment_where`, `_initial_segments`, `_bisect` | operators, one per function |
| `RowSets` | what a table is; `_duplicate_check_sql`, `_classify_rows`, `_maybe_append` | operators |
| `RowHash` | `row_hash_expr` and `aggregate_hash_expr` of the three connectors | operators, from the digest on |
| `Normalisation` | `pick_rule`, `_families_compatible`, what `match_columns` negotiates for a pair | operators |
| `CanonicalForm` | `get_schema`'s types and `normalise_expr` of the three connectors, the join of `row_hash_expr`; and what `SPEC.md` promises of them | operators: `PostgresExpr`, `ClickHouseExpr`, `SnowflakeExpr`, against `Meaning` |
| `Sampling` | `_resolve_sample_pct`, `_apply_sample_predicate` | operators |
| `DiffSpec` | nothing of the code: what a diff promises | two tables, one outcome; one step to an exact report or to the error for a key that is not unique |
| `HashDiff` | `hashdiff.diff` with one thread | one action per query; `stack` is the Python call stack, each frame a loop over segments |
| `SegmentPool` | `_diff_segments_parallel` | one action per atomic step of a worker or of the calling thread; `+=` on shared state is a read and a write |
| `JoinDiff` | `joindiff.diff` | one action per query |
| `ColumnMatching` | `match_columns`, `_apply_column_match`, `_append_run_level_warnings`, `rule_for`, the override lookup of `normalise_expr` | one action per turn of either loop |
| `CliSession` | `cmd_diff`, `cmd_explain`, `cmd_run`, `cmd_connections_test`, `_connect_pair`, `_connect_with_retry`, what `render_terminal`, `render_json` and `render_html` state | one action per step that can succeed or fail; `open` is what is connected, `owned` what the `finally` block will close, `reports` what is out |
| `SegmentationProofs` | | theorems about `Segmentation`, lemmas about `RowSets`, and those about least and greatest elements, ranks and cardinalities that other proof modules use |
| `FunctionsProofs` | | theorems about the calls of `MCFunctions`: `Segmentation`, `Sampling`, `RowHash`, the join of `CanonicalForm` |
| `RenderingProofs` | | theorems about its other call, the texts of `CanonicalForm` |
| `HashDiffProofs`, `SegmentPoolProofs`, `JoinDiffProofs`, `CliSessionProofs`, `ColumnMatchingProofs` | | theorems about the module each is named for |
| `MC...` | | the instances TLC checks; in `MCFunctions` a behaviour is one call of a pure function |

`HashDiff` extends `Segmentation` and `RowSets`, so the segments it works with
are those the code computes. `SegmentPool` takes what a segment's recursion finds
as a constant: that two row fetches never bring the same difference is its
assumption `BatchesAssumption` and `HashDiff`'s invariant `CountedAtMostOnce`.
`HashDiff` is shown to implement `DiffSpec` by a refinement mapping, and
`JoinDiff`'s report is compared with `DiffSpec`'s.

Abstractions:

* A row is a key and a value. A table is a set of values per key, so a key may be
  absent, unique or duplicated.
* A segment's aggregate hash is the set of its rows: collisions are left out.
* Keys are integers; for text and uuid keys they stand for the rank in the
  order `key_order_expr` sorts by, the only thing the code asks of them.
  `Lead[k]` is the leading column of a composite key, `None` if it is NULL.
* Keys compare as equal across both engines, and rendering of values is equal
  exactly when the values are.
* `--where` and the sampling predicate are part of what a table means: after
  `_apply_sample_predicate` a sample is a smaller table.
* MD5 is left out: a row is its digest. Bytes, their number and the modulus 1000
  are constants; the instance keeps what matters, that the modulus does not divide
  the width, so that signed and unsigned readings fall into different buckets.
* In `CanonicalForm` a number is an integer in units of its last digit, digits are
  the number they spell, and a text is a tag with its parts: enough to tell two
  texts apart wherever the engines' formulas can. Logarithms and the division of a
  float are exact. NaN, infinities, booleans, dates, bytes and enum labels are
  literals or casts on every engine and are left out; so are jsonb and types
  without a rule, which are compared as each engine prints them.
* In `CliSession` a comparison finds one of four things (are the counts equal? are
  the rows?), or fails. Of the SQL in a report only the sender matters: the pair of
  main connectors, or a pool. A failed `connect()` leaves
  its connector unconnected, as all three connectors assign the connection last;
  `close()` of a driver does not raise; the user does not press Ctrl-C.
* A sample is any subset of the rows of the sampled size.
* A float is a whole number of units, the least positive float; an operation gives
  the float nearest to its exact result, ties to the even significand, as IEEE 754
  has it. This is the arithmetic of the width and cuts of `segment_numeric_range`
  (`segmentation.py:63` and after) and of the shares of a sample (`hashdiff.py:443`
  and `464`). Overflow beyond 2^1024 is left out, and so are decimal keys, which
  Python cuts in `Decimal` arithmetic.

Operators called `...Mutant`, or named for what they get wrong, and marked
`\* mutation`, are plausible slips of the code. No specification uses them; they
show that a property fails when the definition below them is replaced.

## The runs

| Run | Checks | Shows |
|---|---|---|
| `pure_functions` | `TilesExactlyOnce`, `AssertionHolds`, `BisectShrinks`, `SegmentsBalanced`, `EnginesAgree`, `AggregateIsModularSum`, `SampleAsAsked`, `NoFalseDifference`, `NoFalseMatch`, `RowsApart` | over every call with keys 0..6, up to 5 parts and every sorted sample of up to 4 keys, NULLs and keys outside the bounds included, and ranges so wide that floats have gaps; every segment of up to 3 rows with digests of two 4-valued bytes; every sample of -1 to 13 rows of two tables of up to 12; two texts of up to 3 characters, the separator among them, joined to a row; every pair of columns of two engines, of the types listed under "Abstractions", with every value of a range |
| `hashdiff_static` | `TypeInv`, `CapExact`, `RecursionBounded`, `ImplementsDiffSpec`, `Terminates` | every pair of tables over 4 keys and 2 values, and pairs with a duplicated key; numeric and sampled segmentation |
| `hashdiff_live` | `MatchIsTrue`, `StableRowsExact`, `CountedAtMostOnce` | up to 2 writes by other sessions between any two queries |
| `segment_pool` | `TypeInv`, `ConnectionsExclusive`, `NeverWaitsForConnection`, `CountsExact`, `QueriesExact`, `CleanExit`, `Ends` | every interleaving of 2 workers over 3 segments, two of which may fail |
| `joindiff` | `TypeInv`, `MatchIsTrue`, `StableRowsListed`, `ExactWhenQuiet`, `DuplicatesRejected` | every pair of tables over 3 keys, up to 2 writes; one connection, or two and no table of the target's name on the source's server |
| `cli_session` | `TypeInv`, `ConnectionsBracketed`, `ExitCodeTruthful`, `ReportsAgree`, `ShortOutagesSurvived`, `Ends` | every invocation of the four commands with up to two tables, with failures at every step; a report never lists SQL that was not sent, and lists all of it where no pool sent any |
| `column_matching` | `TypeInv`, `SaysWhatItAssumes`, `AliasFaithfulUnchained`, `SameNameRendersAlike` | 30 720 calls: types, target names and orders, column maps |

Five runs are expected to fail; each refutes a sentence of the documentation:

| Run | Property | Sentence | What the code does |
|---|---|---|---|
| `hashdiff_null_key` | `MatchIsTrue` | `SPEC.md:336` "Never report MATCH when rows differ" | rows with a NULL leading key are in no segment |
| `canonical_contract` | `FollowsContract` | `SPEC.md:336` again, the rules of `SPEC.md:188` and after, and `rowproof/cli/main.py:511` "diff a deterministic sample of approximately N rows" | the thirteen departures listed below |
| `joindiff_forced` | `NoSilentWrongAnswer` | docstring at `core/joindiff.py:219`, "not a silent wrong answer" | `--algorithm joindiff` is obeyed for two connections: the source's server joins the source with its own table of the target's name, and the target's rows are never read |
| `unlogged_sql` | `JsonHoldsEveryStatement` | `SPEC.md:300` "plus every generated SQL statement"; the comment at `rowproof/cli/main.py:147` and the docstring at `rowproof/cli/render.py:78` repeat it | `_connect_pair` gives the pools' connectors no hook: with more than one thread, and the default is four, no statement about a segment is in the JSON output |
| `column_map_swap` | `MatchApplied` | docstring at `core/hashdiff.py:380`, "render matched columns identically", and `:390`, the source's name "resolves there - to the target's real Column object" | in one final state of a swap of two decimals: the alias loop reads the dictionary it changes, so that `y` resolves to the target's `y` and not to the `x` it was matched with (chained names fare alike); and the pair of `x` is rendered to two digits on the source and one on the target, because an override is stored under the source's name and looked up under each side's own (any renamed pair, also one renamed in case only) |

### Where the functions depart from the rules

`NoFalseDifference` and `NoFalseMatch` hold for every value and pair of columns
that none of the following names applies to (`Known` in `CanonicalForm`), and
`FollowsContract` is violated by a state that lists all twelve of them: each is the
only one that applies to some two values which are compared wrongly, so no name
stands there in vain, and nothing else departs within the bounds. A thirteenth
name, `empty_sample`, is about `--sample-rows`.

| Name | What happens |
|---|---|
| `undeclared_scale` | a decimal declared without a scale is compared as an integer: 1.00 and 1.25 match |
| `float_against_fixed` | a decimal against a float: one text has a fixed point, the other an exponent, and they differ always |
| `wide_decimal` | PostgreSQL and Snowflake print `#` for a number with more than 18 digits before the point: two of them match |
| `float_rounding` | ClickHouse and Snowflake do not carry a mantissa that rounds up to 10, and Snowflake rounds ties away from zero |
| `snowflake_rounds_twice` | TS-2 on Snowflake adds half a unit and then rounds instead of flooring |
| `nanoseconds_cut` | all engines cut to microseconds before they round |
| `before_1970` | ClickHouse takes the fraction with `%`, which is negative before 1970 |
| `text_uuid` | PostgreSQL and ClickHouse leave a uuid in a text column in its own case and form |
| `ascii_case_only` | `lower()` of ClickHouse knows ASCII only |
| `null_marker` | the two-character text `\N`, under `--trim` also with blanks after it, is what NULL is rendered as; `--case-insensitive` makes it `\n`, which is not |
| `array_text` | elements of an array are joined unquoted: `[a,b]` may be one element or two |
| `empty_sample` | a share below half a bucket of 1000 rounds to none: two empty samples are compared, and MATCH |
| `refused` | no text at all: `rtrim` or `lower` of a uuid under `--trim` or `--case-insensitive`, and TS rules on an array of timestamps, fail on the server |

### Disagreements no run refutes

* A NULL in a nominated key joins with nothing, so joindiff reports its row
  missing and extra, where hashdiff does not see it (`SPEC.md:385` promises
  identical results). `NullLead <- LastKey` and `NullPart <- LastKey` in
  `MCJoinDiff.cfg` make TLC refute `StableRowsListed` and `ExactWhenQuiet`.
* A column the target alone has is neither compared nor reported (`SPEC.md:210`).
  Warnings about naive and unmapped types are taken from the source's plan, after
  the overrides (`SPEC.md:197`, `SPEC.md:205`): a naive column of the target alone,
  or an unmapped one compared with a uuid, gives none. `SaysWhatItAssumes` names both.
* A configuration whose `connections` is a list makes `load_config` raise
  `AttributeError`, which `cmd_run` does not catch: Python exits with status 1, the
  code for "different". `CliSession` models the crash; `ExitCodeTruthful` speaks
  of commands that return.
* With `--fail-on none` or `count` a report may say "DIFFERENT exit 1" while the
  command exits with 0: the renderers print `exit_code()` of the result.
* A boolean against a 0/1 integer is excluded, where BOOL-1 says map. TS-2 rounds
  where `SPEC.md` says truncate (a comment in the code says why). `--assume-tz`
  appears in a warning only. `explain` prints hashdiff's statements also for a pair
  that `diff` would compare with joindiff.
* Without `--key` each side takes its own primary key (`_resolve_key_columns`,
  called once per side), and nothing compares the two: tables whose primary keys
  name other columns, or the same ones in another order, are cut and matched on
  values that mean different things. Every model takes one key for both sides.
* The open-ended last segment is fetched whole, whatever `--row-threshold` says
  (`SPEC.md:119`).

### Bounds, and why they are enough

* `hashdiff_static`: keys 1 and 2 share a leading value. A numeric segment of one
  leading value comes back whole from `_bisect` and is fetched; a sampled one is cut
  into an empty part and itself until it runs into `MaxDepth` (4 for 20: reached
  all the same). `TargetRowsPerSegment` and `MinSegments` (3 and 2 for 100 000
  and 8) give several top-level segments, `RowThreshold` 1 makes recursion
  happen, `MaxDiffRows` 2 makes truncation happen. `SampleCap` 3 is less than the
  number of rows, so samples miss keys. `EmptyHashAgrees = FALSE` is the pair
  of engines whose sums over no rows differ. `FloatBits` 6 and
  `FloatFraction` 4 leave every cut of these keys where exact arithmetic puts it, as
  53 bits do while keys times segments are below 2^50; float rounding is the subject
  of `pure_functions`.
* `hashdiff_live`: two writes are enough to delete a row between two queries and
  put it back before a third, the case in which a parent is different and its
  parts are equal. The source starts with every row; the target is arbitrary.
* `segment_pool`: two workers are enough for every race between two; the third
  segment makes a worker take a second task, after a failure too. One side has
  more connections than workers, the other exactly as many.
* `joindiff`: two writes allow the count query and the detail query to
  contradict one another. `joindiff_forced` needs one namesake and no write.
* `column_matching`: two columns on either side are enough for a swap, a chain,
  names that differ in case only, and one excluded column beside a compared one.

* `pure_functions`: keys 0..6 with up to 5 parts give every rounding of a cut;
  floats have 10 significant bits (`FloatBits`, for 53) and units of 2^-10
  (`FloatFraction`, for 2^-1074), so that ranges up to the `FarKeys` 20, 63, 200 and
  1500 lie where cuts are exact, where the width is rounded but the cuts are not off,
  where products may be, and above 2^10, where not every integer is a float;
  `Radix` 4 and `NumBytes` 2 give 16 digests, half of them with the top bit set,
  and three of them overflow the width in both directions; 12 rows against a
  `SampleModulus` of 5 give shares below, at and above half a bucket.
* Rendering: `Ten` is 4 (even, so that ties exist, and 2 digits give carries that
  run through), numbers have `Scale` 2 digits after the point and run from -72 to
  72, beyond what `FormatDigits` 1 lets `to_char` print; `Precise` 2 is fewer digits
  than a number may have, so floats round and carry. An instant runs from -80 to 130
  in units of a `Nano` of 3 digits, one finer than `Micro`: two seconds, a `Day` of
  2, are 128, so a time of day wraps, and instants lie on both sides of zero. Texts of
  up to two characters tell a blank at the end from one before it, a letter from its
  lower case, ASCII or not, and `\N` from all others; arrays of up to two elements,
  one of them a comma, are enough to mistake one element for two.
* `cli_session`: a job has every combination of what it asks for. Two tables are enough for a failure before, after or beside a
  success; two threads for a pool; two outputs for one that fails after another.
  `Attempts` is 3, as in the code.

### Fairness

`HashDiff!FairSpec` has weak fairness of `Query`: the program takes its next step
as long as the server answers. Writes of other sessions are not fair and need
not stop for the run to end. `SegmentPool!FairSpec` has weak fairness of "some
thread takes a step", the least an operating system gives; no particular thread
is promised to run. `CliSession!FairSpec` has weak fairness of `Step`: one thread
that goes on as long as it can, every call of a driver returning or raising.

## Theorems

What follows is proved for every value of the constants: any tables and keys, any
thresholds, any number of workers, segments, tables, attempts or concurrent writes,
texts and samples of any length. Each theorem `Spec => []P` takes `P` from an
inductive invariant that says more than `P`; TLC checked the invariants on the
runs' instances before they were proved.

### Segmentation and the pure functions

`InitialTiles` and `BisectTiles` of `SegmentationProofs` say of the functions
themselves what `TilesExactlyOnce` says of TLC's calls. Cuts, rounded half to even
from floats or drawn from a sorted sample, do not decrease (`RoundMonotone`,
`NearestMonotone`, `SortedBefore`), however few bits a float has;
segments between cuts that do not decrease are contiguous; contiguous segments from
`lo` to `hi` hold every key between them once (`ContiguousCovers`).
`BisectHalves` is progress: a numeric segment of two keys or more has two parts,
neither empty: halving a float is exact (`HalfCut`).

Tiling and progress thus hold for ranges of any width. Balance does not: beyond 2^50
the width is off by enough for segments to differ by more than a key, so
`SegmentsBalanced` and `Balanced` stop there (`Balanceable`).

`FunctionsProofs` is about `MCFunctions`, whose invariant `CallInv` says that a
result, once there is one, is the function of the call's arguments:

| Theorem | Property | Argument |
|---|---|---|
| `Tiles`, `Asserted`, `Shrinks` | `TilesExactlyOnce`, `AssertionHolds`, `BisectShrinks` | the three above |
| `Balanced` | `SegmentsBalanced` | if keys times segments are at most an eighth of `FloatLimit` (2^50 for Python's floats), the float a cut is rounded from is off by less than what separates it from the next half key: the cut is within half a key of its exact place, so two parts could differ by two only if the cuts at both their ends were ties; then a part would be a whole number of keys long, and no cut a tie |
| `Sampled` | `SampleAsAsked` | the larger table decides the share, and rounding it adds half a bucket at most; if the rows times `16 * SampleModulus` are at most `FloatLimit` (5 * 10^11 rows), float errors cannot carry a share over a tie. That N covering both tables keeps every row needs no such bound |
| `OneHash` | `EnginesAgree` | reading the bytes of a digest from either end, with sign or without, gives one number modulo the width; the digest's value is below the width by induction on its bytes |
| `ModularSum` | `AggregateIsModularSum` | terms that are congruent modulo the width have congruent sums, and `Folded` maps a class to its representative |
| `RowsToldApart` | `RowsApart` | the first separator in the joined text is where the first column ends |
| `NoFalseDifferences`, `NoFalseMatches` | `NoFalseDifference`, `NoFalseMatch` | below |

A recursive function is a CHOOSE. `Accumulates` proves that the function exists, and
so satisfies its own equation; induction is by the least counterexample, as the
library's induction theorems cannot be cited.

### What a value is rendered as

`RenderingProofs` is about every two columns of the three engines that may be
compared and are numbers, floats, instants, times of day, texts, uuids or arrays
(not jsonb, types without a rule, booleans, dates, bytes or enums), and every two of their values that no departure in the list above
concerns: their texts are equal exactly when their meanings are. It takes any radix,
scale, precision and width of a format, any numbers and any instants. Texts, uuids
and arrays are those `Holds` of `MCFunctions` lists: for them the theorem says, as
the run does, that no pair of columns, rules and options tells them apart wrongly.

`RuleOfColumn` says what an engine's columns are, and `PairKinds` which rules a pair
can have: two numbers, two instants, two times of day, two texts, two uuids, two
arrays, or a uuid and a text. Each has a lemma of what any one engine renders, so that
the engines need not be compared two by two, and `EveryPair` collects them:

* Decimals and integers (`NumberText`): the DEC-1 `CASE` of PostgreSQL and
  ClickHouse is half-even rounding (`HalfEven`), what Snowflake's `ROUND` does; padding
  cuts no digit (`PadKeeps`); the whole and the fractional part give the number back
  (`FixedApart`), and a number that rounds to 0 loses its sign on all engines.
* Floats (`FloatsAgree`): without a carry and a tie the three formulas are one.
* Instants and times of day (`InstantText`): cutting to microseconds, adding half a
  unit and flooring is rounding the instant itself (`HalfUnit`, which needs the unit
  to be even or 1), and the text of the result is that of a count of units
  (`ClockIs`, `ClockApart`).
* Uuids and texts, also of one another (`UuidText`, `StringText`): after trimming and
  lowering, a text is neither a uuid's nor NULL's (`RTrimKeeps`, `LowerNotNull`).
* Arrays (`ArraysApart`): commas and brackets can be parsed back when no element has a
  comma or is the text for NULL.

NULL against a value is settled once for all kinds (`PlainValuesAgree`).
`Power` is a recursive function too; that it exists, and that powers add up
(`PowersExist`, `PowerSum`), is by the least counterexample.

### HashDiff

For any keys, tables, samples, thresholds and depth, and any number of writes by
other sessions. The inductive invariant is the conjunction of five:

* `Shape`: `TypeInv`, and that a loop does not read past its segments, that the
  depth of a call is its place on the stack, that below the top a segment is behind
  the loop, and that only a segment with a key in it is bisected. Without these
  neither `Top.subs[Top.next]` nor the call of `_bisect` would be defined.
* `NestInv`: segments of one frame share no key, those of a frame above the first
  lie within its parent, and every loop further down stands at the segment being
  resolved. Its base and its step are `InitialTiles` and `BisectTiles`.
* `CountInv`: a key is counted at most once, and not at all while it is `Due`: ahead
  in some loop, in hand, or in a segment that is fetched as a whole if its parts
  all agree. This last case is the one a write between two queries brings about.
* `CapInv`: listed keys have been counted, and counters, cap and flag agree.
* `ExactInv`: what each query has established of a key that nobody writes to and
  whose leading column is not NULL: one row at most on each side, within the
  bounds, fetched as it is, and counted exactly if the tables differ in it, unless
  it is due.

| Theorem | Establishes | Under |
|---|---|---|
| `TypeCorrect`, `Recursion`, `CountedOnce`, `Capped` | `TypeInv`, `RecursionBounded`, `CountedAtMostOnce`, `CapExact` | nothing |
| `StableAndNotNull` | `StableRowsExact` of every key whose leading column is not NULL | nothing |
| `StableRows`, `MatchTrue` | `StableRowsExact`, `MatchIsTrue` | no key has a NULL leading column |
| `Implements` | `ImplementsDiffSpec` | the same, and `MaxWrites = 0` |

The hypothesis about NULLs cannot go: `hashdiff_null_key` refutes `MatchIsTrue`
without it. `Implements` adds `QuietInv`, that each counter is the number of counted
keys of its kind, so that at the end, when nothing is due, the report is
`DiffSpec`'s; every other step maps to a stutter. The report promised is that of
the tables as they are, hence no writes.

### SegmentPool

For any finite sets of workers and connections, any number of segments, any
batches, and failures anywhere. `TypeInv` is not inductive: a worker returns
`srcHeld[w]`, which must not be `None`, and reads `Batches[job[w]][step[w]]`, which
must exist.

* `TypeInd` adds `InTask` (where a worker is in its task) and `Holding` (a worker
  holds a connection exactly between taking and returning it). `TypeCorrect`.
* `PoolInd` adds `ConnectionsExclusive`, `Owners` (a task is with one worker
  until its future is set), `Locks` (who is inside which lock) and `Caller` (what
  the calling thread has seen). `Exclusive`, `Clean`, and `NeverWaits`, which is
  counting: if every connection is held and a worker has none, there are more
  workers than connections.
* `CountInd` adds that a worker inside a lock knows the counters it will write back,
  and that the counters are the number of differences `Seen` by the fetches so
  far. Those of two fetches are disjoint (`BatchesAssumption`), so a critical
  section adds as many as it found. `CountsCorrect`, `QueriesCorrect`.

### JoinDiff

For any tables and writes; keys with NULLs are allowed but for the last two.

* `DuplicatesStop`, `MatchTrue`: after its query each table's untouched keys are
  unique (`SourceChecked`, `TargetChecked`), and three zero counters mean that the
  untouched rows are equal (`CountsTrue`); no later write takes either away.
* `StableListed`, `Quiet`, if `NullPart = {}`: on unique keys the rows of the FULL
  OUTER JOIN that differ correspond, one to one and kind by kind, to the
  differences of the classification. With a NULL in a key TLC refutes both.

### ColumnMatching

For any schemas, candidates, column map and options (`TypeCorrect`, `Says`,
`Faithful`, `RenderedAlike`). Both loops decide on a column from the call alone.
The invariant says that the state of a matched column is what was decided of it
(`Decided`), that an excluded one had a reason and a warning (`Dropped`), that a
candidate whose turn is over is one or the other (`Tried`), that run-level
warnings are out at the end (`Announced`), and what the second loop has done to
the dictionary it reads (`Aliases`): entries of names it has not come to are
untouched unless names are chained.

### CliSession

For any command, any number of tables, threads, outputs and attempts. The
invariant: every table that is over has a verdict (`Progress`); what is open, owned
and yet to be connected at each step (`Bracket`); connectors wait once each and only
the first has failed (`Retries`); the code is the worst of the verdicts (`Worst`);
reports follow from the verdict (`Told`). `TypeCorrect`, `Bracketed`, `Truthful`,
`Agree` and `Survived` are its five consequences.

### What the theorems rest on

On the named assumptions about constants, all of which TLC evaluates in a passing
run, and on nothing else:

| Assumption | Says | Because |
|---|---|---|
| `KeyAssumption`, `JoinAssumption` | finitely many keys and values | tables are finite |
| `LeadAssumption` | keys are numbered in their order, NULLs last | `ORDER BY` of the engines |
| `ParameterAssumption` | segments, rows per segment and the sample cap are positive, thresholds are not negative | the constants of `hashdiff.py` |
| `PoolAssumption`, `ThreadsAssumption` | finitely many workers, and at least as many connections on a side | `cmd_diff` opens one per thread and side |
| `BatchesAssumption` | two row fetches never bring the same difference | `CountedOnce` of `HashDiff` |
| `NameAssumption`, `InputsAssumption` | `lower()` is idempotent; an integer column declares no digits, or none after the point | `get_schema` of the connectors |
| `CallAssumption`, `AttemptsAssumption` | a call has the shape the argument parser gives it; at least one attempt | `cli/main.py` |
| `HashAssumption` | at least one byte, and an even radix: half of the digests are negative as signed numbers | 8 bytes of 256 values |
| `CanonicalAssumption` | the radix is even and at least 2, floats have a digit, days a second, microseconds are no finer than the finest instant; `None` is not the name of a rule | decimal digits; the formats of `normalise_expr` |
| `ValuesAssumption` | numbers and instants are integers, in units of the last digit | `CanonicalForm`'s representation |
| `FloatAssumption`, `RangeAssumption` | a float has at least one significant bit; `MaxKey` and the far keys are numbers | IEEE 754; `MCFunctions` |
| `SampleAssumption` | the modulus times 100 is below `FloatLimit` | 1000 and 2^53 |
| `MicroAssumption`, `NoneAssumption` | numbers are numbers, and `None` is not one | |

### Only model-checked

* `Terminates` of `HashDiff` and `Ends` of `SegmentPool` and `CliSession`: liveness
  under fairness is out of the prover's reach.
* The five refutations, and with `canonical_contract` that no departure in the list
  is there in vain: TLC's counterexamples are the evidence.
* That rendering is right for texts longer than those of `Holds`: `rtrim`, `lower` and
  the join of an array work character by character and element by element, and a
  general statement would be an induction over sequences.

## Not modelled

* The text of the SQL beyond what an expression computes, MD5 and hash collisions.
  The wire modules are thin wrappers around third-party drivers.
* jsonb and types without a rule: compared as the engine prints them.
* The conversion of fetched keys by the drivers: keys are the same values on both
  sides in every model.
* `explain`'s statements, the layout of reports, redaction, DSN and YAML parsing:
  no state.
* What an interrupt by the user leaves behind.

## Plan

1. Done: `Segmentation`, `RowSets`, `DiffSpec`, `HashDiff`, `SegmentPool`,
   `JoinDiff`, `ColumnMatching`, `RowHash`, `Sampling`, `CliSession`; `Normalisation`
   and `CanonicalForm`, run-level warnings, the SQL log and what reports state.
2. Done: theorems for every invariant of every passing run, and for the refinement.
3. Left: rendering of texts and arrays of any length, and of floats with the engines'
   own logarithms; decimal keys; a key that is not the same on both sides.
