------------------------------ MODULE HashDiff ------------------------------
(***************************************************************************)
(* core/hashdiff.diff(), the sequential path: uniqueness, bounds, initial   *)
(* segmentation, then every segment's statistics on either side and, for a  *)
(* segment whose statistics differ, recursive bisection down to a fetch of  *)
(* the rows.                                                                *)
(*                                                                          *)
(* One action is one query (with the computation between it and the next    *)
(* one), because nothing holds a snapshot across queries: every connector   *)
(* runs in autocommit, and another session may write to either table        *)
(* between any two of them (action Write).                                  *)
(*                                                                          *)
(* Abstractions: the aggregate hash of a segment is the set of its rows, so *)
(* collisions are left out; --where and the sampling predicate are part of  *)
(* what src and tgt mean; keys are compared as the same values on both      *)
(* sides.                                                                   *)
(***************************************************************************)
EXTENDS RowSets, Segmentation

CONSTANTS
  Lead,           \* the leading key column of each key (None: SQL NULL)
  KeyRules,       \* numeric (TRUE) or not (FALSE): the kinds of key a run has
  RowThreshold, MaxDiffRows,
  MaxDepth,       \* 20 in _resolve_mismatched_segment
  TargetRowsPerSegment, MinSegments,   \* of compute_num_segments
  SampleCap,      \* DEFAULT_SAMPLE_CAP
  EmptyHashAgrees,\* whether both engines give the same SUM over no rows
  InitTables,     \* the pairs of tables a run starts from
  MaxWrites       \* bound on concurrent writes

ASSUME KeyAssumption == Key \subseteq Int /\ IsFiniteSet(Key) /\ IsFiniteSet(Val)

(* Keys are numbered in their order, NULLs last. *)
ASSUME LeadAssumption ==
  /\ Lead \in [Key -> Bound]
  /\ \A j, k \in Key :
       j < k => Lead[k] = None \/ (Lead[j] # None /\ Lead[j] <= Lead[k])

ASSUME ParameterAssumption ==
  /\ KeyRules \subseteq BOOLEAN /\ EmptyHashAgrees \in BOOLEAN
  /\ RowThreshold \in Nat /\ MaxDiffRows \in Nat /\ MaxDepth \in Nat
  /\ TargetRowsPerSegment \in Nat \ {0} /\ MinSegments \in Nat \ {0}
  /\ SampleCap \in Nat \ {0} /\ MaxWrites \in Nat
  /\ InitTables \subseteq Table \X Table

VARIABLES
  src, tgt,       \* the tables
  numeric,        \* whether the key rule is one of _NUMERIC_RULES
  pc,             \* the next query
  bounds,         \* [lo, hi] over both sides
  stack,          \* the calls in progress, the innermost first
  cur,            \* the segment being resolved: [seg, depth, rows]
  seen,           \* rows the last query on the source side returned
  result,         \* the DiffResult
  writes,         \* how many rows other sessions wrote since the run began
  touched,        \* history: the keys of those rows
  counted         \* history: how often each key was counted as a difference

tables == << src, tgt, numeric, writes, touched >>

vars == << tables, pc, bounds, stack, cur, seen, result, counted >>

PC == {"unique_src", "unique_tgt", "bounds_src", "bounds_tgt", "segment",
       "stats_src", "stats_tgt", "bisect", "fetch_src", "fetch_tgt",
       "done", "non_unique"}

(* A call that is looping over segments.  The bottom frame is the loop of   *)
(* _diff_segments_sequential (depth -1); the others are the loops of        *)
(* _resolve_mismatched_segment, depth being that call's own.                *)
Frame == [seg : Segment, depth : -1..MaxDepth, subs : Seq(Segment),
          next : Nat \ {0}, split : BOOLEAN]

NewFrame(seg, depth, subs) ==
  [seg |-> seg, depth |-> depth, subs |-> subs, next |-> 1, split |-> FALSE]

Top == Head(stack)

RowsIn(table, seg) == { r \in Rows(table) : InSegment(Lead[r[1]], seg) }

(* COUNT and hash of both sides equal.  Over no rows Postgres's SUM is NULL *)
(* where ClickHouse's is 0.                                                 *)
StatsEqualCount(s, t) == Cardinality(s) = Cardinality(t)   \* mutation: no hash

StatsEqual(s, t) == s = t /\ (s = {} => EmptyHashAgrees)

(* MIN and MAX of the leading key column: NULL keys are ignored. *)
Leads(table) == { Lead[r[1]] : r \in Rows(table) } \ {None}
Least(S)    == IF S = {} THEN None ELSE CHOOSE x \in S : \A y \in S : x <= y
Greatest(S) == IF S = {} THEN None ELSE CHOOSE x \in S : \A y \in S : x >= y

(* What a sample query may return: the leading key of SampleCap of the rows *)
(* (all of them if there are fewer), sorted on the server.                  *)
Samples(rows) ==
  LET keys   == KeysOf(rows)
      size   == Lesser(SampleCap, Cardinality(keys))
  IN  { [i \in 1..size |-> Lead[Nth(S, i)]] :
          S \in { T \in SUBSET keys : Cardinality(T) = size } }

-------------------------------------------------------------------------------
Init ==
  /\ \E p \in InitTables : src = p[1] /\ tgt = p[2]
  /\ numeric \in KeyRules
  /\ pc = "unique_src"
  /\ bounds = Seg(None, None)
  /\ stack = << >>
  /\ cur = [seg |-> Seg(None, None), depth |-> 0, rows |-> 0]
  /\ seen = {}
  /\ result = [sourceCount |-> 0, targetCount |-> 0, missing |-> 0, extra |-> 0,
               changed |-> 0, listed |-> {}, truncated |-> FALSE]
  /\ writes = 0
  /\ touched = {}
  /\ counted = [k \in Key |-> 0]

(* _validate_key_unique_side, once per side. *)
UniqueSource ==
  /\ pc = "unique_src"
  /\ pc' = IF KeyUnique(src) THEN "unique_tgt" ELSE "non_unique"
  /\ UNCHANGED << tables, bounds, stack, cur, seen, result, counted >>

UniqueTarget ==
  /\ pc = "unique_tgt"
  /\ pc' = IF KeyUnique(tgt) THEN "bounds_src" ELSE "non_unique"
  /\ UNCHANGED << tables, bounds, stack, cur, seen, result, counted >>

(* _get_bounds, once per side; then the union of both ranges, or the early  *)
(* return when both tables are empty.                                       *)
BoundsSource ==
  /\ pc = "bounds_src"
  /\ bounds' = Seg(Least(Leads(src)), Greatest(Leads(src)))
  /\ result' = [result EXCEPT !.sourceCount = Cardinality(Rows(src))]
  /\ pc' = "bounds_tgt"
  /\ UNCHANGED << tables, stack, cur, seen, counted >>

BoundsTargetMutant ==   \* mutation: the source's range is used for both sides
  LET count == Cardinality(Rows(tgt))
  IN  /\ pc = "bounds_tgt"
      /\ result' = [result EXCEPT !.targetCount = count]
      /\ bounds' = IF bounds.lo # None THEN bounds
                   ELSE Seg(Least(Leads(tgt)), Greatest(Leads(tgt)))
      /\ pc' = IF result.sourceCount = 0 /\ count = 0 THEN "done" ELSE "segment"
      /\ UNCHANGED << tables, stack, cur, seen, counted >>

BoundsTarget ==
  LET count == Cardinality(Rows(tgt))
      lows  == {bounds.lo, Least(Leads(tgt))} \ {None}
      highs == {bounds.hi, Greatest(Leads(tgt))} \ {None}
  IN  /\ pc = "bounds_tgt"
      /\ result' = [result EXCEPT !.targetCount = count]
      /\ bounds' = Seg(Least(lows), Greatest(highs))
      /\ pc' = IF result.sourceCount = 0 /\ count = 0 THEN "done" ELSE "segment"
      /\ UNCHANGED << tables, stack, cur, seen, counted >>

(* _initial_segments; the sample, if one is needed, is drawn from the       *)
(* source only.                                                             *)
Segmentise ==
  LET count == Greater(result.sourceCount, result.targetCount)
      num   == ComputeNumSegments(count, TargetRowsPerSegment, MinSegments)
  IN  /\ pc = "segment"
      /\ \E samples \in IF numeric THEN {<< >>} ELSE Samples(Rows(src)) :
           stack' = << NewFrame(Seg(bounds.lo, None), -1,
                                InitialSegments(numeric, num, bounds.lo, bounds.hi,
                                                samples)) >>
      /\ pc' = "stats_src"
      /\ UNCHANGED << tables, bounds, cur, seen, result, counted >>

(* The next segment of the innermost loop: statistics of either side, and   *)
(* what the loop does with them.                                            *)
StatsSource ==
  /\ pc = "stats_src"
  /\ Top.next <= Len(Top.subs)
  /\ seen' = RowsIn(src, Top.subs[Top.next])
  /\ pc' = "stats_tgt"
  /\ UNCHANGED << tables, bounds, stack, cur, result, counted >>

(* Whether a mismatched segment is bisected rather than fetched. *)
MayBisectMutant(rows, depth) == rows > RowThreshold   \* mutation: no depth limit

MayBisect(rows, depth) == rows > RowThreshold /\ depth < MaxDepth

(* A loop after one of its segments: any_real_split records a mismatch.     *)
AdvancedStuck(frame, equal) ==   \* mutation: the loop does not move on
  [frame EXCEPT !.split = @ \/ ~equal]

AdvancedNoSplit(frame, equal) ==   \* mutation: any_real_split is never set
  [frame EXCEPT !.next = @ + 1]

Advanced(frame, equal) ==
  [frame EXCEPT !.next = @ + 1, !.split = @ \/ ~equal]

StatsTarget ==
  LET sub   == Top.subs[Top.next]
      rows  == RowsIn(tgt, sub)
      equal == StatsEqual(seen, rows)
      most  == Greater(Cardinality(seen), Cardinality(rows))
      depth == Top.depth + 1
  IN  /\ pc = "stats_tgt"
      /\ stack' = << Advanced(Top, equal) >> \o Tail(stack)
      /\ IF equal
         THEN pc' = "stats_src" /\ cur' = cur
         ELSE /\ cur' = [seg |-> sub, depth |-> depth, rows |-> most]
              /\ pc' = IF MayBisect(most, depth) THEN "bisect" ELSE "fetch_src"
      /\ seen' = {}
      /\ UNCHANGED << tables, bounds, result, counted >>

(* _bisect, and the loop over the parts when there is more than one. *)
BisectSegment ==
  /\ pc = "bisect"
  /\ \E samples \in IF numeric \/ cur.seg.hi = None THEN {<< >>}
                    ELSE Samples(RowsIn(src, cur.seg)) :
       LET subs == Bisect(numeric, cur.seg, samples)
       IN  IF Len(subs) > 1
           THEN /\ stack' = << NewFrame(cur.seg, cur.depth, subs) >> \o stack
                /\ pc' = "stats_src"
           ELSE /\ pc' = "fetch_src"
                /\ UNCHANGED stack
  /\ UNCHANGED << tables, bounds, cur, seen, result, counted >>

(* The end of a loop: the run is over, or the call returns, or no part      *)
(* explained the mismatch and the whole parent segment is fetched instead.  *)
EndLoop ==
  /\ pc = "stats_src"
  /\ Top.next > Len(Top.subs)
  /\ stack' = Tail(stack)
  /\ \/ /\ Top.depth = -1
        /\ pc' = "done" /\ UNCHANGED cur
     \/ /\ Top.depth # -1 /\ Top.split
        /\ UNCHANGED << pc, cur >>
     \/ /\ Top.depth # -1 /\ ~Top.split
        /\ cur' = [cur EXCEPT !.seg = Top.seg, !.depth = Top.depth]
        /\ pc' = "fetch_src"
  /\ UNCHANGED << tables, bounds, seen, result, counted >>

(* _row_fetch_sql on either side, then _classify_rows and _maybe_append.    *)
FetchSource ==
  /\ pc = "fetch_src"
  /\ seen' = RowsIn(src, cur.seg)
  /\ pc' = "fetch_tgt"
  /\ UNCHANGED << tables, bounds, stack, cur, result, counted >>

ClassifiedUncapped(r, s, t) ==   \* mutation: the list is not cut off
  [r EXCEPT !.missing   = @ + Cardinality(Missing(s, t)),
            !.extra     = @ + Cardinality(Extra(s, t)),
            !.changed   = @ + Cardinality(Changed(s, t)),
            !.listed    = @ \cup RowDiffs(s, t)]

Classified(r, s, t) ==
  LET diffs == RowDiffs(s, t)
      room  == MaxDiffRows - Cardinality(r.listed)
  IN  [r EXCEPT !.missing   = @ + Cardinality(Missing(s, t)),
                !.extra     = @ + Cardinality(Extra(s, t)),
                !.changed   = @ + Cardinality(Changed(s, t)),
                !.listed    = @ \cup FirstDiffs(diffs, room),
                !.truncated = @ \/ Cardinality(diffs) > room]

FetchTarget ==
  LET rows == RowsIn(tgt, cur.seg)
  IN  /\ pc = "fetch_tgt"
      /\ result' = Classified(result, seen, rows)
      /\ counted' = [k \in Key |->
            counted[k] + Cardinality({ d \in RowDiffs(seen, rows) : d.key = k })]
      /\ seen' = {}
      /\ pc' = "stats_src"
      /\ UNCHANGED << tables, bounds, stack, cur >>

Finished == pc \in {"done", "non_unique"}

(* Another session inserts, updates or deletes the row of one key.  The     *)
(* tables keep their unique key.  Bounded by MaxWrites.                     *)
Write ==
  /\ ~Finished
  /\ writes < MaxWrites
  /\ writes' = writes + 1
  /\ \E k \in Key, vs \in { {} } \cup { {v} : v \in Val } :
       /\ \/ src[k] # vs /\ src' = [src EXCEPT ![k] = vs] /\ UNCHANGED tgt
          \/ tgt[k] # vs /\ tgt' = [tgt EXCEPT ![k] = vs] /\ UNCHANGED src
       /\ touched' = touched \cup {k}
  /\ UNCHANGED << numeric, pc, bounds, stack, cur, seen, result, counted >>

Terminated == Finished /\ UNCHANGED vars

Query ==
  \/ UniqueSource \/ UniqueTarget \/ BoundsSource \/ BoundsTarget
  \/ Segmentise \/ StatsSource \/ StatsTarget \/ BisectSegment \/ EndLoop
  \/ FetchSource \/ FetchTarget

Next == Query \/ Write \/ Terminated

Spec == Init /\ [][Next]_vars

FairSpec == Spec /\ WF_vars(Query)

-------------------------------------------------------------------------------
TypeInv ==
  /\ src \in Table /\ tgt \in Table
  /\ numeric \in BOOLEAN /\ writes \in Nat /\ touched \subseteq Key
  /\ pc \in PC
  /\ bounds \in Segment
  /\ stack \in Seq(Frame)
  /\ cur \in [seg : Segment, depth : Nat, rows : Nat]
  /\ seen \subseteq Row
  /\ result \in [sourceCount : Nat, targetCount : Nat, missing : Nat, extra : Nat,
                 changed : Nat, listed : SUBSET RowDiff, truncated : BOOLEAN]
  /\ counted \in [Key -> Nat]

(* DiffResult.is_match *)
IsMatch == /\ result.sourceCount = result.targetCount
           /\ result.missing = 0 /\ result.extra = 0 /\ result.changed = 0

(* SPEC.md:336 "Never report MATCH when rows differ": whatever other        *)
(* sessions wrote in the meantime, a verdict of MATCH says that every row   *)
(* nobody wrote to is the same on both sides.                               *)
MatchIsTrue ==
  pc = "done" /\ IsMatch => \A k \in Key \ touched : src[k] = tgt[k]

(* A row nobody wrote to during the run is counted exactly once if the      *)
(* tables differ in it and never otherwise, and is listed with its true     *)
(* kind: writes to other rows, between any two queries, can move neither.   *)
StableRowsExact ==
  pc = "done" =>
    \A k \in Key \ touched :
      /\ counted[k] = IF src[k] = tgt[k] THEN 0 ELSE 1
      /\ \A d \in result.listed : d.key = k => d \in RowDiffs(Rows(src), Rows(tgt))

(* No key is counted twice, not even one that another session deletes from  *)
(* one segment's statistics and writes again before its rows are fetched:   *)
(* the segments still to be looked at never overlap one already looked at.  *)
CountedAtMostOnce == \A k \in Key : counted[k] <= 1

(* "Counts stay exact; row lists don't" (SPEC.md 4.1 step 6, quoted in      *)
(* hashdiff.py): the list holds as many differences as were counted, up to  *)
(* the cap, and truncated says exactly whether some were left out.          *)
CapExact ==
  LET total == result.missing + result.extra + result.changed
  IN  /\ Cardinality(result.listed) = Lesser(total, MaxDiffRows)
      /\ result.truncated <=> total > MaxDiffRows

(* The recursion of _resolve_mismatched_segment is bounded even when        *)
(* bisection makes no progress (all rows of a segment share the leading     *)
(* column of a composite key, so one half is the parent again).             *)
RecursionBounded == Len(stack) <= MaxDepth + 1

(* Every run ends, with a report or with the error for a key that is not    *)
(* unique, as long as its queries are answered.                             *)
Terminates == <>Finished

(* On tables nobody writes to the report is the one DiffSpec promises.      *)
Promise == INSTANCE DiffSpec WITH
  outcome <- CASE pc = "done" -> "report"
               [] pc = "non_unique" -> "non_unique"
               [] OTHER -> "running",
  report  <- IF pc = "done" THEN result ELSE
               [sourceCount |-> 0, targetCount |-> 0, missing |-> 0, extra |-> 0,
                changed |-> 0, listed |-> {}, truncated |-> FALSE]

ImplementsDiffSpec == Promise!SafeSpec
===============================================================================
