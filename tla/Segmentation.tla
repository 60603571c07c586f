----------------------------- MODULE Segmentation -----------------------------
(***************************************************************************)
(* Splitting a key range into segments: rowproof/core/segmentation.py, and  *)
(* the two callers in core/hashdiff.py that decide where the cuts come      *)
(* from (_initial_segments and _bisect).                                    *)
(*                                                                          *)
(* A key value is an integer.  For a numeric key it is the key itself (keys  *)
(* with a fraction, and Python's decimal arithmetic on them, are left out); *)
(* for a text or uuid key it is the key's rank in the order the connector's *)
(* key_order_expr() sorts by, the only thing the code asks of such a key.   *)
(* Python's None has two uses here, and both are the constant None: a key   *)
(* that is SQL NULL, and the open upper end of a segment.                   *)
(***************************************************************************)
EXTENDS Floats, Sequences, FiniteSets

Bound == Int \cup {None}

(* models.Segment; its index only labels it and is left out. *)
Segment == [lo : Bound, hi : Bound]

Seg(lo, hi) == [lo |-> lo, hi |-> hi]

(* What the WHERE clause of _segment_where selects.  A comparison with NULL *)
(* is not true, so a NULL key is in no segment and a NULL lower bound       *)
(* selects nothing.                                                         *)
InSegmentMutant(k, s) ==  \* mutation: <= at the upper end
  /\ k # None /\ s.lo # None
  /\ k >= s.lo
  /\ s.hi = None \/ k <= s.hi

InSegment(k, s) ==
  /\ k # None /\ s.lo # None
  /\ k >= s.lo
  /\ s.hi = None \/ k < s.hi

-------------------------------------------------------------------------------
(* compute_num_segments: ceil(count / target), and at least minimum. *)
ComputeNumSegments(count, target, minimum) ==
  IF count <= 0 THEN 1
  ELSE Greater(minimum, (count + target - 1) \div target)

(* segment_numeric_range: n slices of equal width, each cut computed once   *)
(* as the upper end of one slice and once as the lower end of the next.     *)
(* The width is a float, and so is its product with i, before round() makes *)
(* an integer of it.                                                        *)
CutAt(minVal, i, width) == minVal + Round(Nearest(i * width, 1), FloatOne)

SegmentNumericRangeNarrow(minVal, maxVal, n, openEndedLast) ==  \* mutation: width max - min
  LET cut(i) == CutAt(minVal, i, Nearest((maxVal - minVal) * FloatOne, n))
  IN  [i \in 1..n |-> Seg(cut(i - 1), IF i = n /\ openEndedLast THEN None ELSE cut(i))]

SegmentNumericRangeFixed(minVal, maxVal, n, openEndedLast) ==  \* mutation: integer steps
  LET cut(i) == minVal + i * ((maxVal - minVal + 1) \div n)
  IN  [i \in 1..n |-> Seg(cut(i - 1), IF i = n /\ openEndedLast THEN None ELSE cut(i))]

SegmentNumericRange(minVal, maxVal, n, openEndedLast) ==
  LET span   == maxVal - minVal
      width  == Nearest((span + 1) * FloatOne, n)
      cut(i) == CutAt(minVal, i, width)
  IN  IF minVal = maxVal
      THEN << Seg(minVal, IF openEndedLast THEN None ELSE maxVal + 1) >>
      ELSE [i \in 1..n |-> Seg(cut(i - 1),
                               IF i = n /\ openEndedLast THEN None ELSE cut(i))]

(* The i-th smallest member of a finite set of integers. *)
Nth(S, i) == CHOOSE x \in S : Cardinality({ y \in S : y < x }) = i - 1

(* segment_by_samples: cuts at the quantiles of a sorted sample, equal      *)
(* neighbours merged.                                                       *)
SegmentBySamples(samples, numSegments) ==
  LET m       == Len(samples)
      n       == Lesser(numSegments, m)
      cut(i)  == samples[Lesser((i * m) \div n, m - 1) + 1]
      kept    == { i \in 1..(n - 1) : i = 1 \/ cut(i) # cut(i - 1) }
      last    == Cardinality(kept)
      edge(j) == CASE j = 0    -> samples[1]
                   [] j > last -> None
                   [] OTHER    -> cut(Nth(kept, j))
  IN  IF m = 0 THEN << Seg(None, None) >>
      ELSE [j \in 1..(last + 1) |-> Seg(edge(j - 1), edge(j))]

(* clamp_to_range: the outer ends become the range's own. *)
ClampToRangeLower(segments, lo, hi) ==  \* mutation: the upper end is left alone
  [segments EXCEPT ![1].lo = lo]

ClampToRange(segments, lo, hi) ==
  LET n == Len(segments)
  IN  [i \in 1..n |->
         Seg(IF i = 1 THEN lo ELSE segments[i].lo,
             IF i = n /\ hi # None THEN hi ELSE segments[i].hi)]

(* assert_contiguous_coverage: an AssertionError unless this is true. *)
ContiguousCoverage(segments, lo, hi) ==
  /\ segments # << >>
  /\ segments[1].lo = lo
  /\ segments[Len(segments)].hi = hi
  /\ \A i \in 1..(Len(segments) - 1) : segments[i].hi = segments[i + 1].lo

-------------------------------------------------------------------------------
(* hashdiff._initial_segments for a table of which count > 0 rows were seen *)
(* on the larger side; samples is what the sample query returned, and is    *)
(* not looked at for a numeric key.                                         *)
InitialSegments(numeric, num, lo, hi, samples) ==
  ClampToRange(IF numeric THEN SegmentNumericRange(lo, hi, num, TRUE)
                          ELSE SegmentBySamples(samples, num),
               lo, None)

(* hashdiff._bisect.  A result of one segment means "could not be split":   *)
(* the caller then fetches the rows of the whole segment.                   *)
Bisect(numeric, segment, samples) ==
  LET halves == IF numeric
                THEN SegmentNumericRange(segment.lo, segment.hi - 1, 2, FALSE)
                ELSE SegmentBySamples(samples, 2)
  IN  IF segment.hi = None \/ (~numeric /\ samples = << >>)
      THEN << segment >>
      ELSE ClampToRange(halves, segment.lo, segment.hi)
===============================================================================
