--------------------------- MODULE FunctionsProofs ---------------------------
(***************************************************************************)
(* What the pure functions give for every argument, not only the small ones *)
(* TLC calls them with.  A behaviour of MCFunctions is one call: the         *)
(* invariant says that its result, once there is one, is what the function  *)
(* gives, and the lemmas before it say what that is.                        *)
(***************************************************************************)
EXTENDS MCFunctions, SegmentationProofs, SequenceTheorems

-------------------------------------------------------------------------------
(* Segmentation: the arguments of a call are ones InitialTiles and           *)
(* BisectTiles speak of.                                                    *)
LEMMA SamplesType ==
  ASSUME NEW samples \in SortedSamples(Keys)
  PROVE  samples \in Seq(Bound) /\ Sorted(samples)
<1>1. PICK m \in 0..MaxSample : samples \in [1..m -> Keys \cup {None}]
  BY DEF SortedSamples
<1>2. Keys \cup {None} \subseteq Bound
  BY DEF Keys, Bound
<1>3. samples \in Seq(Bound)
  BY <1>1, <1>2
<1>4. \A i \in 1..(Len(samples) - 1) : SortsBefore(samples[i], samples[i + 1])
  BY DEF SortedSamples
<1> QED
  BY <1>3, <1>4 DEF Sorted, Before, SortsBefore

LEMMA CallFields ==
  ASSUME NEW A, NEW B, NEW C, NEW D, NEW E,
         NEW c \in [op : A, numeric : B, num : C, seg : D, samples : E]
  PROVE  c.op \in A /\ c.numeric \in B /\ c.num \in C /\ c.seg \in D /\ c.samples \in E
OBVIOUS

LEMMA SegmentsOfCalls ==
  /\ \A s \in Bounded : s.lo \in Int /\ s.hi \in Int /\ s = Seg(s.lo, s.hi)
  /\ \A s \in Unbounded : s.lo \in Int /\ s.hi = None /\ s = Seg(s.lo, s.hi)
BY RangeAssumption DEF Bounded, Unbounded, Keys, Seg

LEMMA InitialFields ==
  ASSUME NEW c \in InitialCalls
  PROVE  /\ c.op = "initial" /\ c.num \in 1..MaxParts
         /\ \/ c.numeric = TRUE /\ c.samples = << >> /\ c.seg \in Bounded
            \/ c.numeric = FALSE /\ c.samples \in SortedSamples(Keys) /\ c.seg \in Unbounded
<1>1. c \in [op : {"initial"}, numeric : {TRUE}, num : 1..MaxParts, seg : Bounded,
             samples : {<< >>}]
      \/ c \in [op : {"initial"}, numeric : {FALSE}, num : 1..MaxParts, seg : Unbounded,
                samples : SortedSamples(Keys)]
  BY DEF InitialCalls
<1>2. /\ c.op \in {"initial"} /\ c.num \in 1..MaxParts
      /\ \/ c.numeric \in {TRUE} /\ c.samples \in {<< >>} /\ c.seg \in Bounded
         \/ /\ c.numeric \in {FALSE} /\ c.samples \in SortedSamples(Keys)
            /\ c.seg \in Unbounded
  BY <1>1, CallFields
<1> QED
  BY <1>2

LEMMA BisectFields ==
  ASSUME NEW c \in BisectCalls
  PROVE  /\ c.op = "bisect" /\ c.numeric \in BOOLEAN
         /\ c.samples = << >> \/ c.samples \in SortedSamples(Keys)
         /\ c.seg \in Bounded \cup Unbounded
<1> DEFINE any == Bounded \cup Unbounded
<1> HIDE DEF any
<1>1. c \in [op : {"bisect"}, numeric : {TRUE}, num : {2}, seg : any, samples : {<< >>}]
      \/ c \in [op : {"bisect"}, numeric : {FALSE}, num : {2}, seg : any,
                samples : SortedSamples(Keys)]
  BY DEF BisectCalls, any
<1>2. /\ c.op \in {"bisect"} /\ c.numeric \in BOOLEAN /\ c.seg \in any
      /\ c.samples \in {<< >>} \/ c.samples \in SortedSamples(Keys)
  BY <1>1, CallFields
<1> QED
  BY <1>2 DEF any

LEMMA NoSamples == << >> \in Seq(Bound) /\ Sorted(<< >>)
BY DEF Sorted

LEMMA InitialCallTiles ==
  ASSUME NEW c \in InitialCalls, Sensible(c)
  PROVE  LET segs == InitialSegments(c.numeric, c.num, c.seg.lo, c.seg.hi, c.samples)
         IN  /\ segs \in Seq(Segment)
             /\ ContiguousCoverage(segs, c.seg.lo, None)
             /\ Apart(segs)
             /\ \A k \in Bound : InSegment(k, Seg(c.seg.lo, None)) => Owned(k, segs)
<1> DEFINE lo == c.seg.lo
           hi == c.seg.hi
<1>1. c.num \in Nat \ {0} /\ c.op = "initial"
  <2>1. c.op = "initial" /\ c.num \in 1..MaxParts
    BY InitialFields, Zenon
  <2> QED
    BY <2>1
<1>2. CASE c.numeric
  <2>1. lo \in Int /\ hi \in Int /\ c.samples = << >> /\ c.numeric = TRUE
    <3>1. /\ c.numeric = TRUE /\ c.samples = << >>
          /\ c.seg \in Bounded
      BY <1>2, InitialFields, Zenon
    <3> QED
      BY <3>1, SegmentsOfCalls
  <2>2. lo # None /\ hi # None /\ lo <= hi /\ lo \in Bound /\ hi \in Bound
    BY <1>1, <2>1, NoneAssumption DEF Sensible, Bound
  <2> HIDE DEF lo, hi
  <2> QED
    BY <1>1, <2>1, <2>2, NoSamples, InitialTiles DEF lo, hi
<1>3. CASE ~c.numeric
  <2>1. lo \in Int /\ c.samples \in SortedSamples(Keys) /\ c.numeric = FALSE
    <3>1. /\ c.numeric = FALSE /\ c.samples \in SortedSamples(Keys)
          /\ c.seg \in Unbounded
      BY <1>3, InitialFields, Zenon
    <3> QED
      BY <3>1, SegmentsOfCalls
  <2>2. c.samples \in Seq(Bound) /\ Sorted(c.samples)
    BY <2>1, SamplesType
  <2>3. lo # None /\ lo <= lo /\ lo \in Bound
    BY <2>1, NoneAssumption DEF Bound
  <2>4. InitialSegments(FALSE, c.num, lo, hi, c.samples)
          = InitialSegments(FALSE, c.num, lo, lo, c.samples)
    BY DEF InitialSegments
  <2> HIDE DEF lo, hi
  <2>5. LET segs == InitialSegments(FALSE, c.num, lo, lo, c.samples)
        IN  /\ segs \in Seq(Segment)
            /\ ContiguousCoverage(segs, lo, None)
            /\ Apart(segs)
            /\ \A k \in Bound : InSegment(k, Seg(lo, None)) => Owned(k, segs)
    BY <1>1, <2>2, <2>3, InitialTiles
  <2> QED
    BY <2>1, <2>4, <2>5 DEF lo, hi
<1> QED
  BY <1>2, <1>3

LEMMA BisectCallTiles ==
  ASSUME NEW c \in BisectCalls, Sensible(c)
  PROVE  LET segs == Bisect(c.numeric, c.seg, c.samples)
         IN  /\ segs \in Seq(Segment)
             /\ ContiguousCoverage(segs, c.seg.lo, c.seg.hi)
             /\ Apart(segs)
             /\ \A k \in Bound : Owned(k, segs) <=> InSegment(k, c.seg)
<1>1. /\ c.numeric \in BOOLEAN /\ c.op = "bisect"
      /\ c.samples = << >> \/ c.samples \in SortedSamples(Keys)
  BY BisectFields
<1>2. c.seg.lo \in Int /\ c.seg.hi \in Int \cup {None} /\ c.seg = Seg(c.seg.lo, c.seg.hi)
  <2>1. c.seg \in Bounded \/ c.seg \in Unbounded
    BY BisectFields
  <2> QED
    BY <2>1, SegmentsOfCalls
<1>3. c.seg \in Segment
  BY <1>2 DEF Segment, Seg, Bound
<1>4. c.samples \in Seq(Bound) /\ Sorted(c.samples)
  BY <1>1, NoSamples, SamplesType
<1>5. \A i \in 1..Len(c.samples) : InSegment(c.samples[i], c.seg)
  <2>1. DOMAIN c.samples = 1..Len(c.samples)
    BY <1>4
  <2> QED
    BY <1>1, <2>1 DEF Sensible
<1>6. c.seg.lo \in Bound /\ InSegment(c.seg.lo, c.seg)
  BY <1>1, <1>2, NoneAssumption DEF Sensible, InSegment, Bound
<1> QED
  BY <1>1, <1>3, <1>4, <1>5, <1>6, BisectTiles

(* Who owns a key, among the segments of a result. *)
LEMMA OwnersOfApart ==
  ASSUME NEW segs \in Seq(Segment), Apart(segs), NEW k \in Bound
  PROVE  LET owners == { i \in DOMAIN segs : InSegment(k, segs[i]) }
         IN  Cardinality(owners) <= 1 /\ (owners = {} <=> ~Owned(k, segs))
<1> DEFINE owners == { i \in DOMAIN segs : InSegment(k, segs[i]) }
<1>1. DOMAIN segs = 1..Len(segs)
  OBVIOUS
<1>2. \A i, j \in owners : i = j
  BY <1>1 DEF Apart
<1>3. owners = {} \/ \E i \in owners : owners = {i}
  <2> HIDE DEF owners
  <2> QED
    BY <1>2
<1>4. Cardinality(owners) <= 1
  <2> HIDE DEF owners
  <2>1. CASE owners = {}
    BY <2>1, FS_EmptySet
  <2>2. CASE \E i \in owners : owners = {i}
    <3>1. PICK i \in owners : owners = {i}
      BY <2>2
    <3>2. Cardinality({i}) = 1
      BY FS_Singleton
    <3> QED
      BY <3>1, <3>2
  <2> QED
    BY <1>3, <2>1, <2>2
<1> QED
  BY <1>1, <1>4 DEF Owned

-------------------------------------------------------------------------------
(* The invariant: which calls there are, and what each returns.             *)
Calls == { c \in InitialCalls \cup BisectCalls : Sensible(c) }
           \cup HashCalls \cup SampleCalls
           \cup RenderCalls \cup AuditCalls \cup ConcatCalls

(* The texts of every value on both sides of a pair of columns. *)
Rendered(pair) == << [v \in Holds(pair.source) |-> Text(pair, pair.source, v)],
                     [v \in Holds(pair.target) |-> Text(pair, pair.target, v)] >>

Returns(op, value) == call.op = op /\ Returned => result = value

Computed ==
  /\ Returns("initial", InitialSegments(call.numeric, call.num, call.seg.lo, call.seg.hi,
                                        call.samples))
  /\ Returns("bisect", Bisect(call.numeric, call.seg, call.samples))
  /\ Returns("hash",
       [e \in Engine |->
          [rows      |-> [i \in DOMAIN call.digests |-> RowHash(e, call.digests[i])],
           buckets   |-> [i \in DOMAIN call.digests |-> Bucket(e, call.digests[i])],
           aggregate |-> AggregateHash(e, call.digests)]])
  /\ Returns("sample", << KeptBuckets(SampleRows(call.rows, call.source, call.target)) >>)
  /\ Returns("render", Rendered(call.pair))
  /\ Returns("concat", << RowText(call.row) >>)

CallInv == call \in Calls /\ Computed

LEMMA EachCall == Spec => []CallInv
<1>1. Init => CallInv
  BY Zenon DEF Init, CallInv, Calls, Computed, Returns, Returned
<1>2. CallInv /\ [Next]_vars => CallInv'
  <2> SUFFICES ASSUME CallInv, [Next]_vars PROVE CallInv'
    OBVIOUS
  <2>1. call' = call
    BY Zenon DEF Next, vars, InitialCall, BisectCall, HashCall, SampleCall, RenderCall, ConcatCall,
       AuditCall, Terminated
  <2>2. CASE UNCHANGED result
    BY <2>1, <2>2, Zenon DEF CallInv, Computed, Returns, Returned
  <2>3. CASE InitialCall
    BY <2>1, <2>3 DEF InitialCall, CallInv, Computed, Returns
  <2>4. CASE BisectCall
    BY <2>1, <2>4 DEF BisectCall, CallInv, Computed, Returns
  <2>5. CASE HashCall
    BY <2>1, <2>5 DEF HashCall, CallInv, Computed, Returns
  <2>6. CASE SampleCall
    BY <2>1, <2>6 DEF SampleCall, CallInv, Computed, Returns
  <2>7. CASE RenderCall
    <3>1. call.op = "render" /\ result' = Rendered(call.pair)
      BY <2>7, Zenon DEF RenderCall, Rendered
    <3>2. call' \in Calls /\ call'.op = "render" /\ result' = Rendered(call'.pair)
      BY <2>1, <3>1 DEF CallInv
    <3> QED
      BY <3>2 DEF CallInv, Computed, Returns
  <2>8. CASE AuditCall
    BY <2>1, <2>8 DEF AuditCall, CallInv, Computed, Returns
  <2>9. CASE ConcatCall
    BY <2>1, <2>9 DEF ConcatCall, CallInv, Computed, Returns
  <2> QED
    BY <2>2, <2>3, <2>4, <2>5, <2>6, <2>7, <2>8, <2>9 DEF Next, Terminated, vars
<1> QED
  BY <1>1, <1>2, PTL DEF Spec

(* An op tells which set a call is from. *)
LEMMA CallOfOp ==
  ASSUME NEW c \in Calls
  PROVE  /\ c.op = "initial" => c \in InitialCalls /\ Sensible(c)
         /\ c.op = "bisect" => c \in BisectCalls /\ Sensible(c)
         /\ c.op = "hash" => c \in HashCalls
         /\ c.op = "sample" => c \in SampleCalls
         /\ c.op = "render" => c \in RenderCalls
         /\ c.op = "concat" => c \in ConcatCalls
<1>1. c \in InitialCalls => c.op = "initial"
  BY InitialFields
<1>2. c \in BisectCalls => c.op = "bisect"
  BY BisectFields
<1>3. c \in HashCalls => c.op = "hash"
  BY DEF HashCalls
<1>4. c \in SampleCalls => c.op = "sample"
  BY DEF SampleCalls
<1>5. c \in RenderCalls => c.op = "render"
  BY DEF RenderCalls
<1>6. c \in AuditCalls => c.op = "audit"
  BY DEF AuditCalls
<1>7. c \in ConcatCalls => c.op = "concat"
  BY DEF ConcatCalls
<1> QED
  BY <1>1, <1>2, <1>3, <1>4, <1>5, <1>6, <1>7 DEF Calls

(* The segments of a call tile what it must cover, for keys of any size, any *)
(* number of parts and samples of any length: no key of the range is in no  *)
(* segment, and none in two.                                                *)
THEOREM Tiles == Spec => []TilesExactlyOnce
<1>1. CallInv => TilesExactlyOnce
  <2> SUFFICES ASSUME CallInv, Returned, call.op \in {"initial", "bisect"},
                      NEW k \in KeysAround
               PROVE  /\ Cardinality(Owners(k)) <= 1
                      /\ InSegment(k, Whole) => Owners(k) # {}
                      /\ call.op = "bisect" /\ ~InSegment(k, Whole) => Owners(k) = {}
    BY DEF TilesExactlyOnce
  <2>1. k \in Bound /\ call \in Calls
    BY DEF KeysAround, Bound, CallInv
  <2>2. CASE call.op = "initial"
    <3>1. result \in Seq(Segment) /\ Apart(result)
          /\ \A i \in Bound : InSegment(i, Seg(call.seg.lo, None)) => Owned(i, result)
      BY <2>1, <2>2, CallOfOp, InitialCallTiles DEF CallInv, Computed, Returns
    <3> QED
      BY <2>1, <2>2, <3>1, OwnersOfApart DEF Whole, Owners
  <2>3. CASE call.op = "bisect"
    <3>1. result \in Seq(Segment) /\ Apart(result)
          /\ \A i \in Bound : Owned(i, result) <=> InSegment(i, call.seg)
      BY <2>1, <2>3, CallOfOp, BisectCallTiles DEF CallInv, Computed, Returns
    <3> QED
      BY <2>1, <2>3, <3>1, OwnersOfApart DEF Whole, Owners
  <2> QED
    BY <2>2, <2>3
<1> QED
  BY <1>1, EachCall, PTL

(* assert_contiguous_coverage never fires.                                  *)
THEOREM Asserted == Spec => []AssertionHolds
<1>1. CallInv => AssertionHolds
  <2> SUFFICES ASSUME CallInv, Returned, call.op \in {"initial", "bisect"}
               PROVE  ContiguousCoverage(result, Whole.lo, Whole.hi)
    BY DEF AssertionHolds
  <2>1. call \in Calls
    BY DEF CallInv
  <2>2. CASE call.op = "initial"
    <3>1. ContiguousCoverage(result, call.seg.lo, None)
      BY <2>1, <2>2, CallOfOp, InitialCallTiles DEF CallInv, Computed, Returns
    <3> QED
      BY <2>2, <3>1 DEF Whole, Seg
  <2>3. CASE call.op = "bisect"
    <3>1. ContiguousCoverage(result, call.seg.lo, call.seg.hi)
      BY <2>1, <2>3, CallOfOp, BisectCallTiles DEF CallInv, Computed, Returns
    <3> QED
      BY <2>3, <3>1 DEF Whole
  <2> QED
    BY <2>2, <2>3
<1> QED
  BY <1>1, EachCall, PTL

(* Bisecting a bounded numeric segment of two keys or more makes progress,  *)
(* whatever the keys: recursion over integer keys ends without MaxDepth.    *)
THEOREM Shrinks == Spec => []BisectShrinks
<1>1. CallInv => BisectShrinks
  <2> SUFFICES ASSUME CallInv, Returned, call.op = "bisect", call.numeric, call.seg.hi # None,
                      call.seg.hi - call.seg.lo >= 2
               PROVE  Len(result) = 2 /\ \A i \in 1..2 : result[i].lo < result[i].hi
    BY DEF BisectShrinks
  <2> DEFINE lo == call.seg.lo
             hi == call.seg.hi
  <2>1. call \in BisectCalls
    BY CallOfOp DEF CallInv
  <2>2. call.numeric = TRUE /\ call.seg \in Bounded \cup Unbounded
    BY <2>1, BisectFields
  <2>3. lo \in Int /\ hi \in Int /\ call.seg = Seg(lo, hi) /\ hi - lo >= 2
    BY <2>2, SegmentsOfCalls
  <2>4. result = Bisect(TRUE, Seg(lo, hi), call.samples)
    <3>1. result = Bisect(call.numeric, call.seg, call.samples)
      BY DEF CallInv, Computed, Returns
    <3> QED
      BY <2>2, <2>3, <3>1
  <2> HIDE DEF lo, hi
  <2>5. LET segs == Bisect(TRUE, Seg(lo, hi), call.samples)
        IN  /\ Len(segs) = 2
            /\ segs[1].lo = lo /\ segs[2].hi = hi /\ segs[1].hi = segs[2].lo
            /\ lo < segs[1].hi /\ segs[1].hi < hi
    BY <2>3, BisectHalves
  <2>6. /\ Len(result) = 2
        /\ result[1].lo = lo /\ result[2].hi = hi /\ result[1].hi = result[2].lo
        /\ lo < result[1].hi /\ result[1].hi < hi
    BY <2>4, <2>5, Zenon
  <2> QED
    BY <2>6
<1> QED
  BY <1>1, EachCall, PTL

-------------------------------------------------------------------------------
(* Balance.  The m-th cut of s keys into n parts, counted from the first    *)
(* key: the width, its product with m and the cut itself are each rounded.  *)
Cut(s, n, m) == Round(Nearest(m * Nearest(s * FloatOne, n), 1), FloatOne)

LEMMA Cancelled ==
  ASSUME NEW d \in Nat \ {0}, NEW x \in Int, NEW y \in Int, d * x <= d * y
  PROVE  x <= y
<1> SUFFICES ASSUME y + 1 <= x PROVE FALSE
  OBVIOUS
<1>1. d * (y + 1) <= d * x /\ d * (y + 1) = d * y + d
  BY Scaled
<1>2. d * x \in Int /\ d * y \in Int
  OBVIOUS
<1> QED
  BY <1>1, <1>2

(* The two roundings to floats take less than one key of n, so that the cut *)
(* is off by half a key at most, as if only it was rounded.                 *)
LEMMA CutNear ==
  ASSUME NEW s \in Nat \ {0}, NEW n \in Nat \ {0}, Balanceable(s, n), NEW m \in 0..n
  PROVE  /\ Cut(s, n, m) \in Int /\ m * s \in Int
         /\ 2 * (m * s) - n <= 2 * (n * Cut(s, n, m))
         /\ 2 * (n * Cut(s, n, m)) <= 2 * (m * s) + n
<1> DEFINE o == FloatOne
           l == FloatLimit
           w == Nearest(s * o, n)
           z == Nearest(m * w, 1)
           r == Round(z, o)
<1>1. o \in Nat \ {0} /\ l \in Nat \ {0} /\ m \in Nat /\ m <= n
  BY FloatSizes
<1>2. 8 * s * n <= l /\ 4 * n * n <= o
  BY DEF Balanceable
<1>3. Cut(s, n, m) = r
  BY DEF Cut
<1> HIDE DEF o, l
<1>4. s * o \in Nat
  BY <1>1
<1>5. w \in Nat
  BY <1>4, NearestNat
<1>6. PICK u \in Nat \ {0} : /\ 2 * (s * o) - n * u <= 2 * (n * w)
                             /\ 2 * (n * w) <= 2 * (s * o) + n * u
                             /\ u = 1 \/ l * (n * u) <= 2 * (s * o)
  BY <1>4, NearestNear DEF l
<1> HIDE DEF w
<1>7. m * w \in Nat /\ 1 \in Nat \ {0}
  BY <1>1, <1>5
<1>8. z \in Int
  BY <1>7, NearestNearUnits
<1>9. PICK v \in Nat \ {0} : /\ 2 * (m * w) - v <= 2 * z
                             /\ 2 * z <= 2 * (m * w) + v
                             /\ v = 1 \/ l * v <= 2 * (m * w)
  BY <1>7, NearestNearUnits DEF l
<1> HIDE DEF z
<1>10. r \in Int /\ 2 * z - o <= 2 * (o * r) /\ 2 * (o * r) <= 2 * z + o
  BY <1>1, <1>8, RoundNear
<1> HIDE DEF r
<1> DEFINE A == n * (n * u)
           B == n * v
<1>11. A \in Nat /\ B \in Nat /\ 4 * A <= o
  <2>1. A \in Nat /\ B \in Nat
    BY <1>6, <1>9
  <2>2. CASE u = 1
    BY <1>2, <2>1, <2>2
  <2>3. CASE u # 1
    <3> DEFINE t == n * u
    <3>1. t \in Nat /\ l * t <= 2 * (s * o)
      BY <1>6, <2>3
    <3> HIDE DEF t
    <3>2. t * (8 * s * n) <= t * l /\ t * l = l * t /\ l * t \in Int
      BY <1>1, <1>2, <3>1, Scaled
    <3>3. t * (8 * s * n) = (2 * s) * (4 * (n * t)) /\ 2 * (s * o) = (2 * s) * o
          /\ n * t \in Int
      BY <1>1, <3>1
    <3>4. (2 * s) * (4 * (n * t)) <= (2 * s) * o
      BY <1>1, <3>1, <3>2, <3>3
    <3>5. 4 * (n * t) <= o
      <4>1. 2 * s \in Nat \ {0} /\ 4 * (n * t) \in Int
        BY <3>3
      <4> QED
        BY <1>1, <3>4, <4>1, Cancelled
    <3> QED
      BY <2>1, <3>5 DEF t
  <2> QED
    BY <2>2, <2>3
<1>12. 32 * B <= 9 * o
  <2>1. CASE v = 1
    <3>1. n * 1 <= n * n
      BY Scaled
    <3> QED
      BY <1>1, <1>2, <2>1, <3>1
  <2>2. CASE v # 1
    <3>1. l * v <= 2 * (m * w)
      BY <1>9, <2>2
    <3>2. m * w <= n * w /\ n * w \in Int
      <4>1. w * m <= w * n
        BY <1>1, <1>5, Scaled
      <4> QED
        BY <1>1, <1>5, <4>1
    <3>3. v * (8 * s * n) <= v * l /\ v * l = l * v /\ l * v \in Int
      BY <1>1, <1>2, Scaled
    <3>4. v * (8 * s * n) = 8 * (s * B) /\ s * B \in Int
      BY <1>9
    <3>5. n * u <= A /\ n * u \in Int
      <4>1. (n * u) * 1 <= (n * u) * n /\ n * u \in Nat
        BY <1>6, Scaled
      <4> QED
        BY <4>1
    <3>6. o * 1 <= o * s /\ o * s = s * o
      BY <1>1, Scaled
    <3> HIDE DEF A, B
    <3>7. 32 * (s * B) <= 9 * (s * o)
      BY <1>1, <1>4, <1>6, <1>7, <1>11, <3>1, <3>2, <3>3, <3>4, <3>5, <3>6
    <3>8. s * (32 * B) <= s * (9 * o) /\ 32 * B \in Int /\ 9 * o \in Int
      BY <1>1, <1>11, <3>7
    <3> QED
      BY <3>8, Cancelled
  <2> QED
    BY <2>1, <2>2
<1>13. A + B < o
  <2> HIDE DEF A, B
  <2> QED
    BY <1>1, <1>11, <1>12
<1> DEFINE e == n * r - m * s
<1>14. /\ n * r \in Int /\ m * s \in Int /\ e \in Int
       /\ o * (2 * e) <= (n * o) + A + B /\ -((n * o) + A + B) <= o * (2 * e)
  <2>1. n * r \in Int /\ m * s \in Int /\ e \in Int
    BY <1>1, <1>10
  <2>2. /\ n * (2 * (o * r)) <= n * (2 * z + o) /\ n * (2 * z - o) <= n * (2 * (o * r))
        /\ n * (2 * z) <= n * (2 * (m * w) + v) /\ n * (2 * (m * w) - v) <= n * (2 * z)
    <3>1. 2 * (o * r) \in Int /\ 2 * z + o \in Int /\ 2 * z - o \in Int /\ 2 * z \in Int
          /\ 2 * (m * w) + v \in Int /\ 2 * (m * w) - v \in Int
      BY <1>1, <1>7, <1>8, <1>9, <1>10
    <3> QED
      BY <1>8, <1>9, <1>10, <3>1, Scaled
  <2>3. /\ m * (2 * (n * w)) <= m * (2 * (s * o) + n * u)
        /\ m * (2 * (s * o) - n * u) <= m * (2 * (n * w))
    <3>1. 2 * (n * w) \in Int /\ 2 * (s * o) + n * u \in Int /\ 2 * (s * o) - n * u \in Int
      BY <1>4, <1>5, <1>6
    <3> QED
      BY <1>1, <1>6, <3>1, Scaled
  <2>4. m * (n * u) <= A /\ m * (n * u) \in Int
    <3>1. n * u \in Nat
      BY <1>6
    <3>2. (n * u) * m <= (n * u) * n
      BY <1>1, <3>1, Scaled
    <3> QED
      BY <1>1, <3>1, <3>2
  <2> DEFINE a == n * (o * r)
             b == n * z
             c == m * (n * w)
             d == m * (s * o)
             f == m * (n * u)
             g == n * o
  <2>5. /\ n * (2 * (o * r)) = 2 * a /\ n * (2 * z + o) = 2 * b + g
        /\ n * (2 * z - o) = 2 * b - g /\ n * (2 * z) = 2 * b
        /\ n * (2 * (m * w) + v) = 2 * c + B /\ n * (2 * (m * w) - v) = 2 * c - B
        /\ m * (2 * (n * w)) = 2 * c /\ m * (2 * (s * o) + n * u) = 2 * d + f
        /\ m * (2 * (s * o) - n * u) = 2 * d - f
        /\ o * (2 * e) = 2 * a - 2 * d
        /\ a \in Int /\ b \in Int /\ c \in Int /\ d \in Int /\ f \in Int /\ g \in Int
    BY <1>1, <1>5, <1>6, <1>8, <1>9, <1>10
  <2> DEFINE h == o * (2 * e)
  <2>6. /\ 2 * a <= 2 * b + g /\ 2 * b - g <= 2 * a /\ 2 * b <= 2 * c + B
        /\ 2 * c - B <= 2 * b /\ 2 * c <= 2 * d + f /\ 2 * d - f <= 2 * c
        /\ f <= A /\ h = 2 * a - 2 * d
        /\ a \in Int /\ b \in Int /\ c \in Int /\ d \in Int /\ f \in Int /\ g \in Int
    BY <2>2, <2>3, <2>4, <2>5
  <2> HIDE DEF a, b, c, d, f, g, h, A, B
  <2>7. h <= g + A + B /\ -(g + A + B) <= h
    BY <1>11, <2>6
  <2> QED
    BY <2>1, <2>7 DEF h, g
<1>15. 2 * e <= n /\ -n <= 2 * e
  <2> DEFINE x == 2 * e
             g == n * o
  <2>1. x \in Int /\ g \in Int /\ o * x <= g + A + B /\ -(g + A + B) <= o * x /\ o * x \in Int
    <3> HIDE DEF e, A, B
    <3> QED
      BY <1>1, <1>14
  <2>2. o * n = g /\ o * (n + 1) = g + o /\ o * (-(n + 1)) = -(g + o)
    BY <1>1
  <2> HIDE DEF x, g, A, B
  <2>3. ASSUME n + 1 <= x PROVE FALSE
    <3>1. o * (n + 1) <= o * x
      BY <1>1, <2>1, <2>3, Scaled
    <3> QED
      BY <1>1, <1>11, <1>13, <2>1, <2>2, <3>1
  <2>4. ASSUME x <= -(n + 1) PROVE FALSE
    <3>1. o * x <= o * (-(n + 1))
      BY <1>1, <2>1, <2>4, Scaled
    <3> QED
      BY <1>1, <1>11, <1>13, <2>1, <2>2, <3>1
  <2> QED
    BY <2>1, <2>3, <2>4 DEF x
<1> QED
  BY <1>3, <1>10, <1>14, <1>15

(* No float is rounded where n parts of the same size are cut. *)
LEMMA CutExact ==
  ASSUME NEW n \in Nat \ {0}, NEW q \in Nat \ {0}, Balanceable(n * q, n), NEW m \in 0..n
  PROVE  Cut(n * q, n, m) = m * q
<1> DEFINE o == FloatOne
           l == FloatLimit
           s == n * q
           x == m * q
<1>1. o \in Nat \ {0} /\ l \in Nat \ {0} /\ o = Pow(2, FloatFraction) /\ FloatFraction \in Nat
  BY FloatSizes, FloatAssumption DEF FloatOne
<1>2. s \in Nat \ {0} /\ x \in Nat /\ q <= s /\ x <= s
  <2>1. q * 1 <= q * n /\ q * m <= q * n
    BY Scaled
  <2> QED
    BY <2>1
<1>3. 8 * s * n <= l
  BY DEF Balanceable
<1> HIDE DEF o, l, s, x
<1>4. s < l
  <2>1. (8 * s) * 1 <= (8 * s) * n
    BY <1>2, Scaled
  <2> QED
    BY <1>1, <1>2, <1>3, <2>1
<1>5. q < l /\ x < l
  BY <1>1, <1>2, <1>4
<1>6. Nearest(n * (q * o), n) = q * o
  BY <1>1, <1>5, NearestExact DEF l
<1>7. Nearest(1 * (x * o), 1) = x * o
  <2>1. 1 \in Nat \ {0}
    OBVIOUS
  <2> QED
    BY <1>1, <1>2, <1>5, <2>1, NearestExact DEF l
<1>8. s * o = n * (q * o)
  BY <1>1 DEF s
<1>9. m * (q * o) = x * o /\ 1 * (x * o) = x * o /\ x * o = o * x
  BY <1>1, <1>2 DEF x
<1>10. Round(o * x, o) = x
  <2>1. \A y \in Int : Round(o * y, o) = y
    BY <1>1, RoundExact
  <2> QED
    BY <1>2, <2>1
<1> QED
  BY <1>6, <1>7, <1>8, <1>9, <1>10 DEF Cut, o, s, x

(* The distance of two neighbouring cuts of w keys into n parts: two of them *)
(* can differ by two only if all four cuts are ties, but then w is a        *)
(* multiple of n and no cut is rounded at all.                              *)
LEMMA CutsEven ==
  ASSUME NEW w \in Nat \ {0}, NEW n \in Nat \ {0}, Balanceable(w, n),
         NEW i \in 1..n, NEW j \in 1..n
  PROVE  Cut(w, n, i) - Cut(w, n, i - 1) <= Cut(w, n, j) - Cut(w, n, j - 1) + 1
<1> DEFINE R(m) == Cut(w, n, m)
           P(m) == n * R(m)
<1>1. ASSUME NEW m \in 0..n
      PROVE  /\ R(m) \in Int /\ P(m) \in Int /\ m * w \in Int
             /\ 2 * (m * w) - n <= 2 * P(m) /\ 2 * P(m) <= 2 * (m * w) + n
  <2>1. m * w \in Int
    OBVIOUS
  <2>2. R(m) \in Int /\ 2 * (m * w) - n <= 2 * P(m) /\ 2 * P(m) <= 2 * (m * w) + n
    BY CutNear
  <2> HIDE DEF R
  <2> QED
    BY <2>1, <2>2
<1>2. i \in 0..n /\ i - 1 \in 0..n /\ j \in 0..n /\ j - 1 \in 0..n
  OBVIOUS
<1>3. i * w = (i - 1) * w + w /\ j * w = (j - 1) * w + w
  OBVIOUS
<1> DEFINE D == R(i) - R(i - 1)
           E == R(j) - R(j - 1)
<1>4. D \in Int /\ E \in Int
  <2>1. R(i) \in Int /\ R(i - 1) \in Int /\ R(j) \in Int /\ R(j - 1) \in Int
    BY <1>1, <1>2
  <2> HIDE DEF R
  <2> QED
    BY <2>1
<1>5. n * D = P(i) - P(i - 1) /\ n * E = P(j) - P(j - 1)
  <2>1. R(i) \in Int /\ R(i - 1) \in Int /\ R(j) \in Int /\ R(j - 1) \in Int
    BY <1>1, <1>2
  <2> HIDE DEF R
  <2> QED
    BY <2>1
<1>6. ASSUME D >= E + 2 PROVE FALSE
  <2>1. n * (E + 2) <= n * D /\ n * (E + 2) = n * E + 2 * n /\ n * D \in Int /\ n * E \in Int
    <3> HIDE DEF D, E
    <3> QED
      BY <1>4, <1>6, Scaled
  <2> DEFINE a == (i - 1) * w
             b == (j - 1) * w
  <2>2. /\ a \in Int /\ b \in Int /\ i * w = a + w /\ j * w = b + w
        /\ P(i) \in Int /\ P(i - 1) \in Int /\ P(j) \in Int /\ P(j - 1) \in Int
    BY <1>1, <1>2, <1>3
  <2>3. /\ 2 * P(i) <= 2 * (a + w) + n /\ 2 * a - n <= 2 * P(i - 1)
        /\ 2 * (b + w) - n <= 2 * P(j) /\ 2 * P(j - 1) <= 2 * b + n
    BY <1>1, <1>2, <2>2
  <2> DEFINE pi == P(i)
             pi1 == P(i - 1)
             pj == P(j)
             pj1 == P(j - 1)
             nD == n * D
             nE == n * E
  <2>4. nD = pi - pi1 /\ nE = pj - pj1 /\ nE + 2 * n <= nD
    BY <1>5, <2>1
  <2>5. 2 * pi = 2 * (a + w) + n /\ nD = w + n
    <3>1. pi \in Int /\ pi1 \in Int /\ pj \in Int /\ pj1 \in Int /\ a \in Int /\ b \in Int
      BY <2>2
    <3>2. /\ 2 * pi <= 2 * (a + w) + n /\ 2 * a - n <= 2 * pi1
          /\ 2 * (b + w) - n <= 2 * pj /\ 2 * pj1 <= 2 * b + n
      BY <2>3
    <3> HIDE DEF pi, pi1, pj, pj1, nD, nE, a, b
    <3> QED
      BY <2>4, <3>1, <3>2
  <2> DEFINE q == D - 1
  <2>6. q \in Nat \ {0} /\ w = n * q
    <3> HIDE DEF D
    <3>1. n * (D - 1) = n * D - n /\ n * D \in Int
      BY <1>4
    <3>2. q \in Int /\ w = n * q
      BY <1>4, <2>5, <3>1
    <3>3. q > 0
      <4> SUFFICES ASSUME q <= 0 PROVE FALSE
        BY <3>2
      <4> HIDE DEF q
      <4>1. n * q <= n * 0
        BY <3>2, Scaled
      <4> QED
        BY <3>2, <4>1
    <3> QED
      BY <3>2, <3>3
  <2> HIDE DEF q
  <2>7. i * w = n * (i * q) /\ i * q \in Int
    BY <2>6
  <2>8. R(i) = i * q
    <3>1. Balanceable(n * q, n) /\ i \in 0..n
      BY <2>6
    <3>2. Cut(n * q, n, i) = i * q
      BY <2>6, <3>1, CutExact
    <3> QED
      BY <2>6, <3>2
  <2>9. P(i) = i * w
    <3> HIDE DEF R
    <3> QED
      BY <2>7, <2>8
  <2>10. 2 * P(i) = 2 * (i * w) + n
    BY <2>2, <2>5
  <2>11. i * w \in Int
    BY <1>1, <1>2
  <2> DEFINE y == i * w
  <2>12. 2 * y = 2 * y + n /\ y \in Int
    BY <2>9, <2>10, <2>11
  <2> HIDE DEF y
  <2> QED
    BY <2>12
<1>7. D <= E + 1
  <2> HIDE DEF D, E
  <2> QED
    BY <1>4, <1>6
<1> QED
  BY <1>7

(* The keys of lo..hi in the i-th segment of a numeric range are those between *)
(* two neighbouring cuts, the last segment's too although it is open.       *)
KeysIn(s, lo, hi) == { k \in lo..hi : InSegment(k, s) }

LEMMA PartSize ==
  ASSUME NEW lo \in Int, NEW hi \in Int, lo < hi, NEW n \in Nat \ {0}, NEW i \in 1..n,
         Balanceable(hi - lo + 1, n)
  PROVE  LET segs == InitialSegments(TRUE, n, lo, hi, << >>)
             w    == hi - lo + 1
         IN  Cardinality(KeysIn(segs[i], lo, hi)) = Cut(w, n, i) - Cut(w, n, i - 1)
<1> DEFINE w == hi - lo + 1
           width == Nearest(w * FloatOne, n)
           cut(m) == CutAt(lo, m, width)
           at(m) == Seg(cut(m - 1), IF m = n /\ TRUE THEN None ELSE cut(m))
           range == [m \in 1..n |-> at(m)]
           segs == InitialSegments(TRUE, n, lo, hi, << >>)
           s == segs[i]
<1>1. w \in Nat \ {0} /\ lo # hi /\ hi = lo + w - 1
  OBVIOUS
<1>2. SegmentNumericRange(lo, hi, n, TRUE) = range
  BY <1>1 DEF SegmentNumericRange
<1>3. \A m \in 0..n : Cut(w, n, m) \in Int /\ cut(m) = lo + Cut(w, n, m)
  <2> HIDE DEF w
  <2>1. \A m \in 0..n : Cut(w, n, m) \in Int
    BY <1>1, CutNear DEF w
  <2> QED
    BY <2>1 DEF CutAt, Cut
<1>4. /\ cut(0) = lo /\ cut(n) = hi + 1
      /\ \A m, k \in 0..n : m <= k => cut(m) \in Int /\ cut(k) \in Int /\ cut(m) <= cut(k)
  <2>1. width \in Nat
    <3> HIDE DEF w
    <3>1. w * FloatOne \in Nat
      BY <1>1, FloatSizes
    <3> QED
      BY <3>1, NearestNat
  <2>2. /\ cut(0) = lo
        /\ \A m, k \in 0..n : m <= k => cut(m) \in Int /\ cut(k) \in Int /\ cut(m) <= cut(k)
    <3> HIDE DEF width
    <3>1. cut(0) = lo
      BY <2>1, CutsInOrder
    <3>2. \A m, k \in 0..n : m \in Nat /\ k \in Nat
      OBVIOUS
    <3>3. \A m, k \in Nat : m <= k => cut(m) \in Int /\ cut(k) \in Int /\ cut(m) <= cut(k)
      BY <2>1, CutsInOrder
    <3> HIDE DEF cut
    <3> QED
      BY <3>1, <3>2, <3>3
  <2>3. Cut(w, n, n) = w
    <3> DEFINE c == Cut(w, n, n)
    <3>1. c \in Int /\ 2 * (n * w) - n <= 2 * (n * c) /\ 2 * (n * c) <= 2 * (n * w) + n
      <4>1. n \in 0..n
        OBVIOUS
      <4> HIDE DEF w
      <4> QED
        BY <1>1, <4>1, CutNear DEF w
    <3> HIDE DEF c, w
    <3>2. n * c \in Int /\ n * w \in Int
      BY <1>1, <3>1
    <3>3. n * (c + 1) = n * c + n /\ n * (w + 1) = n * w + n
      BY <1>1, <3>1
    <3>4. ~(c >= w + 1)
      <4> SUFFICES ASSUME w + 1 <= c PROVE FALSE
        BY <1>1, <3>1
      <4>1. n * (w + 1) <= n * c
        BY <1>1, <3>1, Scaled
      <4> QED
        BY <3>1, <3>2, <3>3, <4>1
    <3>5. ~(c + 1 <= w)
      <4> SUFFICES ASSUME c + 1 <= w PROVE FALSE
        OBVIOUS
      <4>1. n * (c + 1) <= n * w
        BY <1>1, <3>1, Scaled
      <4> QED
        BY <3>1, <3>2, <3>3, <4>1
    <3> QED
      BY <1>1, <3>1, <3>4, <3>5 DEF c
  <2>4. n \in 0..n
    OBVIOUS
  <2> QED
    BY <1>1, <1>3, <2>2, <2>3, <2>4
<1>5. Len(range) = n /\ range[i] = at(i)
  OBVIOUS
<1>6. s = Seg(IF i = 1 THEN lo ELSE range[i].lo, range[i].hi)
  <2>1. segs = ClampToRange(range, lo, None)
    BY <1>2 DEF InitialSegments
  <2> HIDE DEF range
  <2> QED
    BY <1>5, <2>1 DEF ClampToRange
<1>7. i - 1 \in 0..n /\ i \in 0..n /\ 0 \in 0..n /\ n \in 0..n /\ 0 <= i - 1 /\ i - 1 <= i /\ i <= n
  OBVIOUS
<1>8. (i = 1 => cut(i - 1) = lo) /\ (i = n => cut(i) = hi + 1)
  <2> HIDE DEF cut
  <2> QED
    BY <1>4
<1> DEFINE a == cut(i - 1)
           b == cut(i)
<1>9. s.lo = a /\ s.hi = IF i = n THEN None ELSE b
  <2>1. range[i].lo = a /\ range[i].hi = IF i = n THEN None ELSE b
    BY <1>5 DEF Seg
  <2> HIDE DEF range, cut, s, b
  <2>2. s.lo = IF i = 1 THEN lo ELSE range[i].lo
    BY <1>6 DEF Seg
  <2>3. s.hi = range[i].hi
    BY <1>6 DEF Seg
  <2> QED
    BY <1>8, <2>1, <2>2, <2>3 DEF cut
<1>10. a \in Int /\ b \in Int /\ lo <= a /\ a <= b /\ b <= hi + 1
  <2> HIDE DEF cut
  <2> QED
    BY <1>4, <1>7
<1>11. b - a = Cut(w, n, i) - Cut(w, n, i - 1)
  <2> HIDE DEF cut, w
  <2> QED
    BY <1>3, <1>7
<1> HIDE DEF cut, segs, w
<1>12. KeysIn(s, lo, hi) = a..(b - 1)
  <2>1. ASSUME NEW k \in lo..hi
        PROVE  InSegment(k, s) <=> k \in a..(b - 1)
    <3> HIDE DEF s, a, b
    <3>1. a # None /\ k # None /\ k \in Int
      BY <1>10, NoneAssumption
    <3>2. CASE i = n
      BY <1>8, <1>9, <1>10, <3>1, <3>2 DEF InSegment, b
    <3>3. CASE i # n
      BY <1>9, <1>10, <3>1, <3>3, NoneAssumption DEF InSegment
    <3> QED
      BY <3>2, <3>3
  <2>2. \A k \in a..(b - 1) : k \in lo..hi
    <3> HIDE DEF a, b
    <3> QED
      BY <1>10
  <2> HIDE DEF s, a, b
  <2> QED
    BY <2>1, <2>2 DEF KeysIn
<1> HIDE DEF a, b
<1>13. Cardinality(a..(b - 1)) = b - a
  <2>1. Cardinality(a..(b - 1)) = IF a > b - 1 THEN 0 ELSE b - 1 - a + 1
    BY <1>10, FS_Interval
  <2> QED
    BY <1>10, <2>1
<1> QED
  BY <1>11, <1>12, <1>13 DEF segs, s, w

(* "The segments come out balanced": over dense keys no two initial         *)
(* segments of a numeric range differ by more than one key, whatever the    *)
(* number of bits of a float, if keys and segments are Balanceable.         *)
THEOREM Balanced == Spec => []SegmentsBalanced
<1>1. CallInv => SegmentsBalanced
  <2> DEFINE lo == call.seg.lo
             hi == call.seg.hi
             n == call.num
             size(i) == Cardinality({ k \in lo..hi : i \in Owners(k) })
  <2> SUFFICES ASSUME CallInv, Returned, call.op = "initial", call.numeric,
                      Balanceable(hi - lo + 1, n), NEW i \in DOMAIN result, NEW j \in DOMAIN result
               PROVE  size(i) <= size(j) + 1
    BY DEF SegmentsBalanced
  <2>1. call \in InitialCalls /\ Sensible(call)
    BY CallOfOp DEF CallInv
  <2>2. n \in 1..MaxParts /\ call.samples = << >> /\ call.seg \in Bounded /\ call.numeric = TRUE
    BY <2>1, InitialFields
  <2>3. lo \in Int /\ hi \in Int
    BY <2>2, SegmentsOfCalls
  <2>4. lo <= hi
    BY <2>1, <2>3, NoneAssumption DEF Sensible
  <2>5. result = InitialSegments(TRUE, n, lo, hi, << >>)
    <3>1. result = InitialSegments(call.numeric, n, lo, hi, call.samples)
      BY DEF CallInv, Computed, Returns
    <3> QED
      BY <2>2, <3>1
  <2>6. n \in Nat \ {0}
    BY <2>2
  <2> DEFINE own(m) == KeysIn(result[m], lo, hi)
  <2>7. \A m \in DOMAIN result : size(m) = Cardinality(own(m))
    BY DEF Owners, KeysIn
  <2> HIDE DEF size, lo, hi, n
  <2>8. CASE lo = hi
    <3>1. DOMAIN result = 1..1
      BY <2>3, <2>5, <2>8 DEF InitialSegments, ClampToRange, SegmentNumericRange
    <3>2. i = j
      BY <3>1
    <3>3. Cardinality(own(i)) \in Nat
      <4>1. own(i) \in SUBSET (lo..hi) /\ IsFiniteSet(lo..hi)
        BY <2>3, FS_Interval DEF KeysIn
      <4> HIDE DEF own
      <4> QED
        BY <4>1, FS_Subset, FS_CardinalityType
    <3> HIDE DEF own
    <3> QED
      BY <2>7, <3>2, <3>3
  <2>9. CASE lo # hi
    <3>1. lo < hi
      BY <2>3, <2>4, <2>9
    <3>2. DOMAIN result = 1..n
      BY <2>3, <2>5, <2>6, <2>9 DEF InitialSegments, ClampToRange, SegmentNumericRange
    <3> DEFINE w == hi - lo + 1
    <3>3. \A m \in 1..n : Cardinality(own(m)) = Cut(w, n, m) - Cut(w, n, m - 1)
      <4> DEFINE segs == InitialSegments(TRUE, n, lo, hi, << >>)
      <4>1. \A m \in 1..n : Cardinality(KeysIn(segs[m], lo, hi))
                              = Cut(w, n, m) - Cut(w, n, m - 1)
        BY <2>3, <2>6, <3>1, PartSize
      <4> HIDE DEF segs
      <4> QED
        BY <2>5, <4>1 DEF segs
    <3>4. w \in Nat \ {0} /\ Balanceable(w, n)
      BY <2>3, <3>1
    <3> HIDE DEF own, w
    <3>5. Cut(w, n, i) - Cut(w, n, i - 1) <= Cut(w, n, j) - Cut(w, n, j - 1) + 1
      BY <2>6, <3>2, <3>4, CutsEven
    <3> QED
      BY <2>7, <3>2, <3>3, <3>5
  <2> QED
    BY <2>8, <2>9
<1> QED
  BY <1>1, EachCall, PTL

-------------------------------------------------------------------------------
(* Sampling.  The bucket that a percentage asks for, before it is cut off   *)
(* at the ends.                                                             *)
Share(pct) == Round(Nearest(Nearest(pct * SampleModulus, 1), 100), FloatOne)

LEMMA KeptCount ==
  ASSUME NEW pct, Share(pct) \in Int
  PROVE  /\ Threshold(pct) \in 0..SampleModulus
         /\ Share(pct) = SampleModulus => Threshold(pct) = SampleModulus
         /\ Threshold(pct) >= 1 => Threshold(pct) <= Share(pct)
         /\ Cardinality(KeptBuckets(pct)) = Threshold(pct)
<1>1. Threshold(pct) = Greater(0, Lesser(SampleModulus, Share(pct)))
  BY DEF Threshold, Share
<1>2. /\ Threshold(pct) \in 0..SampleModulus
      /\ Share(pct) = SampleModulus => Threshold(pct) = SampleModulus
      /\ Threshold(pct) >= 1 => Threshold(pct) <= Share(pct)
  BY <1>1, SampleAssumption DEF Greater, Lesser
<1> DEFINE n == Threshold(pct)
<1>3. KeptBuckets(pct) = 0..(n - 1)
  BY <1>2, SampleAssumption DEF KeptBuckets
<1>4. n \in Int /\ 0 \in Int /\ n - 1 \in Int /\ n >= 0
  BY <1>2, SampleAssumption
<1> HIDE DEF n
<1>5. Cardinality(0..(n - 1)) = n
  <2>1. Cardinality(0..(n - 1)) = IF 0 > n - 1 THEN 0 ELSE n - 1 - 0 + 1
    BY <1>4, FS_Interval
  <2> QED
    BY <1>4, <2>1
<1> QED
  BY <1>2, <1>3, <1>5 DEF n

(* A whole number of units of FloatOne that fits is a float, and so is its  *)
(* quotient by a divisor.                                                   *)
LEMMA WholeFloats ==
  /\ \A x \in Nat : x < FloatLimit => Nearest(x * FloatOne, 1) = x * FloatOne
  /\ \A x \in Nat, d \in Nat \ {0} :
       x < FloatLimit => Nearest(d * (x * FloatOne), d) = x * FloatOne
<1> DEFINE o == FloatOne
<1>1. o \in Nat \ {0} /\ o = Pow(2, FloatFraction) /\ FloatFraction \in Nat
  BY FloatSizes, FloatAssumption DEF FloatOne
<1>2. \A x \in Nat, d \in Nat \ {0} :
        x < FloatLimit => Nearest(d * (x * Pow(2, FloatFraction)), d) = x * Pow(2, FloatFraction)
  BY <1>1, NearestExact
<1> HIDE DEF o
<1>3. \A x \in Nat, d \in Nat \ {0} : x < FloatLimit => Nearest(d * (x * o), d) = x * o
  BY <1>1, <1>2
<1>4. ASSUME NEW x \in Nat, x < FloatLimit PROVE Nearest(x * o, 1) = x * o
  <2>1. Nearest(1 * (x * o), 1) = x * o
    BY <1>3, <1>4
  <2>2. 1 * (x * o) = x * o
    BY <1>1
  <2> QED
    BY <2>1, <2>2
<1> QED
  BY <1>3, <1>4 DEF o

LEMMA SampleSizes ==
  /\ SampleModulus \in Nat \ {0} /\ FloatOne \in Nat \ {0} /\ FloatLimit \in Nat \ {0}
  /\ 100 < FloatLimit /\ SampleModulus < FloatLimit /\ 100 * SampleModulus < FloatLimit
  /\ 1 < FloatLimit
BY SampleAssumption, FloatSizes

LEMMA WholeShare == Share(100 * FloatOne) = SampleModulus
<1> DEFINE o == FloatOne
           M == SampleModulus
           h == 100 * M
<1>1. M \in Nat \ {0} /\ o \in Nat \ {0} /\ h \in Nat /\ h < FloatLimit /\ M < FloatLimit
  BY SampleSizes
<1>2. Nearest(h * o, 1) = h * o /\ Nearest(100 * (M * o), 100) = M * o
  <2> HIDE DEF h
  <2>1. 100 \in Nat \ {0}
    OBVIOUS
  <2> QED
    BY <1>1, <2>1, WholeFloats
<1> HIDE DEF o, M
<1>3. (100 * o) * M = h * o /\ h * o = 100 * (M * o) /\ M * o = o * M
  BY <1>1
<1>4. Round(o * M, o) = M
  <2>1. \A x \in Int : Round(o * x, o) = x
    BY <1>1, RoundExact
  <2> QED
    BY <1>1, <2>1
<1> HIDE DEF h
<1> QED
  BY <1>2, <1>3, <1>4 DEF Share, o, M

LEMMA WholeTable ==
  ASSUME NEW rows \in Int, NEW c \in Nat \ {0}, rows >= c
  PROVE  Percentage(rows, c) = 100 * FloatOne
<1> DEFINE o == FloatOne
           p == Nearest(rows * o, c)
           q == Nearest(p * 100, 1)
<1>1. /\ o \in Nat \ {0} /\ Nearest(c * (1 * o), c) = 1 * o
      /\ Nearest(100 * o, 1) = 100 * o
  BY SampleSizes, WholeFloats
<1> HIDE DEF o
<1>2. c * (1 * o) = c * o /\ 1 * o = o /\ c * o \in Nat /\ rows * o \in Nat /\ c * o <= rows * o
  <2>1. o * c <= o * rows
    BY <1>1, Scaled
  <2> QED
    BY <1>1, <2>1
<1>3. Nearest(c * o, c) = o
  BY <1>1, <1>2
<1>4. p \in Int /\ o <= p
  BY <1>2, <1>3, NearestMonotone
<1> HIDE DEF p
<1>5. 100 * o \in Nat /\ p * 100 \in Nat /\ 100 * o <= p * 100 /\ 1 \in Nat \ {0}
  BY <1>1, <1>4
<1>6. q \in Int /\ 100 * o <= q
  <2> DEFINE a == 100 * o
             b == p * 100
  <2>1. Nearest(a, 1) = a /\ a \in Nat /\ b \in Nat /\ a <= b
    BY <1>1, <1>5
  <2> HIDE DEF a, b
  <2>2. Nearest(b, 1) \in Int /\ Nearest(a, 1) <= Nearest(b, 1)
    BY <1>5, <2>1, NearestMonotone
  <2> QED
    BY <2>1, <2>2 DEF a, b
<1> HIDE DEF q
<1>7. Percentage(rows, c) = Lesser(100 * o, q)
  BY DEF Percentage, o, p, q
<1>8. Lesser(100 * o, q) = 100 * o
  BY <1>6 DEF Lesser
<1> QED
  BY <1>7, <1>8 DEF o

(* A negative request keeps nothing. *)
LEMMA NoShare ==
  ASSUME NEW rows \in Int, NEW c \in Nat \ {0}, rows < 0
  PROVE  Share(Percentage(rows, c)) \in Int /\ Share(Percentage(rows, c)) <= 0
<1>1. ASSUME NEW x \in Int, NEW d \in Nat \ {0}, x <= 0
      PROVE  Nearest(x, d) \in Int /\ Nearest(x, d) <= 0
  <2>1. CASE x >= 0
    <3>1. x = 0
      BY <1>1, <2>1
    <3>2. Nearest(d * (0 * FloatOne), d) = 0 * FloatOne
      BY SampleSizes, WholeFloats
    <3>3. d * (0 * FloatOne) = 0 /\ 0 * FloatOne = 0
      BY SampleSizes
    <3> QED
      BY <3>1, <3>2, <3>3
  <2>2. CASE ~(x >= 0)
    <3> DEFINE y == -x
    <3>1. y \in Nat /\ y >= 0
      BY <2>2
    <3>2. Nearest(x, d) = -(Spacing(y, d) * Round(y, d * Spacing(y, d)))
      BY <2>2, <3>1 DEF Nearest
    <3>3. Nearest(y, d) = Spacing(y, d) * Round(y, d * Spacing(y, d))
      <4> HIDE DEF y
      <4> QED
        BY <3>1, NearestIs
    <3> HIDE DEF y
    <3>4. Nearest(y, d) \in Nat
      BY <3>1, NearestNat
    <3>5. Nearest(x, d) = -Nearest(y, d)
      BY <3>2, <3>3
    <3> QED
      BY <3>4, <3>5
  <2> QED
    BY <2>1, <2>2
<1> DEFINE o == FloatOne
           M == SampleModulus
           p == Nearest(rows * o, c)
           q == Nearest(p * 100, 1)
           pct == Percentage(rows, c)
           s == Nearest(pct * M, 1)
           t == Nearest(s, 100)
<1>2. o \in Nat \ {0} /\ M \in Nat \ {0} /\ 1 \in Nat \ {0} /\ 100 \in Nat \ {0}
  BY SampleSizes
<1>3. Percentage(rows, c) = Lesser(100 * o, q)
  BY DEF Percentage
<1> HIDE DEF o, M
<1>4. rows * o \in Int /\ rows * o <= 0
  <2>1. o * rows <= o * 0
    BY <1>2, Scaled
  <2> QED
    BY <1>2, <2>1
<1>5. p \in Int /\ p <= 0
  BY <1>1, <1>4
<1> HIDE DEF p
<1>6. p * 100 \in Int /\ p * 100 <= 0
  BY <1>5
<1>7. q \in Int /\ q <= 0
  BY <1>1, <1>2, <1>6
<1> HIDE DEF q
<1>8. pct \in Int /\ pct <= 0
  BY <1>2, <1>3, <1>7 DEF Lesser
<1> HIDE DEF pct
<1>9. pct * M \in Int /\ pct * M <= 0
  <2>1. M * pct <= M * 0
    BY <1>2, <1>8, Scaled
  <2> QED
    BY <1>2, <1>8, <2>1
<1>10. s \in Int /\ s <= 0
  BY <1>1, <1>2, <1>9
<1> HIDE DEF s
<1>11. t \in Int /\ t <= 0
  BY <1>1, <1>2, <1>10
<1> HIDE DEF t
<1>12. Round(t, o) \in Int /\ Round(t, o) <= Round(0, o)
  BY <1>2, <1>11, RoundMonotone
<1>13. Round(0, o) = 0
  <2>1. Round(o * 0, o) = 0 /\ o * 0 = 0
    BY <1>2, RoundExact
  <2> QED
    BY <2>1
<1> QED
  BY <1>12, <1>13 DEF Share, pct, s, t, o, M

(* The four roundings to floats on the way to the bucket take less than one *)
(* row of c: each takes an eighth at most.                                  *)
LEMMA ShareNear ==
  ASSUME NEW rows \in Nat, NEW c \in Nat \ {0}, rows <= c,
         16 * SampleModulus * c <= Lesser(FloatLimit, FloatOne)
  PROVE  /\ Share(Percentage(rows, c)) \in Int
         /\ 2 * (c * Share(Percentage(rows, c))) <= 2 * (rows * SampleModulus) + c
<1> DEFINE o == FloatOne
           l == FloatLimit
           M == SampleModulus
           p == Nearest(rows * o, c)
           q == Nearest(p * 100, 1)
           pct == Percentage(rows, c)
           s == Nearest(pct * M, 1)
           t == Nearest(s, 100)
           r == Round(t, o)
<1>1. /\ o \in Nat \ {0} /\ M \in Nat \ {0} /\ l \in Nat \ {0}
      /\ 1 \in Nat \ {0} /\ 100 \in Nat \ {0}
  BY SampleSizes
<1>2. 16 * M * c <= l /\ 16 * M * c <= o
  BY <1>1 DEF Lesser
<1>3. pct = Lesser(100 * o, q)
  BY DEF Percentage
<1>4. Share(pct) = r
  BY DEF Share
<1>5. /\ Nearest(c * (1 * o), c) = 1 * o /\ Nearest((100 * M) * o, 1) = (100 * M) * o
  <2> DEFINE h == 100 * M
  <2>1. h \in Nat /\ h < FloatLimit /\ 1 < FloatLimit
    BY SampleSizes
  <2> HIDE DEF h
  <2> QED
    BY <2>1, WholeFloats DEF h
<1> HIDE DEF o, l, M, pct
<1>6. rows * o \in Nat /\ c * o \in Nat /\ rows * o <= c * o
  <2>1. o * rows <= o * c
    BY <1>1, Scaled
  <2> QED
    BY <1>1, <2>1
<1>7. p \in Nat /\ p <= o
  <2>1. c * (1 * o) = c * o /\ 1 * o = o
    BY <1>1
  <2>2. Nearest(c * o, c) = o
    BY <1>5, <2>1
  <2>3. p <= Nearest(c * o, c)
    BY <1>6, NearestMonotone
  <2>4. p \in Nat
    BY <1>6, NearestNat
  <2> QED
    BY <2>2, <2>3, <2>4
<1>8. PICK u \in Nat \ {0} : /\ 2 * (c * p) <= 2 * (rows * o) + c * u
                             /\ u = 1 \/ l * (c * u) <= 2 * (rows * o)
  BY <1>6, NearestNear DEF l
<1> HIDE DEF p
<1>9. p * 100 \in Nat
  BY <1>7
<1>10. PICK v \in Nat \ {0} : /\ 2 * q <= 2 * (p * 100) + v
                              /\ v = 1 \/ l * v <= 2 * (p * 100)
  BY <1>9, NearestNearUnits DEF l
<1>11. q \in Nat
  BY <1>1, <1>9, NearestNat
<1> HIDE DEF q
<1>12. pct \in Nat /\ pct <= 100 * o /\ pct <= q
  BY <1>1, <1>3, <1>11 DEF Lesser
<1>13. pct * M \in Nat /\ (100 * M) * o \in Nat /\ pct * M <= (100 * M) * o
  <2>1. M * pct <= M * (100 * o)
    BY <1>1, <1>12, Scaled
  <2>2. M * pct = pct * M /\ M * (100 * o) = (100 * M) * o
    BY <1>1, <1>12
  <2> QED
    BY <1>1, <1>12, <2>1, <2>2
<1>14. PICK w \in Nat \ {0} : /\ 2 * s <= 2 * (pct * M) + w
                              /\ w = 1 \/ l * w <= 2 * (pct * M)
  BY <1>13, NearestNearUnits DEF l
<1>15. s \in Nat /\ s <= (100 * M) * o
  <2> DEFINE a == pct * M
             b == (100 * M) * o
  <2>1. a \in Nat /\ b \in Nat /\ a <= b /\ Nearest(b, 1) = b
    BY <1>5, <1>13
  <2> HIDE DEF a, b
  <2>2. Nearest(a, 1) \in Nat /\ Nearest(a, 1) <= Nearest(b, 1)
    BY <1>1, <2>1, NearestMonotone, NearestNat
  <2> QED
    BY <2>1, <2>2 DEF a, b
<1> HIDE DEF s
<1>16. PICK x \in Nat \ {0} : /\ 2 * (100 * t) <= 2 * s + 100 * x
                              /\ x = 1 \/ l * (100 * x) <= 2 * s
  BY <1>1, <1>15, NearestNear DEF l
<1>17. t \in Nat
  BY <1>1, <1>15, NearestNat
<1> HIDE DEF t
<1>18. r \in Int /\ 2 * (o * r) <= 2 * t + o
  <2>1. t \in Int
    BY <1>17
  <2>2. /\ Round(t, o) \in Int
        /\ 2 * t - o <= 2 * (o * Round(t, o)) /\ 2 * (o * Round(t, o)) <= 2 * t + o
    BY <1>1, <2>1, RoundNear
  <2> QED
    BY <2>2
<1> HIDE DEF r
<1> DEFINE m == M * c
<1>19. m \in Nat \ {0} /\ 16 * m <= l /\ 16 * m <= o /\ c <= m
  <2>1. c * 1 <= c * M
    BY <1>1, Scaled
  <2>2. 16 * M * c = 16 * m /\ m = c * M /\ m \in Nat
    BY <1>1
  <2> QED
    BY <1>1, <1>2, <2>1, <2>2
<1>20. \A y \in Nat : y * (16 * m) <= l * y /\ y * (16 * m) = 16 * (m * y) /\ m * y \in Nat
                      /\ l * y \in Nat
  <2> HIDE DEF m
  <2> SUFFICES ASSUME NEW y \in Nat
               PROVE  y * (16 * m) <= l * y /\ y * (16 * m) = 16 * (m * y) /\ m * y \in Nat
                      /\ l * y \in Nat
    OBVIOUS
  <2>1. 16 * m \in Int /\ y * (16 * m) <= y * l
    BY <1>1, <1>19, Scaled
  <2> QED
    BY <1>1, <1>19, <2>1
<1>21. m * u \in Nat /\ 8 * (m * u) <= o
  <2>1. CASE u = 1
    BY <1>1, <1>19, <2>1
  <2>2. CASE u # 1
    <3> HIDE DEF m
    <3>1. c * u \in Nat /\ l * (c * u) <= 2 * (rows * o)
      BY <1>8, <2>2
    <3>2. 16 * (m * (c * u)) <= 2 * (c * o)
      <4> DEFINE y == c * u
      <4> HIDE DEF y
      <4>1. y \in Nat /\ l * y <= 2 * (rows * o)
        BY <3>1 DEF y
      <4>2. 16 * (m * y) <= l * y /\ m * y \in Nat /\ l * y \in Nat
        BY <1>20, <4>1
      <4> QED
        BY <1>6, <4>1, <4>2 DEF y
    <3>3. 16 * (m * (c * u)) = c * (16 * (m * u)) /\ 2 * (c * o) = c * (2 * o)
      BY <1>1, <1>19
    <3>4. 16 * (m * u) \in Int /\ 2 * o \in Int /\ m * u \in Nat
      BY <1>1, <1>19
    <3>5. 16 * (m * u) <= 2 * o
      BY <3>2, <3>3, <3>4, Cancelled
    <3> QED
      BY <1>1, <3>4, <3>5
  <2> QED
    BY <2>1, <2>2
<1>22. m * v \in Nat /\ 8 * (m * v) <= 100 * o
  <2> HIDE DEF m
  <2>1. 16 * (m * v) <= l * v /\ m * v \in Nat /\ l * v \in Nat
    BY <1>20
  <2>2. CASE v = 1
    BY <1>1, <1>19, <2>1, <2>2
  <2>3. CASE v # 1
    BY <1>1, <1>7, <1>10, <2>1, <2>3
  <2> QED
    BY <2>2, <2>3
<1>23. c * w \in Nat /\ 8 * (c * w) <= 100 * o
  <2>1. CASE w = 1
    BY <1>1, <1>19, <2>1
  <2>2. CASE w # 1
    <3>1. 16 * (m * w) <= l * w /\ m * w \in Nat /\ l * w \in Nat
      <4> HIDE DEF m
      <4> QED
        BY <1>20
    <3>2. l * w <= 2 * ((100 * M) * o)
      BY <1>13, <1>14, <2>2, <3>1
    <3>3. 16 * (m * w) = M * (16 * (c * w)) /\ 2 * ((100 * M) * o) = M * (200 * o)
      BY <1>1
    <3>4. 16 * (c * w) \in Int /\ 200 * o \in Int /\ c * w \in Nat
      BY <1>1
    <3>5. M * (16 * (c * w)) <= M * (200 * o)
      BY <1>13, <3>1, <3>2, <3>3
    <3>6. 16 * (c * w) <= 200 * o
      BY <1>1, <3>4, <3>5, Cancelled
    <3> QED
      BY <1>1, <3>4, <3>6
  <2> QED
    BY <2>1, <2>2
<1>24. c * x \in Nat /\ 8 * (c * x) <= o
  <2>1. CASE x = 1
    BY <1>1, <1>19, <2>1
  <2>2. CASE x # 1
    <3>1. 16 * (m * x) <= l * x /\ m * x \in Nat /\ l * x \in Nat
      <4> HIDE DEF m
      <4> QED
        BY <1>20
    <3>2. l * (100 * x) = 100 * (l * x) /\ (100 * M) * o = 100 * (M * o) /\ M * o \in Nat
      BY <1>1
    <3>3. 100 * (l * x) <= 2 * (100 * (M * o))
      BY <1>15, <1>16, <2>2, <3>1, <3>2
    <3>4. 16 * (m * x) <= 2 * (M * o)
      BY <3>1, <3>2, <3>3
    <3>5. 16 * (m * x) = M * (16 * (c * x)) /\ 2 * (M * o) = M * (2 * o)
      BY <1>1
    <3>6. 16 * (c * x) \in Int /\ 2 * o \in Int /\ c * x \in Nat
      BY <1>1
    <3>7. M * (16 * (c * x)) <= M * (2 * o)
      BY <3>4, <3>5
    <3>8. 16 * (c * x) <= 2 * o
      BY <1>1, <3>6, <3>7, Cancelled
    <3> QED
      BY <1>1, <3>6, <3>8
  <2> QED
    BY <2>1, <2>2
<1> DEFINE cr == c * r
           rm == rows * M
<1>25. 200 * (o * cr) <= 200 * (o * rm) + 100 * (c * o) + 50 * o
  <2> DEFINE ct == c * t
             cs == c * s
             cpm == c * (pct * M)
             mq == m * q
             mp == m * p
             ro == o * rm
             co == c * o
             ocr == o * cr
             e1 == m * u
             e2 == m * v
             e3 == c * w
             e4 == c * x
  <2>1. /\ ct \in Int /\ cs \in Int /\ cpm \in Int /\ mq \in Int /\ mp \in Int
        /\ ro \in Int /\ co \in Int /\ ocr \in Int
    BY <1>1, <1>7, <1>11, <1>12, <1>15, <1>17, <1>18
  <2>2. 2 * ocr <= 2 * ct + co
    <3>1. c * (2 * (o * r)) <= c * (2 * t + o)
      <4>1. 2 * (o * r) \in Int /\ 2 * t + o \in Int
        BY <1>1, <1>17, <1>18
      <4> QED
        BY <1>18, <4>1, Scaled
    <3>2. c * (2 * (o * r)) = 2 * ocr /\ c * (2 * t + o) = 2 * ct + co
      BY <1>1, <1>17, <1>18
    <3> QED
      BY <3>1, <3>2
  <2>3. 200 * ct <= 2 * cs + 100 * e4
    <3>1. c * (2 * (100 * t)) <= c * (2 * s + 100 * x)
      <4>1. 2 * (100 * t) \in Int /\ 2 * s + 100 * x \in Int
        BY <1>15, <1>17
      <4> QED
        BY <1>16, <4>1, Scaled
    <3>2. c * (2 * (100 * t)) = 200 * ct /\ c * (2 * s + 100 * x) = 2 * cs + 100 * e4
      BY <1>15, <1>17
    <3> QED
      BY <3>1, <3>2
  <2>4. 2 * cs <= 2 * cpm + e3
    <3>1. c * (2 * s) <= c * (2 * (pct * M) + w)
      <4>1. 2 * s \in Int /\ 2 * (pct * M) + w \in Int
        BY <1>13, <1>15
      <4> QED
        BY <1>14, <4>1, Scaled
    <3>2. c * (2 * s) = 2 * cs /\ c * (2 * (pct * M) + w) = 2 * cpm + e3
      BY <1>13, <1>15
    <3> QED
      BY <3>1, <3>2
  <2>5. cpm <= mq
    <3>1. m * pct <= m * q
      <4> HIDE DEF m
      <4> QED
        BY <1>11, <1>12, <1>19, Scaled
    <3>2. m * pct = cpm
      BY <1>1, <1>12
    <3> QED
      BY <3>1, <3>2
  <2>6. 2 * mq <= 200 * mp + e2
    <3> HIDE DEF m
    <3>1. m * (2 * q) <= m * (2 * (p * 100) + v)
      <4>1. 2 * q \in Int /\ 2 * (p * 100) + v \in Int
        BY <1>7, <1>11
      <4> QED
        BY <1>10, <1>19, <4>1, Scaled
    <3>2. m * (2 * q) = 2 * mq /\ m * (2 * (p * 100) + v) = 200 * mp + e2
      BY <1>7, <1>11, <1>19
    <3> QED
      BY <3>1, <3>2
  <2>7. 2 * mp <= 2 * ro + e1
    <3>1. M * (2 * (c * p)) <= M * (2 * (rows * o) + c * u)
      <4>1. 2 * (c * p) \in Int /\ 2 * (rows * o) + c * u \in Int
        BY <1>1, <1>7
      <4> QED
        BY <1>1, <1>8, <4>1, Scaled
    <3>2. M * (2 * (c * p)) = 2 * mp /\ M * (2 * (rows * o) + c * u) = 2 * ro + e1
      BY <1>1, <1>7
    <3> QED
      BY <3>1, <3>2
  <2>8. /\ e1 \in Nat /\ e2 \in Nat /\ e3 \in Nat /\ e4 \in Nat
        /\ 8 * e1 <= o /\ 8 * e2 <= 100 * o /\ 8 * e3 <= 100 * o /\ 8 * e4 <= o
    BY <1>21, <1>22, <1>23, <1>24
  <2> HIDE DEF ct, cs, cpm, mq, mp, ro, co, ocr, e1, e2, e3, e4
  <2>9. 200 * ocr <= 200 * ro + 100 * co + 50 * o
    BY <1>1, <2>1, <2>2, <2>3, <2>4, <2>5, <2>6, <2>7, <2>8
  <2> QED
    BY <2>9 DEF ocr, ro, co
<1>26. cr \in Int /\ rm \in Int /\ 2 * cr <= 2 * rm + c
  <2>1. cr \in Int /\ rm \in Int
    BY <1>1, <1>18
  <2> HIDE DEF cr, rm
  <2>2. ASSUME 2 * rm + c + 1 <= 2 * cr PROVE FALSE
    <3>1. o * (2 * rm + c + 1) <= o * (2 * cr)
      <4>1. 2 * rm + c + 1 \in Int /\ 2 * cr \in Int
        BY <2>1
      <4> QED
        BY <1>1, <2>2, <4>1, Scaled
    <3>2. /\ o * (2 * rm + c + 1) = 2 * (o * rm) + c * o + o /\ o * (2 * cr) = 2 * (o * cr)
          /\ o * rm \in Int /\ c * o \in Int /\ o * cr \in Int
      BY <1>1, <2>1
    <3> QED
      BY <1>1, <1>25, <3>1, <3>2
  <2> QED
    BY <2>1, <2>2
<1> QED
  BY <1>4, <1>18, <1>26 DEF pct, M

(* Neither side keeps more of its rows than asked for, but for half a bucket; *)
(* c is the larger count, d either one.                                     *)
LEMMA ShareOfCount ==
  ASSUME NEW rows \in Nat, NEW c \in Nat \ {0}, NEW d \in Nat, d <= c, NEW kept \in Nat,
         kept >= 1 => 2 * (c * kept) <= 2 * (rows * SampleModulus) + c
  PROVE  2 * kept * d <= 2 * rows * SampleModulus + d
<1> DEFINE a == rows * SampleModulus
<1>1. a \in Nat /\ 2 * rows * SampleModulus = 2 * a
  BY SampleAssumption
<1>2. CASE kept = 0
  <2>1. 2 * kept * d = 0
    BY <1>2
  <2> HIDE DEF a
  <2> QED
    BY <1>1, <2>1
<1>3. CASE kept >= 1
  <2> DEFINE k == 2 * kept - 1
  <2>1. k \in Nat
    BY <1>3
  <2>2. k * d <= k * c
    <3> HIDE DEF k
    <3> QED
      BY <2>1, Scaled
  <2>3. k * c = 2 * (c * kept) - c /\ k * d + d = 2 * kept * d
    OBVIOUS
  <2>4. k * d \in Int /\ k * c \in Int /\ c * kept \in Int
    BY <2>1
  <2>5. 2 * (c * kept) <= 2 * a + c
    BY <1>3
  <2>6. 2 * kept * d \in Int
    OBVIOUS
  <2> HIDE DEF a, k
  <2> QED
    BY <1>1, <2>2, <2>3, <2>4, <2>5, <2>6
<1> QED
  BY <1>2, <1>3

(* --sample-rows keeps every row when as many are asked for as there are,   *)
(* and otherwise no more of either table than was asked for, but for half a *)
(* bucket: for any request and modulus, and tables of any size that a float *)
(* divides closely enough.                                                  *)
THEOREM Sampled == Spec => []SampleAsAsked
<1>1. CallInv => SampleAsAsked
  <2> DEFINE rows == call.rows
             source == call.source
             target == call.target
             c == Greater(source, target)
             f == SampleRows(rows, source, target)
             kept == Cardinality(result[1])
  <2> SUFFICES ASSUME CallInv, Returned, call.op = "sample"
               PROVE  IF rows >= c THEN kept = SampleModulus
                      ELSE 16 * SampleModulus * c <= Lesser(FloatLimit, FloatOne) =>
                             \A count \in {source, target} :
                               2 * kept * count <= 2 * Greater(rows, 0) * SampleModulus + count
    BY DEF SampleAsAsked
  <2>1. call \in SampleCalls
    BY CallOfOp DEF CallInv
  <2>2. rows \in Int /\ source \in Nat /\ target \in Nat
    BY <2>1 DEF SampleCalls
  <2>3. kept = Cardinality(KeptBuckets(f))
    BY DEF CallInv, Computed, Returns
  <2> HIDE DEF rows, source, target
  <2>4. c \in Nat /\ source <= c /\ target <= c
    BY <2>2 DEF Greater
  <2> HIDE DEF kept
  <2>5. CASE c = 0 \/ rows >= c
    <3>1. f = 100 * FloatOne
      <4>1. CASE c = 0
        BY <4>1 DEF SampleRows
      <4>2. CASE c # 0
        <5> HIDE DEF c
        <5>1. c \in Nat \ {0} /\ rows >= c
          BY <2>4, <2>5, <4>2
        <5>2. f = Percentage(rows, c)
          BY <4>2 DEF SampleRows, c
        <5> QED
          BY <2>2, <5>1, <5>2, WholeTable
      <4> QED
        BY <4>1, <4>2
    <3> HIDE DEF f
    <3>2. Share(f) = SampleModulus /\ SampleModulus \in Int
      BY <3>1, WholeShare, SampleAssumption
    <3>3. kept = SampleModulus
      BY <2>3, <3>2, KeptCount
    <3>4. CASE rows >= c
      BY <3>3, <3>4
    <3>5. CASE ~(rows >= c)
      <4>1. source = 0 /\ target = 0 /\ rows < 0
        BY <2>2, <2>4, <2>5, <3>5
      <4>2. Greater(rows, 0) = 0
        BY <2>2, <4>1 DEF Greater
      <4> HIDE DEF c
      <4>3. 2 * kept * 0 <= 2 * Greater(rows, 0) * SampleModulus + 0
        BY <3>3, <4>2, SampleAssumption
      <4> QED
        BY <3>5, <4>1, <4>3
    <3> QED
      BY <3>4, <3>5
  <2>6. CASE ~(c = 0 \/ rows >= c)
    <3> HIDE DEF c
    <3>1. f = Percentage(rows, c) /\ c \in Nat \ {0} /\ rows < c
      BY <2>2, <2>4, <2>6 DEF SampleRows, c
    <3> HIDE DEF f
    <3> SUFFICES ASSUME 16 * SampleModulus * c <= Lesser(FloatLimit, FloatOne),
                        NEW d \in {source, target}
                 PROVE  2 * kept * d <= 2 * Greater(rows, 0) * SampleModulus + d
      BY <2>6
    <3>2. d \in Nat /\ d <= c
      BY <2>2, <2>4
    <3>3. CASE rows < 0
      <4>1. Share(f) \in Int /\ Share(f) <= 0
        BY <2>2, <3>1, <3>3, NoShare
      <4>2. kept \in 0..SampleModulus /\ ~(kept >= 1)
        BY <2>3, <4>1, KeptCount, SampleAssumption
      <4>3. kept = 0 /\ Greater(rows, 0) = 0
        BY <2>2, <3>3, <4>2, SampleAssumption DEF Greater
      <4>4. 2 * 0 * d = 0 /\ 2 * 0 * SampleModulus = 0
        BY <3>2, SampleAssumption
      <4> QED
        BY <3>2, <4>3, <4>4
    <3>4. CASE rows >= 0
      <4>1. rows \in Nat /\ rows <= c /\ Greater(rows, 0) = rows
        BY <2>2, <3>1, <3>4 DEF Greater
      <4>2. Share(f) \in Int /\ 2 * (c * Share(f)) <= 2 * (rows * SampleModulus) + c
        BY <3>1, <4>1, ShareNear
      <4>3. kept \in Nat /\ (kept >= 1 => kept <= Share(f))
        BY <2>3, <4>2, KeptCount, SampleAssumption
      <4>4. kept >= 1 => 2 * (c * kept) <= 2 * (rows * SampleModulus) + c
        <5> DEFINE y == Share(f)
        <5> HIDE DEF y
        <5>1. /\ y \in Int /\ 2 * (c * y) <= 2 * (rows * SampleModulus) + c
              /\ kept >= 1 => kept <= y
          BY <4>2, <4>3 DEF y
        <5>2. kept >= 1 => c * kept <= c * y
          BY <3>1, <4>3, <5>1, Scaled
        <5>3. c * kept \in Int /\ c * y \in Int /\ rows * SampleModulus \in Int
          BY <3>1, <4>1, <4>3, <5>1, SampleAssumption
        <5> QED
          BY <3>1, <5>1, <5>2, <5>3
      <4>5. 2 * kept * d <= 2 * rows * SampleModulus + d
        BY <3>1, <3>2, <4>1, <4>3, <4>4, ShareOfCount
      <4> QED
        BY <4>1, <4>5
    <3> QED
      BY <2>2, <3>3, <3>4
  <2> QED
    BY <2>5, <2>6
<1> QED
  BY <1>1, EachCall, PTL

-------------------------------------------------------------------------------
(* Hashes.  A number is built up from its bytes one at a time.              *)
LEMMA BigEndianSteps ==
  ASSUME NEW n \in Nat, NEW b \in [1..n -> Int]
  PROVE  \E f \in [0..n -> Int] :
           /\ f[0] = 0 /\ \A i \in 1..n : f[i] = f[i - 1] * Radix + b[i]
           /\ BigEndian(b) = f[n]
<1>1. Len(b) = n /\ Radix \in Int
  BY HashAssumption
<1> DEFINE Eq(f) == f = [i \in 0..n |-> IF i = 0 THEN 0 ELSE f[i - 1] * Radix + b[i]]
           value == CHOOSE f : Eq(f)
<1>2. \E f : Eq(f)
  <2>1. PICK f \in [0..n -> Int] :
               f[0] = 0 /\ \A i \in 1..n : f[i] = f[i - 1] * Radix + b[i]
    BY <1>1, Accumulates
  <2>2. Eq(f)
    BY <2>1
  <2> QED
    BY <2>2
<1>3. Eq(value)
  <2> HIDE DEF Eq
  <2> QED
    BY <1>2
<1>4. BigEndian(b) = value[n]
  BY <1>1 DEF BigEndian
<1> HIDE DEF value
<1>5. /\ DOMAIN value = 0..n /\ value[0] = 0
      /\ \A i \in 1..n : value[i] = value[i - 1] * Radix + b[i]
  BY <1>3
<1>6. value \in [0..n -> Int]
  <2> DEFINE S == { i \in 1..n : value[i] \in Int }
  <2>1. n > 0 => 1 \in S
    BY <1>1, <1>5
  <2>2. ASSUME NEW i \in 1..n, i \in S, i < n PROVE i + 1 \in S
    <3>1. i + 1 \in 1..n /\ value[i + 1] = value[i] * Radix + b[i + 1]
      BY <1>5, <2>2
    <3> QED
      BY <1>1, <2>2, <3>1
  <2> HIDE DEF S
  <2>3. 1..n \subseteq S
    BY <2>1, <2>2, UpTo
  <2>4. \A i \in 0..n : value[i] \in Int
    BY <1>5, <2>3 DEF S
  <2>5. value = [i \in 0..n |-> value[i]]
    BY <1>3
  <2> QED
    BY <2>4, <2>5
<1> QED
  BY <1>4, <1>5, <1>6

LEMMA ModUnique ==
  ASSUME NEW d \in Nat \ {0}, NEW q \in Int, NEW r \in 0..(d - 1), NEW a \in Int,
         a = d * q + r
  PROVE  a % d = r
<1> DEFINE p == a \div d
           s == a % d
<1>1. p \in Int /\ s \in 0..(d - 1) /\ a = d * p + s
  BY DivMod
<1> HIDE DEF p, s
<1>2. ASSUME p < q PROVE FALSE
  <2>1. d * (p + 1) <= d * q /\ d * (p + 1) = d * p + d
    BY <1>1, <1>2, Scaled
  <2> QED
    BY <1>1, <2>1
<1>3. ASSUME q < p PROVE FALSE
  <2>1. d * (q + 1) <= d * p /\ d * (q + 1) = d * q + d
    BY <1>1, <1>3, Scaled
  <2> QED
    BY <1>1, <2>1
<1>4. p = q
  BY <1>1, <1>2, <1>3
<1> QED
  BY <1>1, <1>4 DEF s

LEMMA ModShift ==
  ASSUME NEW d \in Nat \ {0}, NEW a \in Int, NEW k \in Int
  PROVE  (a + d * k) % d = a % d
<1> DEFINE p == a \div d
           s == a % d
           b == a + d * k
<1>1. p \in Int /\ s \in 0..(d - 1) /\ a = d * p + s
  BY DivMod
<1> HIDE DEF p, s
<1>2. b \in Int /\ p + k \in Int /\ b = d * (p + k) + s
  BY <1>1
<1> HIDE DEF b
<1>3. b % d = s
  BY <1>1, <1>2, ModUnique
<1> QED
  BY <1>3 DEF b, s

(* (n % m + m) % m is n modulo m whatever the sign of n. *)
LEMMA FoldedIsMod ==
  ASSUME NEW a \in Int, NEW d \in Nat \ {0}
  PROVE  Folded(a, d) = a % d /\ a % d \in 0..(d - 1)
<1>1. a % d \in 0..(d - 1)
  BY DivMod
<1> DEFINE r == SqlMod(a, d)
<1>2. \E k \in Int : r + d = a + d * k /\ r + d >= 0 /\ r \in Int
  <2>1. CASE a >= 0
    <3> DEFINE q == a \div d
               s == a % d
    <3>1. q \in Int /\ s \in 0..(d - 1) /\ a = d * q + s
      BY DivMod
    <3>2. r = s
      BY <2>1 DEF SqlMod
    <3>3. d * (1 - q) = d - d * q /\ d * q \in Int
      BY <3>1
    <3> HIDE DEF q, s, r
    <3>4. r + d = a + d * (1 - q) /\ r + d >= 0 /\ r \in Int /\ 1 - q \in Int
      BY <3>1, <3>2, <3>3
    <3> QED
      BY <3>4
  <2>2. CASE ~(a >= 0)
    <3> DEFINE q == (-a) \div d
               s == (-a) % d
    <3>1. q \in Int /\ s \in 0..(d - 1) /\ -a = d * q + s
      <4>1. -a \in Int
        OBVIOUS
      <4> QED
        BY <4>1, DivMod
    <3>2. r = -s
      BY <2>2 DEF SqlMod
    <3>3. d * (1 + q) = d + d * q /\ d * q \in Int
      BY <3>1
    <3> HIDE DEF q, s, r
    <3>4. r + d = a + d * (1 + q) /\ r + d >= 0 /\ r \in Int /\ 1 + q \in Int
      BY <3>1, <3>2, <3>3
    <3> QED
      BY <3>4
  <2> QED
    BY <2>1, <2>2
<1>3. Folded(a, d) = (r + d) % d
  <2>1. Folded(a, d) = SqlMod(r + d, d)
    BY DEF Folded
  <2> HIDE DEF r
  <2> QED
    BY <1>2, <2>1 DEF SqlMod
<1> HIDE DEF r
<1>4. PICK k \in Int : r + d = a + d * k
  BY <1>2
<1>5. (a + d * k) % d = a % d
  BY ModShift
<1> QED
  BY <1>1, <1>3, <1>4, <1>5

(* A digest is a number below Width, and Width is even.                     *)
LEMMA WidthAndDigests ==
  /\ Width \in Nat \ {0} /\ Width = 2 * (Width \div 2) /\ Width \div 2 \in Nat
  /\ \A d \in Digest : BigEndian(d) \in 0..(Width - 1)
<1> DEFINE n == NumBytes
           top == [i \in 1..n |-> Radix - 1]
<1>1. n \in Nat \ {0} /\ Radix \in Nat \ {0} /\ Radix % 2 = 0
  BY HashAssumption
<1>2. top \in [1..n -> Int]
  BY <1>1
<1>3. PICK w \in [0..n -> Int] :
             /\ w[0] = 0 /\ \A i \in 1..n : w[i] = w[i - 1] * Radix + top[i]
             /\ BigEndian(top) = w[n]
  <2> HIDE DEF top
  <2> QED
    BY <1>1, <1>2, BigEndianSteps
<1>4. Width = w[n] + 1
  BY <1>3 DEF Width
<1>5. \A i \in 1..n : top[i] = Radix - 1
  OBVIOUS
<1> HIDE DEF n, top
<1>6. \A i \in 0..n : w[i] \in Int
  BY <1>3
<1>7. 1..n \subseteq { i \in 1..n : w[i] >= 0 }
  <2> DEFINE S == { i \in 1..n : w[i] >= 0 }
  <2>1. n > 0 => 1 \in S
    <3>1. 1 \in 1..n /\ w[1] = w[0] * Radix + top[1]
      BY <1>1, <1>3
    <3> QED
      BY <1>1, <1>3, <1>5, <3>1
  <2>2. ASSUME NEW i \in 1..n, i \in S, i < n PROVE i + 1 \in S
    <3>1. i + 1 \in 1..n /\ w[i + 1] = w[i] * Radix + top[i + 1]
      BY <1>1, <1>3, <2>2
    <3>2. w[i] \in Nat /\ w[i] * Radix \in Nat
      BY <1>1, <1>6, <2>2
    <3> QED
      BY <1>1, <1>5, <3>1, <3>2
  <2> HIDE DEF S
  <2>3. 1..n \subseteq S
    BY <1>1, <2>1, <2>2, UpTo
  <2> QED
    BY <2>3 DEF S
<1>8. w[n] \in Nat
  BY <1>1, <1>6, <1>7
<1>9. Width = 2 * (Width \div 2) /\ Width \div 2 \in Nat
  <2>1. n \in 1..n /\ w[n] = w[n - 1] * Radix + top[n] /\ top[n] = Radix - 1
    BY <1>1, <1>3, <1>5
  <2>2. w[n - 1] \in Int
    BY <1>1, <1>6
  <2> DEFINE h == Radix \div 2
             u == w[n - 1] + 1
  <2>3. h \in Int /\ Radix = 2 * h
    BY <1>1
  <2>4. Width = u * Radix /\ u \in Int
    BY <1>1, <1>4, <2>1, <2>2, SMTT(40)
  <2> HIDE DEF h, u
  <2>5. u * Radix = 2 * (u * h) /\ u * h \in Int
    BY <2>3, <2>4
  <2> DEFINE v == u * h
  <2>6. Width = 2 * v /\ v \in Int
    BY <2>4, <2>5
  <2> HIDE DEF v
  <2> QED
    BY <1>4, <1>8, <2>6
<1>10. ASSUME NEW d \in Digest PROVE BigEndian(d) \in 0..(Width - 1)
  <2>1. d \in [1..n -> Int] /\ \A i \in 1..n : d[i] \in 0..(Radix - 1)
    BY <1>1 DEF Digest, Byte, n
  <2>2. PICK v \in [0..n -> Int] :
               /\ v[0] = 0 /\ \A i \in 1..n : v[i] = v[i - 1] * Radix + d[i]
               /\ BigEndian(d) = v[n]
    BY <1>1, <2>1, BigEndianSteps
  <2> DEFINE S == { i \in 1..n : 0 <= v[i] /\ v[i] <= w[i] }
  <2>3. \A i \in 0..n : v[i] \in Int
    BY <2>2
  <2>4. n > 0 => 1 \in S
    <3>1. /\ 1 \in 1..n /\ w[1] = w[0] * Radix + top[1] /\ v[1] = v[0] * Radix + d[1]
          /\ 0 * Radix = 0
      BY <1>1, <1>3, <2>2
    <3> QED
      BY <1>1, <1>3, <1>5, <2>1, <2>2, <3>1
  <2>5. ASSUME NEW i \in 1..n, i \in S, i < n PROVE i + 1 \in S
    <3>1. /\ i + 1 \in 1..n
          /\ w[i + 1] = w[i] * Radix + top[i + 1] /\ v[i + 1] = v[i] * Radix + d[i + 1]
      <4>1. i + 1 \in 1..n /\ (i + 1) - 1 = i
        BY <1>1, <2>5
      <4>2. w[i + 1] = w[(i + 1) - 1] * Radix + top[i + 1]
        BY <1>3, <4>1
      <4>3. v[i + 1] = v[(i + 1) - 1] * Radix + d[i + 1]
        BY <2>2, <4>1
      <4> QED
        BY <4>1, <4>2, <4>3
    <3>2. v[i] \in Int /\ w[i] \in Int /\ 0 <= v[i] /\ v[i] <= w[i]
      BY <1>6, <2>3, <2>5
    <3>3. /\ v[i] * Radix = Radix * v[i] /\ w[i] * Radix = Radix * w[i]
          /\ Radix * v[i] \in Nat /\ Radix * w[i] \in Int
      BY <1>1, <3>2
    <3>4. Radix * v[i] <= Radix * w[i]
      BY <1>1, <3>2, Scaled
    <3>5. top[i + 1] = Radix - 1 /\ d[i + 1] \in 0..(Radix - 1)
      BY <1>5, <2>1, <3>1
    <3>6. 0 <= v[i + 1] /\ v[i + 1] <= w[i + 1]
      <4> DEFINE x == Radix * v[i]
                 y == Radix * w[i]
      <4>1. /\ x \in Nat /\ y \in Int /\ x <= y
            /\ v[i + 1] = x + d[i + 1] /\ w[i + 1] = y + top[i + 1]
        BY <3>1, <3>3, <3>4
      <4> HIDE DEF x, y
      <4> QED
        BY <1>1, <3>5, <4>1
    <3> QED
      BY <3>1, <3>6
  <2> HIDE DEF S
  <2>6. 1..n \subseteq S
    BY <1>1, <2>4, <2>5, UpTo
  <2>7. 0 <= v[n] /\ v[n] <= w[n] /\ v[n] \in Int
    BY <1>1, <2>3, <2>6 DEF S
  <2> QED
    BY <1>4, <1>8, <2>2, <2>7
<1> QED
  BY <1>4, <1>8, <1>9, <1>10

(* Reading the number as signed takes Width off, or nothing.                *)
LEMMA Signed ==
  ASSUME NEW u \in 0..(Width - 1)
  PROVE  /\ AsSigned(u) \in Int
         /\ \E k \in Int : AsSigned(u) = u + Width * k
         /\ SqlMod(u + Width \div 2, Width) - Width \div 2 = AsSigned(u)
<1> DEFINE W == Width
           H == Width \div 2
<1>1. W \in Nat \ {0} /\ W = 2 * H /\ H \in Nat
  BY WidthAndDigests
<1>2. AsSigned(u) = IF u >= H THEN u - W ELSE u
  BY DEF AsSigned
<1>3. SqlMod(u + H, W) = (u + H) % W
  <2> HIDE DEF W, H
  <2> QED
    BY <1>1 DEF SqlMod, W
<1>4. u \in 0..(W - 1)
  OBVIOUS
<1> HIDE DEF W, H
<1>5. CASE u >= H
  <2>1. AsSigned(u) = u - W /\ u - W = u + W * (-1) /\ -1 \in Int
    BY <1>1, <1>2, <1>4, <1>5
  <2>2. (u + H) % W = u - H
    <3>1. u - H \in 0..(W - 1) /\ u + H = W * 1 + (u - H) /\ u + H \in Int
      BY <1>1, <1>4, <1>5
    <3> QED
      BY <1>1, <3>1, ModUnique, SMTT(40)
  <2>3. u - H - H = u - W /\ u - W \in Int
    BY <1>1, <1>4
  <2>4. \E k \in Int : AsSigned(u) = u + W * k
    BY <2>1
  <2>5. SqlMod(u + H, W) - H = AsSigned(u) /\ AsSigned(u) \in Int
    <3> DEFINE m == SqlMod(u + H, W)
    <3>1. m = (u + H) % W
      BY <1>3
    <3> HIDE DEF m
    <3> QED
      BY <1>1, <1>4, <2>1, <2>2, <2>3, <3>1 DEF m
  <2> QED
    BY <2>4, <2>5, Zenon DEF W, H
<1>6. CASE ~(u >= H)
  <2>1. AsSigned(u) = u /\ u = u + W * 0 /\ 0 \in Int
    BY <1>1, <1>2, <1>4, <1>6
  <2>2. (u + H) % W = u + H
    <3>1. u + H \in 0..(W - 1) /\ u + H = W * 0 + (u + H) /\ u + H \in Int
      BY <1>1, <1>4, <1>6
    <3> QED
      BY <1>1, <3>1, ModUnique
  <2>3. u + H - H = u /\ u \in Int
    BY <1>1, <1>4
  <2>4. \E k \in Int : AsSigned(u) = u + W * k
    BY <2>1
  <2>5. SqlMod(u + H, W) - H = AsSigned(u) /\ AsSigned(u) \in Int
    <3> DEFINE m == SqlMod(u + H, W)
    <3>1. m = (u + H) % W
      BY <1>3
    <3> HIDE DEF m
    <3> QED
      BY <1>1, <1>4, <2>1, <2>2, <2>3, <3>1 DEF m
  <2> QED
    BY <2>4, <2>5, Zenon DEF W, H
<1> QED
  BY <1>5, <1>6

(* The three engines' hashes of a row are one number.                       *)
LEMMA OneRowHash ==
  ASSUME NEW e \in Engine, NEW d \in Digest
  PROVE  RowHash(e, d) = AsSigned(BigEndian(d))
<1>1. BigEndian(d) \in 0..(Width - 1)
  BY WidthAndDigests
<1>2. Reverse(Reverse(d)) = d
  <2> DEFINE n == NumBytes
             r == [i \in 1..n |-> d[(n - i) + 1]]
             rr == [i \in 1..n |-> r[(n - i) + 1]]
  <2>1. n \in Nat /\ d \in [1..n -> Byte]
    BY HashAssumption DEF Digest
  <2> HIDE DEF n
  <2>2. Len(d) = n /\ Reverse(d) = r
    BY <2>1 DEF Reverse
  <2>3. Len(r) = n /\ Reverse(r) = rr
    BY <2>1 DEF Reverse
  <2>4. \A i \in 1..n : rr[i] = d[i]
    <3> TAKE i \in 1..n
    <3>1. (n - i) + 1 \in 1..n /\ (n - ((n - i) + 1)) + 1 = i
      BY <2>1
    <3> QED
      BY <3>1
  <2>5. rr = d
    BY <2>1, <2>4
  <2> QED
    BY <2>2, <2>3, <2>5
<1>3. ClickHouseHash(d) = AsSigned(BigEndian(d))
  BY <1>2 DEF ClickHouseHash, ReinterpretAsInt
<1>4. SnowflakeHash(d) = AsSigned(BigEndian(d))
  BY <1>1, Signed DEF SnowflakeHash
<1>5. PostgresHash(d) = AsSigned(BigEndian(d))
  BY DEF PostgresHash
<1> QED
  BY <1>3, <1>4, <1>5 DEF RowHash, Engine

(* The calls. *)
LEMMA DigestsOfCall ==
  ASSUME NEW c \in HashCalls
  PROVE  \E n \in Nat : c.digests \in [1..n -> Digest]
<1> DEFINE D == UNION { [1..m -> Digest] : m \in 0..MaxRows }
<1>1. c.digests \in D
  <2>1. c \in [op : {"hash"}, digests : D]
    BY DEF HashCalls
  <2> HIDE DEF D
  <2> QED
    BY <2>1
<1> QED
  BY <1>1

(* Three engines, of any radix and number of bytes, see one hash and one    *)
(* bucket for a row, and the bucket is one the threshold counts.            *)
THEOREM OneHash == Spec => []EnginesAgree
<1>1. CallInv => EnginesAgree
  <2> SUFFICES ASSUME CallInv, Returned, call.op = "hash", NEW e \in Engine, NEW f \in Engine
               PROVE  /\ result[e].rows = result[f].rows
                      /\ result[e].buckets = result[f].buckets
                      /\ \A i \in DOMAIN result[e].buckets :
                           result[e].buckets[i] \in 0..(SampleModulus - 1)
    BY DEF EnginesAgree
  <2> DEFINE digests == call.digests
             rows(g) == [i \in DOMAIN digests |-> RowHash(g, digests[i])]
             buckets(g) == [i \in DOMAIN digests |-> Bucket(g, digests[i])]
             of(g) == [rows |-> rows(g), buckets |-> buckets(g),
                       aggregate |-> AggregateHash(g, digests)]
  <2>1. result = [g \in Engine |-> of(g)]
    BY DEF CallInv, Computed, Returns
  <2>2. \A g \in Engine : result[g].rows = rows(g) /\ result[g].buckets = buckets(g)
    <3> HIDE DEF rows, buckets
    <3> QED
      BY <2>1
  <2>3. \A i \in DOMAIN digests : digests[i] \in Digest
    <3>1. call \in HashCalls
      BY CallOfOp DEF CallInv
    <3> QED
      BY <3>1, DigestsOfCall
  <2>4. ASSUME NEW i \in DOMAIN digests
        PROVE  /\ RowHash(e, digests[i]) = RowHash(f, digests[i])
               /\ Bucket(e, digests[i]) = Bucket(f, digests[i])
               /\ Bucket(e, digests[i]) \in 0..(SampleModulus - 1)
    <3> DEFINE d == digests[i]
    <3>1. d \in Digest
      BY <2>3
    <3> HIDE DEF d
    <3>2. RowHash(e, d) = RowHash(f, d) /\ RowHash(e, d) \in Int
      BY <3>1, OneRowHash, WidthAndDigests, Signed
    <3>3. Bucket(e, d) = Folded(RowHash(e, d), SampleModulus)
      BY DEF Bucket
    <3>4. Bucket(f, d) = Folded(RowHash(f, d), SampleModulus)
      BY DEF Bucket
    <3>5. Bucket(e, d) \in 0..(SampleModulus - 1)
      BY <3>2, <3>3, FoldedIsMod, SampleAssumption
    <3> QED
      BY <3>2, <3>3, <3>4, <3>5 DEF d
  <2>5. rows(e) = rows(f) /\ buckets(e) = buckets(f)
    BY <2>4
  <2>6. \A i \in DOMAIN buckets(e) : buckets(e)[i] \in 0..(SampleModulus - 1)
    BY <2>4
  <2> HIDE DEF rows, buckets
  <2> QED
    BY <2>2, <2>5, <2>6
<1> QED
  BY <1>1, EachCall, PTL

(* s is the running total of h. *)
RunningTotal(s, h, n) ==
  /\ \A i \in 0..n : s[i] \in Int
  /\ s[0] = 0 /\ \A i \in 1..n : s[i] = s[i - 1] + h[i]

TermsCongruent(g, h, n, d) == \A i \in 1..n : \E k \in Int : g[i] = h[i] + d * k

LEMMA AggregateSteps ==
  ASSUME NEW n \in Nat, NEW h \in [1..n -> Int]
  PROVE  LET sum[i \in 0..n] == IF i = 0 THEN 0 ELSE sum[i - 1] + h[i]
         IN  RunningTotal(sum, h, n)
<1> DEFINE Eq(f) == f = [i \in 0..n |-> IF i = 0 THEN 0 ELSE f[i - 1] + h[i]]
           sum[i \in 0..n] == IF i = 0 THEN 0 ELSE sum[i - 1] + h[i]
<1>1. \E f : Eq(f)
  <2>1. PICK f \in [0..n -> Int] : f[0] = 0 /\ \A i \in 1..n : f[i] = f[i - 1] * 1 + h[i]
    <3>1. 1 \in Int
      OBVIOUS
    <3> QED
      BY <3>1, Accumulates
  <2>2. \A i \in 1..n : f[i] = f[i - 1] + h[i]
    <3> TAKE i \in 1..n
    <3>1. f[i - 1] \in Int /\ f[i] = f[i - 1] * 1 + h[i]
      BY <2>1
    <3> QED
      BY <3>1
  <2>3. Eq(f)
    BY <2>1, <2>2
  <2> QED
    BY <2>3
<1>2. sum = CHOOSE f : Eq(f)
  OBVIOUS
<1> HIDE DEF sum
<1>3. Eq(sum)
  <2> HIDE DEF Eq
  <2> QED
    BY <1>1, <1>2
<1>4. sum[0] = 0 /\ \A i \in 1..n : sum[i] = sum[i - 1] + h[i]
  BY <1>3
<1> HIDE DEF Eq
<1>5. \A i \in 0..n : sum[i] \in Int
  <2> DEFINE S == { i \in 1..n : sum[i] \in Int }
  <2>1. n > 0 => 1 \in S
    BY <1>4
  <2>2. ASSUME NEW i \in 1..n, i \in S, i < n PROVE i + 1 \in S
    <3>1. i + 1 \in 1..n /\ (i + 1) - 1 = i
      BY <2>2
    <3>2. sum[i + 1] = sum[(i + 1) - 1] + h[i + 1]
      BY <1>4, <3>1
    <3> QED
      BY <2>2, <3>1, <3>2
  <2> HIDE DEF S
  <2>3. 1..n \subseteq S
    BY <2>1, <2>2, UpTo
  <2> QED
    BY <1>4, <2>3 DEF S
<1> QED
  BY <1>4, <1>5 DEF sum, RunningTotal

(* Sums of terms that differ by multiples of d differ by a multiple of d.   *)
LEMMA SumsAgree ==
  ASSUME NEW d \in Nat \ {0}, NEW n \in Nat, NEW g \in [1..n -> Int], NEW h \in [1..n -> Int],
         TermsCongruent(g, h, n, d),
         NEW s, NEW t, RunningTotal(s, g, n), RunningTotal(t, h, n)
  PROVE  s[n] % d = t[n] % d
<1>0. /\ \A i \in 1..n : \E k \in Int : g[i] = h[i] + d * k
      /\ \A i \in 0..n : s[i] \in Int /\ t[i] \in Int
      /\ s[0] = t[0]
      /\ \A i \in 1..n : s[i] = s[i - 1] + g[i]
      /\ \A i \in 1..n : t[i] = t[i - 1] + h[i]
  BY DEF RunningTotal, TermsCongruent
<1> DEFINE S == { i \in 1..n : \E k \in Int : s[i] = t[i] + d * k }
<1>1. ASSUME NEW i \in 1..n, NEW k \in Int, s[i - 1] = t[i - 1] + d * k
      PROVE  i \in S
  <2>1. PICK m \in Int : g[i] = h[i] + d * m
    BY <1>0
  <2>2. /\ s[i] = s[i - 1] + g[i] /\ t[i] = t[i - 1] + h[i]
        /\ s[i - 1] \in Int /\ t[i - 1] \in Int /\ h[i] \in Int /\ t[i] \in Int
    <3>1. i - 1 \in 0..n /\ i \in 0..n
      OBVIOUS
    <3> QED
      BY <1>0, <3>1
  <2>3. d * k \in Int /\ d * m \in Int /\ d * (k + m) = d * k + d * m /\ k + m \in Int
    OBVIOUS
  <2>4. s[i] = t[i] + d * (k + m)
    <3> DEFINE x == d * k
               y == d * m
               z == d * (k + m)
    <3>1. s[i] = (t[i - 1] + x) + (h[i] + y) /\ z = x + y /\ x \in Int /\ y \in Int
      BY <1>1, <2>1, <2>2, <2>3
    <3>2. t[i - 1] \in Int
      <4>1. i - 1 \in 0..n
        OBVIOUS
      <4> QED
        BY <1>0, <4>1
    <3> HIDE DEF x, y, z
    <3>3. s[i] = t[i] + z
      BY <2>2, <3>1, <3>2
    <3> QED
      BY <3>3 DEF z
  <2> QED
    BY <2>3, <2>4
<1>2. n > 0 => 1 \in S
  <2> SUFFICES ASSUME n > 0 PROVE 1 \in S
    OBVIOUS
  <2>1. 1 \in 1..n /\ 0 \in Int /\ 0 \in 0..n /\ 1 - 1 = 0
    OBVIOUS
  <2>2. s[0] = t[0] + d * 0
    BY <1>0, <2>1
  <2> HIDE DEF S
  <2> QED
    BY <1>1, <2>1, <2>2
<1>3. ASSUME NEW i \in 1..n, i \in S, i < n PROVE i + 1 \in S
  <2>1. PICK k \in Int : s[i] = t[i] + d * k
    BY <1>3
  <2>2. i + 1 \in 1..n /\ (i + 1) - 1 = i
    BY <1>3
  <2> HIDE DEF S
  <2> QED
    BY <1>1, <2>1, <2>2
<1> HIDE DEF S
<1>4. 1..n \subseteq S
  BY <1>2, <1>3, UpTo
<1>5. CASE n = 0
  BY <1>0, <1>5
<1>6. CASE n # 0
  <2>1. n \in S /\ n \in 0..n
    BY <1>4, <1>6
  <2>2. PICK k \in Int : s[n] = t[n] + d * k
    BY <2>1 DEF S
  <2> QED
    BY <1>0, <2>1, <2>2, ModShift
<1> QED
  BY <1>5, <1>6

LEMMA AggregateOfDigests ==
  ASSUME NEW e \in Engine, NEW n \in Nat, NEW digests \in [1..n -> Digest]
  PROVE  LET total[i \in 0..n] ==
               IF i = 0 THEN 0 ELSE total[i - 1] + BigEndian(digests[i])
         IN  AggregateHash(e, digests) = total[n] % Width
<1> DEFINE g == [i \in 1..n |-> RowHash(e, digests[i])]
           h == [i \in 1..n |-> BigEndian(digests[i])]
           s[i \in 0..n] == IF i = 0 THEN 0 ELSE s[i - 1] + g[i]
           t[i \in 0..n] == IF i = 0 THEN 0 ELSE t[i - 1] + h[i]
           signed[i \in 0..n] == IF i = 0 THEN 0 ELSE signed[i - 1] + RowHash(e, digests[i])
           total[i \in 0..n] == IF i = 0 THEN 0 ELSE total[i - 1] + BigEndian(digests[i])
<1>1. ASSUME NEW i \in 1..n
      PROVE  /\ RowHash(e, digests[i]) \in Int /\ BigEndian(digests[i]) \in Int
             /\ \E k \in Int : RowHash(e, digests[i]) = BigEndian(digests[i]) + Width * k
  <2> DEFINE d == digests[i]
  <2>1. d \in Digest
    OBVIOUS
  <2> HIDE DEF d
  <2>2. BigEndian(d) \in 0..(Width - 1)
    BY <2>1, WidthAndDigests
  <2>3. RowHash(e, d) = AsSigned(BigEndian(d))
    BY <2>1, OneRowHash
  <2>4. AsSigned(BigEndian(d)) \in Int
        /\ \E k \in Int : AsSigned(BigEndian(d)) = BigEndian(d) + Width * k
    BY <2>2, Signed
  <2> QED
    <3>1. BigEndian(d) \in Int
      BY <2>2, WidthAndDigests
    <3> QED
      BY <2>3, <2>4, <3>1, Zenon DEF d
<1>2. g \in [1..n -> Int] /\ h \in [1..n -> Int] /\ TermsCongruent(g, h, n, Width)
  BY <1>1 DEF TermsCongruent
<1>3. total = t
  <2>1. \A f : [i \in 0..n |-> IF i = 0 THEN 0 ELSE f[i - 1] + BigEndian(digests[i])]
               = [i \in 0..n |-> IF i = 0 THEN 0 ELSE f[i - 1] + h[i]]
    OBVIOUS
  <2> HIDE DEF h
  <2> QED
    BY <2>1
<1>4. signed = s
  <2>1. \A f : [i \in 0..n |-> IF i = 0 THEN 0 ELSE f[i - 1] + RowHash(e, digests[i])]
               = [i \in 0..n |-> IF i = 0 THEN 0 ELSE f[i - 1] + g[i]]
    OBVIOUS
  <2> HIDE DEF g
  <2> QED
    BY <2>1
<1>5. AggregateHash(e, digests) = Folded(signed[n], Width)
  <2>1. Len(digests) = n
    OBVIOUS
  <2> QED
    BY <2>1 DEF AggregateHash
<1> HIDE DEF g, h, total, signed
<1>6. RunningTotal(s, g, n) /\ RunningTotal(t, h, n)
  BY <1>2, AggregateSteps
<1> HIDE DEF s, t
<1>7. Width \in Nat \ {0}
  BY WidthAndDigests
<1>8. s[n] % Width = t[n] % Width
  BY <1>2, <1>6, <1>7, SumsAgree, SMTT(60)
<1>9. Folded(s[n], Width) = s[n] % Width
  <2>1. s[n] \in Int
    BY <1>6 DEF RunningTotal
  <2> QED
    BY <1>7, <2>1, FoldedIsMod
<1> QED
  BY <1>3, <1>4, <1>5, <1>8, <1>9 DEF total

(* A segment's hash, of any number of rows and on any engine, is the sum of  *)
(* its rows' numbers modulo 2^64.                                           *)
THEOREM ModularSum == Spec => []AggregateIsModularSum
<1>1. CallInv => AggregateIsModularSum
  <2> DEFINE digests == call.digests
             len == Len(digests)
             total(n) == LET sum[i \in 0..n] ==
                               IF i = 0 THEN 0 ELSE sum[i - 1] + BigEndian(digests[i])
                         IN  sum[n]
  <2> SUFFICES ASSUME CallInv, Returned, call.op = "hash", NEW e \in Engine
               PROVE  result[e].aggregate = total(len) % Width
    BY DEF AggregateIsModularSum
  <2>1. PICK n \in Nat : digests \in [1..n -> Digest]
    <3>1. call \in HashCalls
      BY CallOfOp DEF CallInv
    <3> QED
      BY <3>1, DigestsOfCall
  <2>2. len = n
    BY <2>1
  <2>3. result[e].aggregate = AggregateHash(e, digests)
    <3> DEFINE rows(g) == [i \in DOMAIN digests |-> RowHash(g, digests[i])]
               buckets(g) == [i \in DOMAIN digests |-> Bucket(g, digests[i])]
    <3>1. result = [g \in Engine |-> [rows |-> rows(g), buckets |-> buckets(g),
                                      aggregate |-> AggregateHash(g, digests)]]
      BY DEF CallInv, Computed, Returns
    <3> HIDE DEF rows, buckets, digests
    <3> QED
      BY <3>1
  <2>4. AggregateHash(e, digests) = total(n) % Width
    <3> HIDE DEF digests
    <3> QED
      BY <2>1, AggregateOfDigests
  <2> QED
    BY <2>2, <2>3, <2>4
<1> QED
  BY <1>1, EachCall, PTL

-------------------------------------------------------------------------------
(* Rows.  What joins the texts of two columns can be told apart again, when *)
(* neither text of one row contains the separator: in the other row, too,   *)
(* it stands at that one place only.                                        *)
LEMMA JoinOfTwo ==
  ASSUME NEW S, Separator \in S, NEW row \in [1..2 -> Seq(S)]
  PROVE  RowText(row) = row[1] \o (<< Separator >> \o row[2])
<1> DEFINE texts == [k \in 1..2 |-> IF k = 1 THEN row[k] ELSE << Separator >> \o row[k]]
           Eq(f) == f = [i \in 1..2 |-> IF i = 1 THEN texts[i] ELSE f[i - 1] \o texts[i]]
           flatten == CHOOSE f : Eq(f)
<1>1. /\ Len(texts) = 2 /\ texts[1] = row[1] /\ texts[2] = << Separator >> \o row[2]
      /\ DOMAIN row = 1..2
  OBVIOUS
<1> HIDE DEF texts
<1>2. \E f : Eq(f)
  <2> DEFINE first == texts[1]
             both == texts[1] \o texts[2]
             g == [i \in 1..2 |-> IF i = 1 THEN first ELSE both]
  <2>1. g[1] = texts[1] /\ g[2] = texts[1] \o texts[2] /\ DOMAIN g = 1..2
    <3> HIDE DEF first, both
    <3>1. g[1] = first /\ g[2] = both /\ DOMAIN g = 1..2
      OBVIOUS
    <3> QED
      BY <3>1 DEF first, both
  <2>2. \A i \in 1..2 : g[i] = IF i = 1 THEN texts[i] ELSE g[i - 1] \o texts[i]
    <3> HIDE DEF g
    <3>1. 2 - 1 = 1 /\ 1..2 = {1, 2}
      OBVIOUS
    <3> QED
      BY <2>1, <3>1
  <2>3. g = [i \in 1..2 |-> IF i = 1 THEN texts[i] ELSE g[i - 1] \o texts[i]]
    BY <2>2
  <2> QED
    BY <2>3
<1>3. Eq(flatten)
  <2> HIDE DEF Eq
  <2> QED
    BY <1>2
<1>4. RowText(row) = flatten[2]
  <2>1. RowText(row) = FlattenSeq(texts)
    BY <1>1, Zenon DEF RowText, texts
  <2>2. FlattenSeq(texts) = flatten[2]
    BY <1>1 DEF FlattenSeq
  <2> QED
    BY <2>1, <2>2
<1> HIDE DEF flatten
<1>5. flatten[1] = texts[1] /\ flatten[2] = flatten[1] \o texts[2]
  <2>1. 1 \in 1..2 /\ 2 \in 1..2 /\ 2 - 1 = 1 /\ 2 # 1
    OBVIOUS
  <2> QED
    BY <1>3, <2>1
<1> QED
  BY <1>1, <1>4, <1>5

LEMMA SameSequence ==
  ASSUME NEW S, NEW s \in Seq(S), NEW t \in Seq(S), Len(s) = Len(t),
         \A i \in 1..Len(s) : s[i] = t[i]
  PROVE  s = t
BY SeqEqual

LEMMA Concatenated ==
  ASSUME NEW S, NEW s \in Seq(S), NEW t \in Seq(S)
  PROVE  /\ Len(s \o t) = Len(s) + Len(t)
         /\ \A i \in 1..(Len(s) + Len(t)) :
              /\ i <= Len(s) => (s \o t)[i] = s[i]
              /\ i > Len(s) => (s \o t)[i] = t[i - Len(s)]
OBVIOUS

LEMMA JoinedTexts ==
  ASSUME NEW S, NEW c \in S, NEW x \in Seq(S), NEW y \in Seq(S)
  PROVE  LET z == x \o (<< c >> \o y)
         IN  /\ Len(z) = Len(x) + 1 + Len(y)
             /\ \A i \in 1..Len(x) : z[i] = x[i]
             /\ z[Len(x) + 1] = c
             /\ \A i \in 1..Len(y) : z[Len(x) + 1 + i] = y[i]
<1> DEFINE v == << c >> \o y
<1>1. v \in Seq(S) /\ Len(v) = 1 + Len(y) /\ v[1] = c /\ \A i \in 1..Len(y) : v[1 + i] = y[i]
  OBVIOUS
<1> HIDE DEF v
<1>2. /\ Len(x \o v) = Len(x) + Len(v)
      /\ \A i \in 1..Len(x) : (x \o v)[i] = x[i]
      /\ \A i \in 1..Len(v) : (x \o v)[Len(x) + i] = v[i]
  <2>1. /\ Len(x \o v) = Len(x) + Len(v)
        /\ \A i \in 1..(Len(x) + Len(v)) :
             /\ i <= Len(x) => (x \o v)[i] = x[i]
             /\ i > Len(x) => (x \o v)[i] = v[i - Len(x)]
    <3>1. x \in Seq(S) /\ v \in Seq(S)
      BY <1>1
    <3> QED
      BY <3>1, Concatenated, ZenonT(60)
  <2>2. Len(x) \in Nat /\ Len(v) \in Nat
    BY <1>1
  <2>3. ASSUME NEW i \in 1..Len(x) PROVE (x \o v)[i] = x[i]
    BY <2>1, <2>2
  <2>4. ASSUME NEW i \in 1..Len(v) PROVE (x \o v)[Len(x) + i] = v[i]
    <3>1. /\ Len(x) + i \in 1..(Len(x) + Len(v)) /\ Len(x) + i > Len(x)
          /\ (Len(x) + i) - Len(x) = i
      BY <2>2
    <3> QED
      BY <2>1, <3>1
  <2> QED
    BY <2>1, <2>3, <2>4
<1>3. Len(x) \in Nat /\ Len(y) \in Nat /\ 1 \in 1..Len(v)
  BY <1>1
<1>4. ASSUME NEW i \in 1..Len(y) PROVE (x \o v)[Len(x) + 1 + i] = y[i]
  <2>1. 1 + i \in 1..Len(v) /\ Len(x) + (1 + i) = Len(x) + 1 + i
    BY <1>1, <1>3
  <2> QED
    BY <1>1, <1>2, <2>1
<1> QED
  BY <1>1, <1>2, <1>3, <1>4 DEF v

Lacks(s, c) == \A i \in 1..Len(s) : s[i] # c

LEMMA JoinApart ==
  ASSUME NEW S, NEW c \in S, NEW x \in Seq(S), NEW y \in Seq(S), NEW u \in Seq(S), NEW v \in Seq(S),
         Lacks(x, c), Lacks(y, c), x \o (<< c >> \o y) = u \o (<< c >> \o v)
  PROVE  x = u /\ y = v
<1> USE DEF Lacks
<1> DEFINE z == x \o (<< c >> \o y)
<1>1. /\ Len(z) = Len(x) + 1 + Len(y)
      /\ \A i \in 1..Len(x) : z[i] = x[i]
      /\ z[Len(x) + 1] = c
      /\ \A i \in 1..Len(y) : z[Len(x) + 1 + i] = y[i]
  BY JoinedTexts
<1>2. /\ Len(z) = Len(u) + 1 + Len(v)
      /\ \A i \in 1..Len(u) : z[i] = u[i]
      /\ z[Len(u) + 1] = c
      /\ \A i \in 1..Len(v) : z[Len(u) + 1 + i] = v[i]
  <2> DEFINE zz == u \o (<< c >> \o v)
  <2>1. /\ Len(zz) = Len(u) + 1 + Len(v)
        /\ \A i \in 1..Len(u) : zz[i] = u[i]
        /\ zz[Len(u) + 1] = c
        /\ \A i \in 1..Len(v) : zz[Len(u) + 1 + i] = v[i]
    BY JoinedTexts
  <2>2. z = zz
    OBVIOUS
  <2> HIDE DEF z, zz
  <2> QED
    BY <2>1, <2>2
<1> DEFINE lx == Len(x)
           ly == Len(y)
           lu == Len(u)
           lv == Len(v)
<1>3. lx \in Nat /\ ly \in Nat /\ lu \in Nat /\ lv \in Nat
  OBVIOUS
<1> HIDE DEF z, lx, ly, lu, lv
<1>4. ASSUME lu < lx PROVE FALSE
  <2>1. lu + 1 \in 1..lx
    BY <1>3, <1>4
  <2>2. z[lu + 1] = x[lu + 1] /\ z[lu + 1] = c
    BY <1>1, <1>2, <2>1 DEF lx, lu
  <2> QED
    BY <2>1, <2>2 DEF lx
<1>5. ASSUME lx < lu PROVE FALSE
  <2> DEFINE i == lu - lx
  <2>1. i \in 1..ly /\ lx + 1 + i = lu + 1
    BY <1>1, <1>2, <1>3, <1>5 DEF lx, ly, lu, lv
  <2>2. z[lx + 1 + i] = y[i] /\ z[lu + 1] = c
    BY <1>1, <1>2, <2>1 DEF lx, ly, lu
  <2> QED
    BY <2>1, <2>2 DEF ly
<1>6. lx = lu /\ ly = lv
  BY <1>1, <1>2, <1>3, <1>4, <1>5 DEF lx, ly, lu, lv
<1>7. \A i \in 1..lx : x[i] = u[i]
  BY <1>1, <1>2, <1>6 DEF lx, lu
<1>8. \A i \in 1..ly : y[i] = v[i]
  BY <1>1, <1>2, <1>6 DEF lx, lu, ly, lv
<1>9. x = u
  BY <1>6, <1>7, SameSequence DEF lx, lu
<1>10. y = v
  BY <1>6, <1>8, SameSequence DEF ly, lv
<1> QED
  BY <1>9, <1>10

LEMMA RowsOfTwoApart ==
  ASSUME NEW S, Separator \in S, NEW row \in [1..2 -> Seq(S)], NEW other \in [1..2 -> Seq(S)],
         RowText(row) = RowText(other),
         \A k \in 1..2 : Separator \notin { row[k][i] : i \in DOMAIN row[k] }
  PROVE  row = other
<1>1. row[1] \o (<< Separator >> \o row[2]) = other[1] \o (<< Separator >> \o other[2])
  <2>1. RowText(row) = row[1] \o (<< Separator >> \o row[2])
    BY JoinOfTwo
  <2>2. RowText(other) = other[1] \o (<< Separator >> \o other[2])
    BY JoinOfTwo
  <2> QED
    BY <2>1, <2>2
<1>2. row[1] \in Seq(S) /\ row[2] \in Seq(S) /\ other[1] \in Seq(S) /\ other[2] \in Seq(S)
  OBVIOUS
<1>3. ASSUME NEW k \in 1..2, NEW i \in 1..Len(row[k]) PROVE row[k][i] # Separator
  <2>1. row[k] \in Seq(S)
    OBVIOUS
  <2>2. i \in DOMAIN row[k]
    BY <2>1
  <2> QED
    BY <2>2
<1>4. Lacks(row[1], Separator) /\ Lacks(row[2], Separator)
  BY <1>3 DEF Lacks
<1>5. row[1] = other[1] /\ row[2] = other[2]
  <2> DEFINE x == row[1]
             y == row[2]
             u == other[1]
             v == other[2]
  <2>1. x \in Seq(S) /\ y \in Seq(S) /\ u \in Seq(S) /\ v \in Seq(S)
    BY <1>2
  <2>2. x \o (<< Separator >> \o y) = u \o (<< Separator >> \o v)
    BY <1>1
  <2>3. Lacks(x, Separator) /\ Lacks(y, Separator)
    BY <1>4
  <2> HIDE DEF x, y, u, v
  <2>4. x = u /\ y = v
    BY <2>1, <2>2, <2>3, JoinApart, Zenon
  <2> QED
    BY <2>4 DEF x, y, u, v
<1>6. row = other
  BY <1>5
<1> QED
  BY <1>6

(* Two rows with different texts, of any length, are joined to different    *)
(* strings unless one contains the separator.                               *)
THEOREM RowsToldApart == Spec => []RowsApart
<1> DEFINE S == {"a", Separator}
<1>1. RowTexts \subseteq [1..2 -> Seq(S)]
  <2>1. UNION { [1..m -> S] : m \in 0..MaxText } \subseteq Seq(S)
    <3> SUFFICES ASSUME NEW m \in 0..MaxText, NEW s \in [1..m -> S] PROVE s \in Seq(S)
      OBVIOUS
    <3> HIDE DEF S
    <3> QED
      OBVIOUS
  <2> HIDE DEF S
  <2> QED
    BY <2>1 DEF RowTexts, S
<1>2. CallInv => RowsApart
  <2> SUFFICES ASSUME CallInv, Returned, call.op = "concat", NEW row \in RowTexts,
                      RowText(row) = result[1],
                      \A k \in 1..2 : Separator \notin { row[k][i] : i \in DOMAIN row[k] }
               PROVE  row = call.row
    BY DEF RowsApart
  <2> DEFINE other == call.row
  <2>1. other \in RowTexts
    <3>1. call \in ConcatCalls
      BY CallOfOp DEF CallInv
    <3> QED
      BY <3>1 DEF ConcatCalls
  <2>2. RowText(row) = RowText(other)
    BY DEF CallInv, Computed, Returns
  <2>3. row \in [1..2 -> Seq(S)] /\ other \in [1..2 -> Seq(S)] /\ Separator \in S
    BY <1>1, <2>1
  <2> HIDE DEF S, other
  <2>4. PICK o : o = other
    OBVIOUS
  <2>5. row = o
    <3>1. o \in [1..2 -> Seq(S)] /\ RowText(row) = RowText(o)
      BY <2>2, <2>3, <2>4
    <3> QED
      BY <2>3, <3>1, RowsOfTwoApart
  <2> QED
    BY <2>4, <2>5 DEF other
<1> QED
  BY <1>2, EachCall, PTL
===============================================================================
