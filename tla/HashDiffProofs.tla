---------------------------- MODULE HashDiffProofs ----------------------------
(***************************************************************************)
(* Proofs about HashDiff for any keys, tables, thresholds and samples, and  *)
(* any number of concurrent writes.                                         *)
(***************************************************************************)
EXTENDS HashDiff, SegmentationProofs

-------------------------------------------------------------------------------
(* The stack of calls: a frame on top, off the top, or in place of the top. *)
LEMMA Pushed ==
  ASSUME NEW T, NEW s \in Seq(T), NEW x \in T
  PROVE  LET q == << x >> \o s
         IN  /\ q \in Seq(T) /\ q # << >> /\ Len(q) = Len(s) + 1
             /\ Head(q) = x /\ q[1] = x
             /\ \A i \in 1..Len(s) : q[i + 1] = s[i]
             /\ \A i \in 2..Len(q) : q[i] = s[i - 1]
OBVIOUS

LEMMA Popped ==
  ASSUME NEW T, NEW s \in Seq(T), s # << >>
  PROVE  /\ Tail(s) \in Seq(T) /\ Len(Tail(s)) = Len(s) - 1
         /\ Head(s) = s[1] /\ s[1] \in T /\ Len(s) \in Nat \ {0}
         /\ \A i \in 1..(Len(s) - 1) : Tail(s)[i] = s[i + 1]
OBVIOUS

LEMMA Replaced ==
  ASSUME NEW T, NEW s \in Seq(T), s # << >>, NEW x \in T
  PROVE  LET q == << x >> \o Tail(s)
         IN  /\ q \in Seq(T) /\ q # << >> /\ Len(q) = Len(s)
             /\ Head(q) = x /\ q[1] = x
             /\ \A i \in 2..Len(s) : q[i] = s[i]
<1>1. /\ Tail(s) \in Seq(T) /\ Len(Tail(s)) = Len(s) - 1 /\ Len(s) \in Nat \ {0}
      /\ \A i \in 1..(Len(s) - 1) : Tail(s)[i] = s[i + 1]
  BY Popped
<1> DEFINE t == Tail(s)
           q == << x >> \o t
<1> HIDE DEF t
<1>2. /\ q \in Seq(T) /\ q # << >> /\ Len(q) = Len(t) + 1
      /\ Head(q) = x /\ q[1] = x
      /\ \A i \in 2..Len(q) : q[i] = t[i - 1]
  BY <1>1, Pushed DEF t
<1> HIDE DEF q
<1>3. ASSUME NEW i \in 2..Len(s) PROVE q[i] = s[i]
  <2>1. i - 1 \in 1..(Len(s) - 1) /\ i - 1 + 1 = i
    BY <1>1
  <2>2. t[i - 1] = s[i - 1 + 1]
    BY <1>1, <2>1 DEF t
  <2> QED
    BY <1>1, <1>2, <2>1, <2>2 DEF t
<1> QED
  BY <1>1, <1>2, <1>3 DEF q, t

-------------------------------------------------------------------------------
(* The bounds. *)
LEMMA LeadType == ASSUME NEW k \in Key PROVE Lead[k] \in Bound
BY LeadAssumption

LEMMA LeadsType ==
  ASSUME NEW table
  PROVE  Leads(table) \in SUBSET Int /\ IsFiniteSet(Leads(table))
<1> DEFINE image == { Lead[k] : k \in Key }
<1>1. Lead \in Surjection(Key, image)
  <2>1. Lead \in [Key -> image]
    BY LeadAssumption
  <2>2. \A x \in image : \E k \in Key : Lead[k] = x
    OBVIOUS
  <2> HIDE DEF image
  <2> QED
    BY <2>1, <2>2, Fun_IsSurj
<1>2. IsFiniteSet(image)
  BY <1>1, KeyAssumption, FS_Surjection
<1>3. Leads(table) \in SUBSET image
  BY DEF Leads, Rows, Row
<1>4. Leads(table) \in SUBSET Int
  BY LeadType DEF Leads, Rows, Row, Bound
<1> HIDE DEF image
<1> QED
  BY <1>2, <1>3, <1>4, FS_Subset

LEMMA LeastIs ==
  ASSUME NEW S \in SUBSET Int, IsFiniteSet(S)
  PROVE  /\ Least(S) \in Bound /\ Greatest(S) \in Bound
         /\ S = {} <=> Least(S) = None
         /\ S = {} <=> Greatest(S) = None
         /\ S # {} => /\ Least(S) \in S /\ \A y \in S : Least(S) <= y
                      /\ Greatest(S) \in S /\ \A y \in S : y <= Greatest(S)
<1>1. CASE S = {}
  BY <1>1 DEF Least, Greatest, Bound
<1>2. CASE S # {}
  <2>1. \E x \in S : \A y \in S : x <= y
    BY <1>2, LeastElement
  <2>2. \E x \in S : \A y \in S : x >= y
    <3>1. PICK x \in S : \A y \in S : y <= x
      BY <1>2, GreatestElement
    <3>2. \A y \in S : x >= y
      BY <3>1
    <3> QED
      BY <3>2
  <2>3. Least(S) = CHOOSE x \in S : \A y \in S : x <= y
    BY <1>2 DEF Least
  <2>4. Greatest(S) = CHOOSE x \in S : \A y \in S : x >= y
    BY <1>2 DEF Greatest
  <2>5. Least(S) \in S /\ \A y \in S : Least(S) <= y
    BY <2>1, <2>3
  <2>6. Greatest(S) \in S /\ \A y \in S : Greatest(S) >= y
    BY <2>2, <2>4
  <2> HIDE DEF Least, Greatest
  <2>7. Least(S) \in Int /\ Greatest(S) \in Int
    BY <2>5, <2>6
  <2>8. \A y \in S : y <= Greatest(S)
    BY <2>6, <2>7
  <2> QED
    BY <1>2, <2>5, <2>6, <2>7, <2>8, NoneAssumption DEF Bound
<1> QED
  BY <1>1, <1>2

-------------------------------------------------------------------------------
(* Samples: sorted leading keys of rows there are. *)
LEMMA SampleType ==
  ASSUME NEW rows \in SUBSET Row, NEW sample \in Samples(rows)
  PROVE  /\ sample \in Seq(Bound) /\ Sorted(sample)
         /\ \A i \in 1..Len(sample) : \E r \in rows : sample[i] = Lead[r[1]]
<1> DEFINE keys == KeysOf(rows)
           size == Lesser(SampleCap, Cardinality(keys))
<1>1. keys \in SUBSET Key
  BY DEF KeysOf, Row
<1>2. PICK S \in SUBSET keys :
        Cardinality(S) = size /\ sample = [i \in 1..size |-> Lead[Nth(S, i)]]
  BY DEF Samples
<1>3. S \in SUBSET Key /\ S \in SUBSET Int /\ IsFiniteSet(S) /\ size \in Nat
  <2>1. S \in SUBSET Key
    BY <1>1
  <2>2. IsFiniteSet(S)
    BY <2>1, KeyAssumption, FS_Subset
  <2> QED
    BY <1>2, <2>1, <2>2, KeyAssumption, FS_CardinalityType
<1> HIDE DEF size
<1>4. ASSUME NEW i \in 1..size
      PROVE  /\ Nth(S, i) \in S
             /\ \A j \in 1..size : i < j => Nth(S, i) < Nth(S, j)
  BY <1>2, <1>3, NthMember
<1>5. \A i \in 1..size : Lead[Nth(S, i)] \in Bound
  BY <1>3, <1>4, LeadType
<1>6. sample \in Seq(Bound) /\ Len(sample) = size
  BY <1>2, <1>3, <1>5
<1>7. \A i \in 1..size : sample[i] = Lead[Nth(S, i)]
  BY <1>2
<1>8. ASSUME NEW i \in 1..(size - 1) PROVE Before(sample[i], sample[i + 1])
  <2>1. i \in 1..size /\ i + 1 \in 1..size /\ i < i + 1
    BY <1>3
  <2>2. Nth(S, i) \in Key /\ Nth(S, i + 1) \in Key /\ Nth(S, i) < Nth(S, i + 1)
    BY <1>3, <1>4, <2>1
  <2>3. \/ Lead[Nth(S, i + 1)] = None
        \/ Lead[Nth(S, i)] # None /\ Lead[Nth(S, i)] <= Lead[Nth(S, i + 1)]
    BY <2>2, LeadAssumption
  <2> QED
    BY <1>7, <2>1, <2>3 DEF Before
<1>9. Sorted(sample)
  BY <1>6, <1>8 DEF Sorted
<1>10. \A i \in 1..size : \E r \in rows : sample[i] = Lead[r[1]]
  BY <1>4, <1>7 DEF KeysOf
<1> QED
  BY <1>6, <1>9, <1>10

-------------------------------------------------------------------------------
(* The type invariant is not inductive: a loop must not read past its       *)
(* segments, the depth of a call is its place on the stack, and only a      *)
(* segment that holds a key is bisected.                                    *)
Report == [sourceCount : Nat, targetCount : Nat, missing : Nat, extra : Nat,
           changed : Nat, listed : SUBSET RowDiff, truncated : BOOLEAN]

LoopPC == {"stats_src", "stats_tgt", "bisect", "fetch_src", "fetch_tgt"}

Resolving == pc \in {"bisect", "fetch_src", "fetch_tgt"}

BoundsOrdered ==
  \/ bounds.lo = None /\ bounds.hi = None
  \/ bounds.lo # None /\ bounds.hi # None /\ bounds.lo <= bounds.hi

(* A frame's place, and how far its loop has come: below the top, and at    *)
(* the top while a mismatch is resolved, a segment is behind it.            *)
FrameInv(i) ==
  /\ stack[i].depth = Len(stack) - i - 1
  /\ stack[i].next <= Len(stack[i].subs) + 1
  /\ i > 1 \/ Resolving => stack[i].next >= 2 /\ stack[i].split

StackInv ==
  /\ pc \in LoopPC <=> stack # << >>
  /\ \A i \in 1..Len(stack) : FrameInv(i)
  /\ Len(stack) <= MaxDepth + 1

Within(rows, seg) == \A r \in rows : r \in Row /\ InSegment(Lead[r[1]], seg)

CurInv ==
  /\ pc = "stats_tgt" => Top.next <= Len(Top.subs) /\ Within(seen, Top.subs[Top.next])
  /\ pc = "fetch_tgt" => Within(seen, cur.seg)
  /\ Resolving => cur.depth = Len(stack) - 1
  /\ pc = "bisect" => cur.depth < MaxDepth /\ \E k \in Key : InSegment(Lead[k], cur.seg)

Shape == TypeInv /\ BoundsOrdered /\ StackInv /\ CurInv

LEMMA RowsInType ==
  ASSUME NEW table \in Table, NEW seg
  PROVE  RowsIn(table, seg) \subseteq Row /\ Within(RowsIn(table, seg), seg)
BY DEF RowsIn, Rows, Within

LEMMA ShapeInit == Init => Shape
<1> SUFFICES ASSUME Init PROVE Shape
  OBVIOUS
<1>1. src \in Table /\ tgt \in Table /\ numeric \in BOOLEAN
  BY ParameterAssumption DEF Init
<1>2. Seg(None, None) \in Segment
  BY DEF Seg, Segment, Bound
<1>3. cur \in [seg : Segment, depth : Nat, rows : Nat] /\ bounds \in Segment
  BY <1>2 DEF Init
<1>4. result \in Report /\ counted \in [Key -> Nat]
  BY DEF Init, Report
<1>5. TypeInv
  BY <1>1, <1>3, <1>4 DEF Init, TypeInv, PC, Report
<1>6. BoundsOrdered
  BY DEF Init, BoundsOrdered, Seg
<1>7. StackInv
  BY ParameterAssumption DEF Init, StackInv, LoopPC
<1>8. CurInv
  BY DEF Init, CurInv, Resolving
<1> QED
  BY <1>5, <1>6, <1>7, <1>8 DEF Shape

(* The queries before the loop leave the stack empty.                       *)
LEMMA ShapeBefore ==
  ASSUME Shape, UNCHANGED << tables, stack, cur, seen, counted >>,
         pc \notin LoopPC, pc' \in PC \ LoopPC, bounds' \in Segment, BoundsOrdered',
         result' \in Report
  PROVE  Shape'
<1>1. TypeInv'
  BY DEF Shape, TypeInv, tables, Report
<1>2. StackInv'
  BY DEF Shape, StackInv, TypeInv
<1>3. CurInv'
  BY DEF CurInv, Resolving, LoopPC
<1> QED
  BY <1>1, <1>2, <1>3 DEF Shape

LEMMA ShapeUnique ==
  ASSUME Shape, UniqueSource \/ UniqueTarget
  PROVE  Shape'
<1>1. UNCHANGED << tables, bounds, stack, cur, seen, result, counted >>
  BY DEF UniqueSource, UniqueTarget
<1>2. pc \notin LoopPC /\ pc' \in PC \ LoopPC
  BY DEF UniqueSource, UniqueTarget, PC, LoopPC
<1>3. BoundsOrdered' /\ bounds' \in Segment /\ result' \in Report
  BY <1>1 DEF Shape, BoundsOrdered, TypeInv, Report
<1> QED
  BY <1>1, <1>2, <1>3, ShapeBefore

LEMMA ShapeBoundsSource ==
  ASSUME Shape, BoundsSource
  PROVE  Shape'
<1> DEFINE L == Leads(src)
<1>1. L \in SUBSET Int /\ IsFiniteSet(L)
  BY LeadsType
<1>2. /\ Least(L) \in Bound /\ Greatest(L) \in Bound
      /\ L = {} <=> Least(L) = None
      /\ L = {} <=> Greatest(L) = None
      /\ L # {} => Least(L) \in L /\ \A y \in L : y <= Greatest(L)
  BY <1>1, LeastIs
<1> HIDE DEF L
<1>3. bounds' = Seg(Least(L), Greatest(L))
  BY DEF BoundsSource, L
<1>4. bounds'.lo = Least(L) /\ bounds'.hi = Greatest(L) /\ bounds' \in Segment
  BY <1>2, <1>3 DEF Seg, Segment
<1>5. BoundsOrdered'
  BY <1>2, <1>4 DEF BoundsOrdered
<1>6. Cardinality(Rows(src)) \in Nat
  BY RowsType, KeyAssumption DEF Shape, TypeInv
<1>7. result' \in Report
  BY <1>6 DEF BoundsSource, Shape, TypeInv, Report
<1> QED
  BY <1>4, <1>5, <1>7, ShapeBefore DEF BoundsSource, PC, LoopPC

(* The range of both sides together takes in either side's. *)
LEMMA BothBounds ==
  ASSUME Shape, BoundsTarget
  PROVE  /\ bounds' \in Segment /\ BoundsOrdered'
         /\ bounds.lo # None => bounds'.lo # None /\ bounds'.lo <= bounds.lo
         /\ \A x \in Leads(tgt) : bounds'.lo # None /\ bounds'.lo <= x
<1> DEFINE L     == Leads(tgt)
           lows  == {bounds.lo, Least(L)} \ {None}
           highs == {bounds.hi, Greatest(L)} \ {None}
<1>1. L \in SUBSET Int /\ IsFiniteSet(L)
  BY LeadsType
<1>2. /\ Least(L) \in Bound /\ Greatest(L) \in Bound
      /\ L = {} <=> Least(L) = None
      /\ L = {} <=> Greatest(L) = None
      /\ L # {} => /\ Least(L) \in L /\ Greatest(L) \in L
                   /\ \A y \in L : Least(L) <= y /\ y <= Greatest(L)
  BY <1>1, LeastIs
<1>3. bounds' = Seg(Least(lows), Greatest(highs))
  BY DEF BoundsTarget
<1>4. bounds.lo \in Bound /\ bounds.hi \in Bound
  BY DEF Shape, TypeInv, Segment
<1>5. \A a, b : IsFiniteSet({a, b})
  <2> TAKE a, b
  <2>1. IsFiniteSet({a})
    BY FS_Singleton
  <2>2. IsFiniteSet({a} \cup {b})
    BY <2>1, FS_AddElement
  <2>3. {a, b} = {a} \cup {b}
    OBVIOUS
  <2> QED
    BY <2>2, <2>3
<1>6. lows \in SUBSET Int /\ highs \in SUBSET Int
  BY <1>2, <1>4 DEF Bound
<1>7. IsFiniteSet(lows) /\ IsFiniteSet(highs)
  <2>1. lows \in SUBSET {bounds.lo, Least(L)} /\ highs \in SUBSET {bounds.hi, Greatest(L)}
    OBVIOUS
  <2> HIDE DEF lows, highs
  <2> QED
    BY <1>5, <2>1, FS_Subset
<1>8. /\ lows = {} <=> bounds.lo = None /\ L = {}
      /\ highs = {} <=> bounds.hi = None /\ L = {}
      /\ bounds.lo # None => bounds.lo \in lows
      /\ bounds.hi # None => bounds.hi \in highs
      /\ L # {} => Least(L) \in lows /\ Greatest(L) \in highs
  BY <1>2
<1> HIDE DEF lows, highs, L
<1>9. /\ Least(lows) \in Bound /\ Greatest(highs) \in Bound
      /\ lows = {} <=> Least(lows) = None
      /\ highs = {} <=> Greatest(highs) = None
      /\ lows # {} => Least(lows) \in lows /\ \A y \in lows : Least(lows) <= y
      /\ highs # {} => Greatest(highs) \in highs /\ \A y \in highs : y <= Greatest(highs)
  BY <1>6, <1>7, LeastIs
<1>10. bounds'.lo = Least(lows) /\ bounds'.hi = Greatest(highs) /\ bounds' \in Segment
  BY <1>3, <1>9 DEF Seg, Segment
<1>11. (bounds.lo = None /\ bounds.hi = None)
       \/ (bounds.lo # None /\ bounds.hi # None /\ bounds.lo <= bounds.hi)
  BY DEF Shape, BoundsOrdered
<1>12. lows = {} <=> highs = {}
  BY <1>8, <1>11
<1>13. ASSUME lows # {} PROVE Least(lows) <= Greatest(highs)
  <2>1. \E x \in lows, y \in highs : x <= y
    <3>1. CASE L # {}
      <4>1. Least(L) <= Greatest(L)
        BY <1>2, <3>1
      <4> QED
        BY <1>8, <3>1, <4>1
    <3>2. CASE L = {}
      BY <1>8, <1>11, <1>13, <3>2
    <3> QED
      BY <3>1, <3>2
  <2>2. PICK x \in lows, y \in highs : x <= y
    BY <2>1
  <2>3. Least(lows) <= x /\ y <= Greatest(highs)
    BY <1>9, <2>2
  <2>4. x \in Int /\ y \in Int /\ Least(lows) \in Int /\ Greatest(highs) \in Int
    BY <1>6, <1>9, <1>12, <1>13, <2>2
  <2> QED
    BY <2>2, <2>3, <2>4
<1>14. BoundsOrdered'
  BY <1>9, <1>10, <1>12, <1>13 DEF BoundsOrdered
<1>15. bounds.lo # None => bounds'.lo # None /\ bounds'.lo <= bounds.lo
  BY <1>8, <1>9, <1>10
<1>16. ASSUME NEW x \in L PROVE bounds'.lo # None /\ bounds'.lo <= x
  <2>1. L # {} /\ Least(L) <= x /\ Least(L) \in lows
    BY <1>2, <1>8, <1>16
  <2>2. bounds'.lo # None /\ bounds'.lo <= Least(L)
    BY <1>9, <1>10, <2>1
  <2>3. bounds'.lo \in Int /\ Least(L) \in Int /\ x \in Int
    BY <1>1, <1>6, <1>9, <1>10, <2>1
  <2> QED
    BY <2>1, <2>2, <2>3
<1> QED
  BY <1>10, <1>14, <1>15, <1>16 DEF L

LEMMA ShapeBoundsTarget ==
  ASSUME Shape, BoundsTarget
  PROVE  Shape'
<1>1. Cardinality(Rows(tgt)) \in Nat
  BY RowsType, KeyAssumption DEF Shape, TypeInv
<1>2. result' \in Report
  BY <1>1 DEF BoundsTarget, Shape, TypeInv, Report
<1>3. pc \notin LoopPC /\ pc' \in PC \ LoopPC
  BY DEF BoundsTarget, PC, LoopPC
<1>4. UNCHANGED << tables, stack, cur, seen, counted >>
  BY DEF BoundsTarget
<1> QED
  BY <1>2, <1>3, <1>4, BothBounds, ShapeBefore

-------------------------------------------------------------------------------
(* The initial segmentation starts the bottom loop.                         *)
LEMMA SegmentiseStack ==
  ASSUME Shape, Segmentise
  PROVE  \E f \in Frame :
           /\ stack' = << f >> /\ f.depth = -1 /\ f.next = 1 /\ ~f.split
           /\ Apart(f.subs)
           /\ \A k \in Bound : InSegment(k, Seg(bounds.lo, None)) => Owned(k, f.subs)
<1> DEFINE count == Greater(result.sourceCount, result.targetCount)
           num   == ComputeNumSegments(count, TargetRowsPerSegment, MinSegments)
           segs(samples) == InitialSegments(numeric, num, bounds.lo, bounds.hi, samples)
<1>1. PICK samples \in IF numeric THEN {<< >>} ELSE Samples(Rows(src)) :
        stack' = << NewFrame(Seg(bounds.lo, None), -1, segs(samples)) >>
  BY DEF Segmentise
<1>2. samples \in Seq(Bound) /\ Sorted(samples)
  <2>1. CASE numeric
    <3>1. samples = << >>
      BY <2>1
    <3> QED
      BY <3>1 DEF Sorted
  <2>2. CASE ~numeric
    <3>1. Rows(src) \in SUBSET Row
      BY DEF Rows
    <3> QED
      BY <2>2, <3>1, SampleType
  <2> QED
    BY <2>1, <2>2
<1>3. num \in Nat \ {0}
  <2>1. count \in Nat
    BY DEF Greater, Shape, TypeInv
  <2> QED
    BY <2>1, NumSegments, ParameterAssumption
<1>4. /\ bounds.lo \in Bound /\ bounds.hi \in Bound /\ numeric \in BOOLEAN
      /\ (bounds.lo = None /\ bounds.hi = None)
         \/ (bounds.lo # None /\ bounds.hi # None /\ bounds.lo <= bounds.hi)
  BY DEF Shape, TypeInv, BoundsOrdered, Segment
<1> HIDE DEF num
<1>5. /\ segs(samples) \in Seq(Segment) /\ segs(samples) # << >>
      /\ Apart(segs(samples))
      /\ \A k \in Bound : InSegment(k, Seg(bounds.lo, None)) => Owned(k, segs(samples))
  BY <1>2, <1>3, <1>4, InitialTiles
<1> DEFINE f == NewFrame(Seg(bounds.lo, None), -1, segs(samples))
<1> HIDE DEF segs
<1>6. Seg(bounds.lo, None) \in Segment
  BY <1>4 DEF Seg, Segment, Bound
<1>7. /\ f \in Frame /\ f.depth = -1 /\ f.next = 1 /\ ~f.split /\ f.subs = segs(samples)
  BY <1>5, <1>6, ParameterAssumption DEF NewFrame, Frame
<1>8. stack' = << f >>
  BY <1>1 DEF segs
<1> HIDE DEF f
<1> QED
  BY <1>5, <1>7, <1>8

LEMMA ShapeSegmentise ==
  ASSUME Shape, Segmentise
  PROVE  Shape'
<1>1. PICK f \in Frame : stack' = << f >> /\ f.depth = -1 /\ f.next = 1
  BY SegmentiseStack
<1>2. /\ pc' = "stats_src"
      /\ UNCHANGED << tables, bounds, cur, seen, result, counted >>
  BY DEF Segmentise
<1>3. /\ stack' \in Seq(Frame) /\ stack' # << >> /\ Len(stack') = 1 /\ stack'[1] = f
  BY <1>1
<1>4. TypeInv'
  BY <1>2, <1>3 DEF Shape, TypeInv, tables, PC
<1>5. BoundsOrdered'
  BY <1>2 DEF Shape, BoundsOrdered
<1>6. f.next <= Len(f.subs) + 1
  BY <1>1 DEF Frame
<1>7. StackInv'
  BY <1>1, <1>2, <1>3, <1>6, ParameterAssumption DEF StackInv, FrameInv, LoopPC, Resolving
<1>8. CurInv'
  BY <1>2 DEF CurInv, Resolving
<1> QED
  BY <1>4, <1>5, <1>7, <1>8 DEF Shape

(* A query of the loop that leaves the stack as it is. *)
LEMMA ShapeSameStack ==
  ASSUME Shape, UNCHANGED << tables, bounds, stack, cur >>, stack # << >>,
         pc' \in LoopPC, Resolving' => Resolving,
         seen' \subseteq Row, result' \in Report, counted' \in [Key -> Nat],
         CurInv'
  PROVE  Shape'
<1>1. TypeInv'
  BY DEF Shape, TypeInv, tables, Report, LoopPC, PC
<1>2. BoundsOrdered'
  BY DEF Shape, BoundsOrdered
<1>3. StackInv'
  BY DEF Shape, StackInv, FrameInv
<1> QED
  BY <1>1, <1>2, <1>3 DEF Shape

LEMMA InLoop ==
  ASSUME Shape, pc \in LoopPC
  PROVE  /\ stack # << >> /\ stack \in Seq(Frame) /\ Len(stack) \in Nat \ {0}
         /\ Top = stack[1] /\ Top \in Frame
         /\ Top.depth = Len(stack) - 2 /\ Top.next \in Nat \ {0}
         /\ Top.subs \in Seq(Segment) /\ Top.seg \in Segment /\ Top.split \in BOOLEAN
<1>1. stack # << >> /\ stack \in Seq(Frame)
  BY DEF Shape, StackInv, TypeInv
<1>2. Head(stack) = stack[1] /\ stack[1] \in Frame /\ Len(stack) \in Nat \ {0}
  BY <1>1, Popped
<1>3. FrameInv(1)
  BY <1>2 DEF Shape, StackInv
<1>4. Top.depth = Len(stack) - 2
  BY <1>2, <1>3 DEF FrameInv, Top
<1>5. /\ stack[1].next \in Nat \ {0} /\ stack[1].subs \in Seq(Segment)
      /\ stack[1].seg \in Segment /\ stack[1].split \in BOOLEAN
  BY <1>2 DEF Frame
<1> QED
  BY <1>1, <1>2, <1>4, <1>5 DEF Top

LEMMA ShapeStatsSource ==
  ASSUME Shape, StatsSource
  PROVE  Shape'
<1>1. /\ pc = "stats_src" /\ pc' = "stats_tgt" /\ Top.next <= Len(Top.subs)
      /\ seen' = RowsIn(src, Top.subs[Top.next])
      /\ UNCHANGED << tables, bounds, stack, cur, result, counted >>
  BY DEF StatsSource
<1>2. seen' \subseteq Row /\ Within(seen', Top.subs[Top.next])
  BY <1>1, RowsInType DEF Shape, TypeInv
<1>3. Top' = Top
  BY <1>1 DEF Top
<1>4. CurInv'
  BY <1>1, <1>2, <1>3 DEF CurInv, Resolving, Within
<1>5. stack # << >> /\ pc' \in LoopPC /\ ~Resolving'
  BY <1>1, InLoop DEF LoopPC, Resolving
<1>6. result' \in Report /\ counted' \in [Key -> Nat]
  BY <1>1 DEF Shape, TypeInv, Report
<1> QED
  BY <1>1, <1>2, <1>4, <1>5, <1>6, ShapeSameStack

LEMMA ShapeFetchSource ==
  ASSUME Shape, FetchSource
  PROVE  Shape'
<1>1. /\ pc = "fetch_src" /\ pc' = "fetch_tgt"
      /\ seen' = RowsIn(src, cur.seg)
      /\ UNCHANGED << tables, bounds, stack, cur, result, counted >>
  BY DEF FetchSource
<1>2. seen' \subseteq Row /\ Within(seen', cur.seg)
  BY <1>1, RowsInType DEF Shape, TypeInv
<1>3. Resolving /\ Resolving' /\ pc \in LoopPC /\ pc' \in LoopPC
  BY <1>1 DEF Resolving, LoopPC
<1>4. cur.depth = Len(stack) - 1
  BY <1>3 DEF Shape, CurInv
<1>5. CurInv'
  BY <1>1, <1>2, <1>4 DEF CurInv, Within
<1>6. result' \in Report /\ counted' \in [Key -> Nat]
  BY <1>1 DEF Shape, TypeInv, Report
<1> QED
  BY <1>1, <1>2, <1>3, <1>5, <1>6, ShapeSameStack, InLoop

(* What the loop does after one of its segments.                            *)
LEMMA StatsTargetStack ==
  ASSUME Shape, StatsTarget
  PROVE  /\ stack' \in Seq(Frame) /\ Len(stack') = Len(stack) /\ stack' # << >>
         /\ Top' = stack'[1]
         /\ stack'[1].subs = stack[1].subs /\ stack'[1].seg = stack[1].seg
         /\ stack'[1].depth = stack[1].depth /\ stack'[1].next = stack[1].next + 1
         /\ stack'[1].split <=> stack[1].split \/
                                ~StatsEqual(seen, RowsIn(tgt, stack[1].subs[stack[1].next]))
         /\ \A i \in 2..Len(stack) : stack'[i] = stack[i]
<1>1. pc \in LoopPC
  BY DEF StatsTarget, LoopPC
<1> DEFINE equal == StatsEqual(seen, RowsIn(tgt, Top.subs[Top.next]))
           f == Advanced(Top, equal)
<1>2. equal \in BOOLEAN /\ stack' = << f >> \o Tail(stack)
  BY DEF StatsTarget, StatsEqual
<1> HIDE DEF equal
<1>3. /\ f.subs = Top.subs /\ f.seg = Top.seg /\ f.depth = Top.depth /\ f.next = Top.next + 1
      /\ f.split = (Top.split \/ ~equal)
  BY <1>1, InLoop DEF Advanced, Frame
<1>4. f \in Frame
  <2> DEFINE n == Top.next + 1
             b == Top.split \/ ~equal
  <2>1. n \in Nat \ {0} /\ b \in BOOLEAN /\ Top \in Frame
    BY <1>1, <1>2, InLoop
  <2>2. f = [Top EXCEPT !.next = n, !.split = b]
    BY DEF Advanced
  <2> HIDE DEF f, n, b
  <2> QED
    BY <2>1, <2>2 DEF Frame
<1> HIDE DEF f
<1>5. /\ stack' \in Seq(Frame) /\ stack' # << >> /\ Len(stack') = Len(stack)
      /\ Head(stack') = f /\ stack'[1] = f
      /\ \A i \in 2..Len(stack) : stack'[i] = stack[i]
  BY <1>1, <1>2, <1>4, InLoop, Replaced
<1> QED
  BY <1>1, <1>3, <1>5, InLoop DEF Top, equal

LEMMA ShapeStatsTarget ==
  ASSUME Shape, StatsTarget
  PROVE  Shape'
<1> DEFINE sub   == Top.subs[Top.next]
           rows  == RowsIn(tgt, sub)
           equal == StatsEqual(seen, rows)
           most  == Greater(Cardinality(seen), Cardinality(rows))
           depth == Top.depth + 1
<1>1. /\ pc = "stats_tgt" /\ seen' = {} /\ pc \in LoopPC
      /\ UNCHANGED << tables, bounds, result, counted >>
  BY DEF StatsTarget, LoopPC
<1>2. IF equal THEN pc' = "stats_src" /\ cur' = cur
      ELSE /\ cur' = [seg |-> sub, depth |-> depth, rows |-> most]
           /\ pc' = IF MayBisect(most, depth) THEN "bisect" ELSE "fetch_src"
  BY DEF StatsTarget
<1>3. /\ Top.next <= Len(Top.subs) /\ Within(seen, sub) /\ seen \subseteq Row
      /\ Within(rows, sub) /\ rows \subseteq Row
  BY <1>1, RowsInType DEF Shape, CurInv, TypeInv
<1>4. sub \in Segment /\ depth \in Nat /\ depth = Len(stack) - 1
  BY <1>1, <1>3, InLoop
<1>5. /\ IsFiniteSet(seen) /\ IsFiniteSet(rows)
      /\ Cardinality(seen) \in Nat /\ Cardinality(rows) \in Nat /\ most \in Nat
  <2>1. IsFiniteSet(Row)
    BY KeyAssumption, FS_Product DEF Row
  <2> HIDE DEF rows
  <2>2. IsFiniteSet(seen) /\ IsFiniteSet(rows)
    BY <1>3, <2>1, FS_Subset
  <2> QED
    BY <2>2, FS_CardinalityType DEF Greater
<1>6. ASSUME most > RowThreshold
      PROVE  \E k \in Key : InSegment(Lead[k], sub)
  <2>1. Cardinality(seen) # 0 \/ Cardinality(rows) # 0
    BY <1>5, <1>6, ParameterAssumption DEF Greater
  <2>2. seen # {} \/ rows # {}
    BY <2>1, FS_EmptySet
  <2>3. PICK r \in Row : InSegment(Lead[r[1]], sub)
    BY <1>3, <2>2 DEF Within
  <2> QED
    BY <2>3 DEF Row
<1>7. /\ stack' \in Seq(Frame) /\ Len(stack') = Len(stack) /\ stack' # << >>
      /\ stack'[1].subs = stack[1].subs /\ stack'[1].seg = stack[1].seg
      /\ stack'[1].depth = stack[1].depth /\ stack'[1].next = stack[1].next + 1
      /\ stack'[1].split <=> stack[1].split \/ ~equal
      /\ \A i \in 2..Len(stack) : stack'[i] = stack[i]
      /\ Top = stack[1] /\ Len(stack) \in Nat \ {0} /\ stack # << >>
  BY <1>1, StatsTargetStack, InLoop
<1> HIDE DEF most, depth, rows, equal, sub
<1>8. cur' \in [seg : Segment, depth : Nat, rows : Nat]
  BY <1>2, <1>4, <1>5 DEF Shape, TypeInv
<1>9. pc' \in LoopPC /\ (Resolving' <=> ~equal)
  BY <1>2 DEF LoopPC, Resolving
<1>10. TypeInv'
  BY <1>1, <1>7, <1>8, <1>9 DEF Shape, TypeInv, tables, LoopPC, PC
<1>11. ASSUME NEW i \in 1..Len(stack') PROVE FrameInv(i)'
  <2>1. FrameInv(i)
    BY <1>7, <1>11 DEF Shape, StackInv
  <2>2. CASE i = 1
    <3>1. stack[1].next + 1 <= Len(stack[1].subs) + 1 /\ stack[1].next + 1 >= 2
      BY <1>1, <1>3, <1>7, InLoop
    <3> QED
      BY <1>7, <1>9, <2>1, <2>2, <3>1 DEF FrameInv
  <2>3. CASE i # 1
    <3>1. i \in 2..Len(stack) /\ i > 1
      BY <1>7, <2>3
    <3> QED
      BY <1>7, <2>1, <3>1 DEF FrameInv
  <2> QED
    BY <2>2, <2>3
<1>12. StackInv'
  BY <1>7, <1>9, <1>11 DEF StackInv, Shape
<1>13. CurInv'
  <2>1. CASE equal
    BY <1>2, <2>1 DEF CurInv, Resolving
  <2>2. CASE ~equal
    <3>1. cur'.depth = Len(stack') - 1 /\ cur'.seg = sub
      BY <1>2, <1>4, <1>7, <2>2
    <3>2. pc' = "bisect" => most > RowThreshold /\ depth < MaxDepth
      BY <1>2, <2>2 DEF MayBisect
    <3>3. cur'.depth = depth /\ pc' \in {"bisect", "fetch_src"}
      BY <1>2, <2>2
    <3> QED
      BY <1>6, <3>1, <3>2, <3>3 DEF CurInv
  <2> QED
    BY <2>1, <2>2
<1> QED
  BY <1>1, <1>10, <1>12, <1>13 DEF Shape, BoundsOrdered

(* A call of _resolve_mismatched_segment starts a loop over the parts of    *)
(* its segment, which share out the keys of the segment among them; or it   *)
(* goes on to fetch the segment.                                            *)
LEMMA BisectStack ==
  ASSUME Shape, BisectSegment
  PROVE  \/ pc' = "fetch_src" /\ stack' = stack
         \/ /\ pc' = "stats_src"
            /\ \E f \in Frame :
                 /\ stack' = << f >> \o stack
                 /\ f.seg = cur.seg /\ f.depth = cur.depth /\ f.next = 1 /\ ~f.split
                 /\ Apart(f.subs)
                 /\ \A k \in Bound : Owned(k, f.subs) <=> InSegment(k, cur.seg)
<1> DEFINE subs(samples) == Bisect(numeric, cur.seg, samples)
<1>1. PICK samples \in IF numeric \/ cur.seg.hi = None THEN {<< >>}
                       ELSE Samples(RowsIn(src, cur.seg)) :
        IF Len(subs(samples)) > 1
        THEN /\ stack' = << NewFrame(cur.seg, cur.depth, subs(samples)) >> \o stack
             /\ pc' = "stats_src"
        ELSE /\ pc' = "fetch_src"
             /\ UNCHANGED stack
  BY DEF BisectSegment
<1>2. /\ pc = "bisect" /\ cur.depth < MaxDepth /\ cur.seg \in Segment /\ cur.depth \in Nat
      /\ \E k \in Key : InSegment(Lead[k], cur.seg)
      /\ numeric \in BOOLEAN
  BY DEF BisectSegment, Shape, CurInv, TypeInv
<1>3. /\ samples \in Seq(Bound) /\ Sorted(samples)
      /\ \A i \in 1..Len(samples) : InSegment(samples[i], cur.seg)
  <2>1. CASE numeric \/ cur.seg.hi = None
    <3>1. samples = << >>
      BY <2>1
    <3> QED
      BY <3>1 DEF Sorted
  <2>2. CASE ~(numeric \/ cur.seg.hi = None)
    <3>1. RowsIn(src, cur.seg) \in SUBSET Row /\ Within(RowsIn(src, cur.seg), cur.seg)
      BY RowsInType DEF Shape, TypeInv
    <3>2. samples \in Samples(RowsIn(src, cur.seg))
      BY <2>2
    <3>3. /\ samples \in Seq(Bound) /\ Sorted(samples)
          /\ \A i \in 1..Len(samples) :
               \E r \in RowsIn(src, cur.seg) : samples[i] = Lead[r[1]]
      BY <3>1, <3>2, SampleType
    <3> QED
      BY <3>1, <3>3 DEF Within
  <2> QED
    BY <2>1, <2>2
<1>4. PICK k \in Key : InSegment(Lead[k], cur.seg)
  BY <1>2
<1>5. Lead[k] \in Bound
  BY LeadType
<1>6. /\ subs(samples) \in Seq(Segment)
      /\ Apart(subs(samples))
      /\ \A x \in Bound : Owned(x, subs(samples)) <=> InSegment(x, cur.seg)
  BY <1>2, <1>3, <1>4, <1>5, BisectTiles
<1> DEFINE f == NewFrame(cur.seg, cur.depth, subs(samples))
<1> HIDE DEF subs
<1>7. cur.depth \in -1..MaxDepth
  BY <1>2, ParameterAssumption
<1>8. /\ f \in Frame /\ f.seg = cur.seg /\ f.depth = cur.depth /\ f.next = 1 /\ ~f.split
      /\ f.subs = subs(samples)
  BY <1>2, <1>6, <1>7 DEF NewFrame, Frame
<1> HIDE DEF f
<1>9. CASE Len(subs(samples)) > 1
  <2>1. stack' = << f >> \o stack /\ pc' = "stats_src"
    BY <1>1, <1>9 DEF f
  <2> QED
    BY <1>6, <1>8, <2>1
<1>10. CASE ~(Len(subs(samples)) > 1)
  BY <1>1, <1>10
<1> QED
  BY <1>9, <1>10

LEMMA ShapeBisect ==
  ASSUME Shape, BisectSegment
  PROVE  Shape'
<1>1. /\ pc = "bisect" /\ pc \in LoopPC /\ Resolving
      /\ UNCHANGED << tables, bounds, cur, seen, result, counted >>
  BY DEF BisectSegment, LoopPC, Resolving
<1>2. cur.depth = Len(stack) - 1 /\ cur.depth < MaxDepth
  BY <1>1 DEF Shape, CurInv
<1>3. stack \in Seq(Frame) /\ Len(stack) \in Nat \ {0} /\ stack # << >>
  BY <1>1, InLoop
<1>4. CASE pc' = "fetch_src" /\ stack' = stack
  <2>1. pc' \in LoopPC /\ Resolving'
    BY <1>4 DEF LoopPC, Resolving
  <2>2. CurInv'
    BY <1>1, <1>2, <1>4 DEF CurInv
  <2>3. seen' \subseteq Row /\ result' \in Report /\ counted' \in [Key -> Nat]
    BY <1>1 DEF Shape, TypeInv, Report
  <2> QED
    BY <1>1, <1>3, <1>4, <2>1, <2>2, <2>3, ShapeSameStack
<1>5. CASE pc' = "stats_src" /\ \E f \in Frame :
              stack' = << f >> \o stack /\ f.depth = cur.depth /\ f.next = 1
  <2>1. PICK f \in Frame : stack' = << f >> \o stack /\ f.depth = cur.depth /\ f.next = 1
    BY <1>5
  <2>2. /\ stack' \in Seq(Frame) /\ stack' # << >> /\ Len(stack') = Len(stack) + 1
        /\ stack'[1] = f
        /\ \A i \in 2..Len(stack') : stack'[i] = stack[i - 1]
    BY <1>3, <2>1, Pushed
  <2>3. pc' \in LoopPC /\ ~Resolving' /\ pc' \in PC
    BY <1>5 DEF LoopPC, Resolving, PC
  <2>4. TypeInv'
    BY <1>1, <2>2, <2>3 DEF Shape, TypeInv, tables
  <2>5. ASSUME NEW i \in 1..Len(stack') PROVE FrameInv(i)'
    <3>1. CASE i = 1
      <4>1. f.next <= Len(f.subs) + 1
        BY <2>1 DEF Frame
      <4> QED
        BY <1>2, <1>3, <2>1, <2>2, <2>3, <3>1, <4>1 DEF FrameInv
    <3>2. CASE i # 1
      <4>1. i \in 2..Len(stack') /\ i - 1 \in 1..Len(stack)
        BY <1>3, <2>2, <3>2
      <4>2. FrameInv(i - 1)
        BY <4>1 DEF Shape, StackInv
      <4>3. stack'[i] = stack[i - 1]
        BY <2>2, <4>1
      <4> QED
        BY <1>1, <1>3, <2>2, <4>1, <4>2, <4>3 DEF FrameInv
    <3> QED
      BY <3>1, <3>2
  <2>6. StackInv'
    BY <1>2, <1>3, <2>2, <2>3, <2>5, ParameterAssumption DEF StackInv
  <2>7. CurInv'
    BY <1>5 DEF CurInv, Resolving
  <2> QED
    BY <1>1, <2>4, <2>6, <2>7 DEF Shape, BoundsOrdered
<1> QED
  BY <1>4, <1>5, BisectStack

(* The end of a loop takes its frame off the stack; it was the last one of  *)
(* a loop over the initial segments.                                        *)
LEMMA EndLoopStack ==
  ASSUME Shape, EndLoop
  PROVE  /\ stack' = Tail(stack) /\ stack' \in Seq(Frame) /\ Len(stack') = Len(stack) - 1
         /\ \A i \in 1..Len(stack') : stack'[i] = stack[i + 1]
         /\ ~Resolving
         /\ \/ /\ Len(stack) = 1 /\ pc' = "done" /\ cur' = cur /\ stack' = << >>
            \/ /\ Len(stack) > 1 /\ Top.split /\ pc' = "stats_src" /\ cur' = cur
            \/ /\ Len(stack) > 1 /\ ~Top.split /\ pc' = "fetch_src"
               /\ cur'.seg = Top.seg /\ cur'.depth = Top.depth
               /\ cur' \in [seg : Segment, depth : Nat, rows : Nat]
<1>1. pc \in LoopPC /\ pc = "stats_src" /\ ~Resolving /\ stack' = Tail(stack)
  BY DEF EndLoop, LoopPC, Resolving
<1>2. /\ stack' \in Seq(Frame) /\ Len(stack') = Len(stack) - 1
      /\ \A i \in 1..(Len(stack) - 1) : stack'[i] = stack[i + 1]
  BY <1>1, InLoop, Popped
<1>3. CASE Top.depth = -1
  <2>1. Len(stack) = 1
    BY <1>1, <1>3, InLoop
  <2>2. pc' = "done" /\ cur' = cur
    BY <1>3 DEF EndLoop
  <2>3. stack' = << >>
    BY <1>2, <2>1
  <2> QED
    BY <1>1, <1>2, <2>1, <2>2, <2>3
<1>4. CASE Top.depth # -1
  <2>1. Len(stack) > 1 /\ Top.depth \in Nat
    BY <1>1, <1>4, InLoop
  <2>2. CASE Top.split
    <3>1. UNCHANGED << pc, cur >>
      BY <1>4, <2>2 DEF EndLoop
    <3> QED
      BY <1>1, <1>2, <2>1, <2>2, <3>1
  <2>3. CASE ~Top.split
    <3>1. cur' = [cur EXCEPT !.seg = Top.seg, !.depth = Top.depth] /\ pc' = "fetch_src"
      BY <1>4, <2>3 DEF EndLoop
    <3>2. /\ cur'.seg = Top.seg /\ cur'.depth = Top.depth
          /\ cur' \in [seg : Segment, depth : Nat, rows : Nat]
      BY <1>1, <2>1, <3>1, InLoop DEF Shape, TypeInv
    <3> QED
      BY <1>1, <1>2, <2>1, <2>3, <3>1, <3>2
  <2> QED
    BY <2>2, <2>3
<1> QED
  BY <1>3, <1>4

LEMMA ShapeEndLoop ==
  ASSUME Shape, EndLoop
  PROVE  Shape'
<1>1. /\ pc \in LoopPC /\ pc = "stats_src"
      /\ UNCHANGED << tables, bounds, seen, result, counted >>
  BY DEF EndLoop, LoopPC
<1>2. /\ stack' \in Seq(Frame) /\ Len(stack') = Len(stack) - 1 /\ Len(stack) \in Nat \ {0}
      /\ \A i \in 1..Len(stack') : stack'[i] = stack[i + 1]
      /\ \/ /\ Len(stack) = 1 /\ pc' = "done" /\ cur' = cur
         \/ /\ Len(stack) > 1 /\ pc' = "stats_src" /\ cur' = cur
         \/ /\ Len(stack) > 1 /\ pc' = "fetch_src" /\ cur'.depth = Top.depth
            /\ cur' \in [seg : Segment, depth : Nat, rows : Nat]
  BY <1>1, EndLoopStack, InLoop
<1>3. pc' \in PC /\ cur' \in [seg : Segment, depth : Nat, rows : Nat]
  BY <1>2 DEF PC, Shape, TypeInv
<1>4. TypeInv'
  BY <1>1, <1>2, <1>3 DEF Shape, TypeInv, tables
<1>5. ASSUME NEW i \in 1..Len(stack') PROVE FrameInv(i)'
  <2>1. i + 1 \in 1..Len(stack) /\ i + 1 > 1
    BY <1>2
  <2>2. FrameInv(i + 1)
    BY <2>1 DEF Shape, StackInv
  <2>3. stack'[i] = stack[i + 1]
    BY <1>2
  <2> QED
    BY <1>2, <2>1, <2>2, <2>3 DEF FrameInv
<1>6. (pc' \in LoopPC) <=> stack' # << >>
  <2>1. stack' = << >> <=> Len(stack') = 0
    BY <1>2
  <2> QED
    BY <1>2, <2>1 DEF LoopPC
<1>7. StackInv'
  <2>1. Len(stack) <= MaxDepth + 1
    BY DEF Shape, StackInv
  <2> QED
    BY <1>2, <1>5, <1>6, <2>1, ParameterAssumption DEF StackInv
<1>8. CurInv'
  <2>1. CASE pc' # "fetch_src"
    BY <1>2, <2>1 DEF CurInv, Resolving
  <2>2. CASE pc' = "fetch_src"
    <3>1. cur'.depth = Len(stack') - 1
      BY <1>1, <1>2, <2>2, InLoop
    <3> QED
      BY <2>2, <3>1 DEF CurInv
  <2> QED
    BY <2>1, <2>2
<1> QED
  BY <1>1, <1>4, <1>7, <1>8 DEF Shape, BoundsOrdered

LEMMA ClassifiedIs ==
  ASSUME NEW r \in Report, NEW s, s \subseteq Row, NEW t, t \subseteq Row
  PROVE  LET q    == Classified(r, s, t)
             room == MaxDiffRows - Cardinality(r.listed)
         IN  /\ q \in Report
             /\ q.sourceCount = r.sourceCount /\ q.targetCount = r.targetCount
             /\ q.missing = r.missing + Cardinality(Missing(s, t))
             /\ q.extra = r.extra + Cardinality(Extra(s, t))
             /\ q.changed = r.changed + Cardinality(Changed(s, t))
             /\ q.listed = r.listed \cup FirstDiffs(RowDiffs(s, t), room)
             /\ q.truncated = (r.truncated \/ Cardinality(RowDiffs(s, t)) > room)
<1> DEFINE q    == Classified(r, s, t)
           room == MaxDiffRows - Cardinality(r.listed)
           m == r.missing + Cardinality(Missing(s, t))
           x == r.extra + Cardinality(Extra(s, t))
           c == r.changed + Cardinality(Changed(s, t))
           l == r.listed \cup FirstDiffs(RowDiffs(s, t), room)
           b == r.truncated \/ Cardinality(RowDiffs(s, t)) > room
<1>1. /\ r.missing \in Nat /\ r.extra \in Nat /\ r.changed \in Nat /\ r.listed \subseteq RowDiff
      /\ r.truncated \in BOOLEAN
  BY DEF Report
<1>2. m \in Nat /\ x \in Nat /\ c \in Nat
  <2>1. /\ Cardinality(Missing(s, t)) \in Nat /\ Cardinality(Extra(s, t)) \in Nat
        /\ Cardinality(Changed(s, t)) \in Nat
    BY KeyAssumption, RowDiffsCount
  <2> QED
    BY <1>1, <2>1
<1>3. l \in SUBSET RowDiff
  BY <1>1, KeyAssumption, RowDiffsCount DEF FirstDiffs
<1>4. b \in BOOLEAN
  OBVIOUS
<1>5. q = [r EXCEPT !.missing = m, !.extra = x, !.changed = c, !.listed = l,
                    !.truncated = b]
  BY Zenon DEF Classified, Report
<1> HIDE DEF m, x, c, l, b, q
<1>6. /\ q \in Report /\ q.missing = m /\ q.extra = x /\ q.changed = c /\ q.listed = l
      /\ q.truncated = b
      /\ q.sourceCount = r.sourceCount /\ q.targetCount = r.targetCount
  BY <1>2, <1>3, <1>4, <1>5 DEF Report
<1> QED
  BY <1>6 DEF m, x, c, l, b, q

(* What a fetch makes of the rows of its segment. *)
Fetched == RowDiffs(seen, RowsIn(tgt, cur.seg))

LEMMA FetchTargetIs ==
  ASSUME Shape, FetchTarget
  PROVE  /\ pc \in LoopPC /\ Resolving /\ pc' = "stats_src" /\ seen' = {}
         /\ UNCHANGED << tables, bounds, stack, cur >>
         /\ seen \subseteq Row /\ Within(seen, cur.seg)
         /\ result \in Report /\ result' \in Report
         /\ result' = Classified(result, seen, RowsIn(tgt, cur.seg))
         /\ RowsIn(tgt, cur.seg) \subseteq Row
         /\ \A d \in Fetched : d.key \in Key /\ InSegment(Lead[d.key], cur.seg)
         /\ counted' \in [Key -> Nat]
         /\ \A k \in Key : counted'[k] = IF \E d \in Fetched : d.key = k
                                         THEN counted[k] + 1 ELSE counted[k]
<1> DEFINE rows == RowsIn(tgt, cur.seg)
           more(k) == Cardinality({ d \in Fetched : d.key = k })
<1>1. /\ pc = "fetch_tgt" /\ pc' = "stats_src" /\ seen' = {}
      /\ pc \in LoopPC /\ Resolving
      /\ UNCHANGED << tables, bounds, stack, cur >>
      /\ result' = Classified(result, seen, rows)
  BY DEF FetchTarget, LoopPC, Resolving
<1>2. counted' = [k \in Key |-> counted[k] + more(k)]
  BY DEF FetchTarget, Fetched
<1>3. /\ seen \subseteq Row /\ Within(seen, cur.seg)
      /\ rows \subseteq Row /\ Within(rows, cur.seg)
  BY <1>1, RowsInType DEF Shape, TypeInv, CurInv
<1>4. result \in Report /\ counted \in [Key -> Nat]
  BY DEF Shape, TypeInv, Report
<1>5. result' \in Report
  BY <1>1, <1>3, <1>4, ClassifiedIs
<1> HIDE DEF rows
<1>6. ASSUME NEW d \in RowDiffs(seen, rows)
      PROVE  d.key \in Key /\ InSegment(Lead[d.key], cur.seg)
  <2>1. d.key \in KeysOf(seen) \/ d.key \in KeysOf(rows)
    BY RowDiffMembers DEF Missing, Extra, Changed
  <2>2. PICK r \in seen \cup rows : r[1] = d.key
    BY <2>1 DEF KeysOf
  <2>3. r \in Row /\ InSegment(Lead[r[1]], cur.seg)
    BY <1>3, <2>2 DEF Within
  <2> QED
    BY <2>2, <2>3 DEF Row
<1>7. ASSUME NEW k \in Key
      PROVE  more(k) = IF \E d \in Fetched : d.key = k THEN 1 ELSE 0
  <2>1. more(k) = Cardinality(DiffsWith(seen, RowsIn(tgt, cur.seg), k))
    BY DEF DiffsWith, Fetched
  <2> QED
    BY <2>1, DiffsOfKey DEF Fetched
<1> HIDE DEF more
<1>8. ASSUME NEW k \in Key
      PROVE  counted'[k] = IF \E d \in Fetched : d.key = k THEN counted[k] + 1 ELSE counted[k]
  <2>1. counted'[k] = counted[k] + more(k) /\ counted[k] \in Nat
    BY <1>2, <1>4
  <2> QED
    BY <1>7, <2>1
<1>9. counted' \in [Key -> Nat]
  BY <1>2, <1>4, <1>7
<1> QED
  BY <1>1, <1>3, <1>4, <1>5, <1>6, <1>8, <1>9 DEF rows, Fetched

LEMMA ShapeFetchTarget ==
  ASSUME Shape, FetchTarget
  PROVE  Shape'
<1>1. /\ pc \in LoopPC /\ pc' = "stats_src" /\ seen' = {}
      /\ UNCHANGED << tables, bounds, stack, cur >>
      /\ result' \in Report /\ counted' \in [Key -> Nat]
  BY FetchTargetIs
<1>2. CurInv' /\ ~Resolving' /\ pc' \in LoopPC
  BY <1>1 DEF CurInv, Resolving, LoopPC
<1> QED
  BY <1>1, <1>2, InLoop, ShapeSameStack

(* A write changes one key of one table. *)
LEMMA WriteIs ==
  ASSUME Shape, Write
  PROVE  /\ src' \in Table /\ tgt' \in Table /\ touched' \subseteq Key
         /\ touched \subseteq touched' /\ writes' \in Nat
         /\ \A k \in Key \ touched' : src'[k] = src[k] /\ tgt'[k] = tgt[k]
         /\ UNCHANGED << numeric, pc, bounds, stack, cur, seen, result, counted >>
<1>1. PICK k \in Key, vs \in { {} } \cup { {v} : v \in Val } :
        /\ \/ src' = [src EXCEPT ![k] = vs] /\ tgt' = tgt
           \/ tgt' = [tgt EXCEPT ![k] = vs] /\ src' = src
        /\ touched' = touched \cup {k}
  BY DEF Write
<1>2. vs \in SUBSET Val
  OBVIOUS
<1>3. /\ src \in [Key -> SUBSET Val] /\ tgt \in [Key -> SUBSET Val]
      /\ touched \subseteq Key /\ writes \in Nat
  BY DEF Shape, TypeInv, Table
<1>4. src' \in Table /\ tgt' \in Table
  BY <1>1, <1>2, <1>3 DEF Table
<1>5. \A j \in Key \ {k} : src'[j] = src[j] /\ tgt'[j] = tgt[j]
  BY <1>1, <1>3
<1>6. touched' \subseteq Key /\ touched \subseteq touched' /\ k \in touched'
  BY <1>1, <1>3
<1>7. writes' \in Nat
  BY <1>3 DEF Write
<1>8. UNCHANGED << numeric, pc, bounds, stack, cur, seen, result, counted >>
  BY DEF Write
<1> QED
  BY <1>4, <1>5, <1>6, <1>7, <1>8

LEMMA ShapeWrite ==
  ASSUME Shape, Write
  PROVE  Shape'
<1>1. /\ src' \in Table /\ tgt' \in Table /\ touched' \subseteq Key /\ writes' \in Nat
      /\ UNCHANGED << numeric, pc, bounds, stack, cur, seen, result, counted >>
  BY WriteIs
<1>2. TypeInv'
  BY <1>1 DEF Shape, TypeInv
<1>3. BoundsOrdered' /\ Resolving' = Resolving /\ Top' = Top
  BY <1>1 DEF Shape, BoundsOrdered, Resolving, Top
<1>4. StackInv'
  BY <1>1, <1>3 DEF Shape, StackInv, FrameInv
<1>5. CurInv'
  BY <1>1, <1>3 DEF Shape, CurInv, Within
<1> QED
  BY <1>2, <1>3, <1>4, <1>5 DEF Shape

LEMMA ShapeUnchanged ==
  ASSUME Shape, UNCHANGED vars
  PROVE  Shape'
<1>1. /\ UNCHANGED << src, tgt, numeric, writes, touched >>
      /\ UNCHANGED << pc, bounds, stack, cur, seen, result, counted >>
  BY DEF vars, tables
<1>2. Resolving' = Resolving /\ Top' = Top
  BY <1>1 DEF Resolving, Top
<1>3. StackInv'
  BY <1>1, <1>2 DEF Shape, StackInv, FrameInv
<1>4. CurInv'
  BY <1>1, <1>2 DEF Shape, CurInv, Within
<1> QED
  BY <1>1, <1>3, <1>4 DEF Shape, BoundsOrdered, TypeInv

LEMMA ShapeStep == Shape /\ [Next]_vars => Shape'
<1> SUFFICES ASSUME Shape, [Next]_vars PROVE Shape'
  OBVIOUS
<1>1. CASE UniqueSource \/ UniqueTarget
  BY <1>1, ShapeUnique
<1>2. CASE BoundsSource
  BY <1>2, ShapeBoundsSource
<1>3. CASE BoundsTarget
  BY <1>3, ShapeBoundsTarget
<1>4. CASE Segmentise
  BY <1>4, ShapeSegmentise
<1>5. CASE StatsSource
  BY <1>5, ShapeStatsSource
<1>6. CASE StatsTarget
  BY <1>6, ShapeStatsTarget
<1>7. CASE BisectSegment
  BY <1>7, ShapeBisect
<1>8. CASE EndLoop
  BY <1>8, ShapeEndLoop
<1>9. CASE FetchSource
  BY <1>9, ShapeFetchSource
<1>10. CASE FetchTarget
  BY <1>10, ShapeFetchTarget
<1>11. CASE Write
  BY <1>11, ShapeWrite
<1>12. CASE UNCHANGED vars
  BY <1>12, ShapeUnchanged
<1> QED
  BY <1>1, <1>2, <1>3, <1>4, <1>5, <1>6, <1>7, <1>8, <1>9, <1>10, <1>11, <1>12
     DEF Next, Query, Terminated

-------------------------------------------------------------------------------
(* The segments in progress are nested: the keys of a loop's parts are keys *)
(* of the segment it resolves, each in one part, and every loop further     *)
(* down the stack stands at the segment that the loops above it resolve.    *)
In(k, seg) == InSegment(Lead[k], seg)

KeysApart(segs) ==
  \A k \in Key : \A m, n \in 1..Len(segs) :
    In(k, segs[m]) /\ In(k, segs[n]) => m = n

Parts(f) == \A k \in Key : \A m \in 1..Len(f.subs) : In(k, f.subs[m]) => In(k, f.seg)

Standing(seg, f) == \A k \in Key : In(k, seg) => In(k, f.subs[f.next - 1])

NestInv ==
  /\ \A i \in 1..Len(stack) : KeysApart(stack[i].subs)
  /\ \A i \in 1..(Len(stack) - 1) : Parts(stack[i])
  /\ \A i, j \in 1..Len(stack) : i < j => Standing(stack[i].seg, stack[j])
  /\ Resolving => \A i \in 1..Len(stack) : Standing(cur.seg, stack[i])

LEMMA NestEmpty == ASSUME stack = << >> PROVE NestInv
<1>1. Len(stack) = 0
  OBVIOUS
<1> QED
  BY <1>1 DEF NestInv

LEMMA NestSame ==
  ASSUME NestInv, stack' = stack, Resolving' => Resolving /\ cur' = cur
  PROVE  NestInv'
BY DEF NestInv

LEMMA ApartKeys == ASSUME NEW segs, Apart(segs) PROVE KeysApart(segs)
BY LeadType DEF Apart, KeysApart, In

LEMMA NestSegmentise ==
  ASSUME Shape, Segmentise
  PROVE  NestInv'
<1>1. PICK f \in Frame : stack' = << f >> /\ Apart(f.subs)
  BY SegmentiseStack
<1>2. Len(stack') = 1 /\ stack'[1] = f
  BY <1>1
<1>3. ~Resolving'
  BY DEF Segmentise, Resolving
<1> QED
  BY <1>1, <1>2, <1>3, ApartKeys DEF NestInv

LEMMA NestStatsTarget ==
  ASSUME Shape, NestInv, StatsTarget
  PROVE  NestInv'
<1>1. /\ stack' \in Seq(Frame) /\ Len(stack') = Len(stack)
      /\ stack'[1].subs = stack[1].subs /\ stack'[1].seg = stack[1].seg
      /\ stack'[1].next = stack[1].next + 1
      /\ \A i \in 2..Len(stack) : stack'[i] = stack[i]
  BY StatsTargetStack
<1>2. /\ pc \in LoopPC
      /\ Resolving' => cur'.seg = Top.subs[Top.next]
      /\ Top.next <= Len(Top.subs)
  BY DEF StatsTarget, LoopPC, Resolving, Shape, CurInv
<1>3. Top = stack[1] /\ stack[1].next \in Nat \ {0} /\ Len(stack) \in Nat \ {0}
      /\ stack[1].next \in 1..Len(stack[1].subs)
  BY <1>2, InLoop
<1>4. ASSUME NEW i \in 1..Len(stack)
      PROVE  /\ stack'[i].subs = stack[i].subs /\ stack'[i].seg = stack[i].seg
             /\ i \in 2..Len(stack) => stack'[i] = stack[i]
  <2>1. i = 1 \/ i \in 2..Len(stack)
    BY <1>3
  <2> QED
    BY <1>1, <2>1
<1>5. \A i \in 1..Len(stack') : KeysApart(stack'[i].subs)
  BY <1>1, <1>4 DEF NestInv
<1>6. \A i \in 1..(Len(stack') - 1) : Parts(stack'[i])
  <2>1. 1..(Len(stack') - 1) \subseteq 1..Len(stack)
    BY <1>1, <1>3
  <2> QED
    BY <1>1, <1>4, <2>1 DEF NestInv, Parts
<1>7. ASSUME NEW i \in 1..Len(stack'), NEW j \in 1..Len(stack'), i < j
      PROVE  Standing(stack'[i].seg, stack'[j])
  <2>1. j \in 2..Len(stack) /\ i \in 1..Len(stack) /\ j \in 1..Len(stack)
    BY <1>1, <1>3, <1>7
  <2> QED
    BY <1>4, <1>7, <2>1 DEF NestInv
<1>8. ASSUME Resolving', NEW i \in 1..Len(stack')
      PROVE  Standing(cur'.seg, stack'[i])
  <2>1. cur'.seg = stack[1].subs[stack[1].next]
    BY <1>2, <1>3, <1>8
  <2>2. CASE i = 1
    <3>1. stack'[1].next - 1 = stack[1].next
      BY <1>1, <1>3
    <3> QED
      BY <1>1, <2>1, <2>2, <3>1 DEF Standing
  <2>3. CASE i # 1
    <3>1. i \in 2..Len(stack) /\ 1 \in 1..(Len(stack) - 1) /\ 1 < i
          /\ i \in 1..Len(stack) /\ 1 \in 1..Len(stack)
      BY <1>1, <1>3, <2>3
    <3>2. Parts(stack[1]) /\ Standing(stack[1].seg, stack[i])
      BY <3>1 DEF NestInv
    <3>3. Standing(cur'.seg, stack[i])
      BY <1>3, <2>1, <3>2 DEF Parts, Standing
    <3> QED
      BY <1>1, <3>1, <3>3
  <2> QED
    BY <2>2, <2>3
<1> QED
  BY <1>5, <1>6, <1>7, <1>8 DEF NestInv

LEMMA NestBisect ==
  ASSUME Shape, NestInv, BisectSegment
  PROVE  NestInv'
<1>1. pc \in LoopPC /\ Resolving /\ cur' = cur
  BY DEF BisectSegment, LoopPC, Resolving
<1>2. CASE stack' = stack
  BY <1>1, <1>2, NestSame
<1>3. CASE stack' # stack
  <2>1. PICK f \in Frame :
          /\ stack' = << f >> \o stack /\ f.seg = cur.seg /\ Apart(f.subs)
          /\ \A x \in Bound : Owned(x, f.subs) <=> InSegment(x, cur.seg)
    BY <1>3, BisectStack
  <2>2. stack \in Seq(Frame) /\ Len(stack) \in Nat \ {0}
    BY <1>1, InLoop
  <2>3. /\ Len(stack') = Len(stack) + 1 /\ stack'[1] = f
        /\ \A i \in 2..Len(stack') : stack'[i] = stack[i - 1]
    BY <2>1, <2>2, Pushed
  <2>4. ~Resolving'
    BY <1>3, BisectStack DEF Resolving
  <2>5. KeysApart(f.subs)
    BY <2>1, ApartKeys
  <2>6. Parts(f)
    <3> SUFFICES ASSUME NEW k \in Key, NEW m \in 1..Len(f.subs), In(k, f.subs[m])
                 PROVE  In(k, f.seg)
      BY DEF Parts
    <3>1. Owned(Lead[k], f.subs) /\ Lead[k] \in Bound
      BY LeadType DEF Owned, In
    <3> QED
      BY <2>1, <3>1 DEF In
  <2>7. ASSUME NEW i \in 2..Len(stack')
        PROVE  i - 1 \in 1..Len(stack) /\ stack'[i] = stack[i - 1]
               /\ (i < Len(stack') => i - 1 \in 1..(Len(stack) - 1))
    BY <2>2, <2>3
  <2>8. \A i \in 1..Len(stack') : KeysApart(stack'[i].subs)
    <3> SUFFICES ASSUME NEW i \in 1..Len(stack') PROVE KeysApart(stack'[i].subs)
      OBVIOUS
    <3>1. i = 1 \/ i \in 2..Len(stack')
      BY <2>2, <2>3
    <3> QED
      BY <2>3, <2>5, <2>7, <3>1 DEF NestInv
  <2>9. \A i \in 1..(Len(stack') - 1) : Parts(stack'[i])
    <3> SUFFICES ASSUME NEW i \in 1..(Len(stack') - 1) PROVE Parts(stack'[i])
      OBVIOUS
    <3>1. i = 1 \/ (i \in 2..Len(stack') /\ i < Len(stack'))
      BY <2>2, <2>3
    <3> QED
      BY <2>3, <2>6, <2>7, <3>1 DEF NestInv
  <2>10. ASSUME NEW i \in 1..Len(stack'), NEW j \in 1..Len(stack'), i < j
         PROVE  Standing(stack'[i].seg, stack'[j])
    <3>1. j \in 2..Len(stack')
      BY <2>2, <2>3, <2>10
    <3>2. CASE i = 1
      BY <1>1, <2>1, <2>3, <2>7, <3>1, <3>2 DEF NestInv
    <3>3. CASE i # 1
      <4>1. i \in 2..Len(stack') /\ i - 1 < j - 1
        BY <2>2, <2>3, <2>10, <3>3
      <4>2. i - 1 \in 1..Len(stack) /\ j - 1 \in 1..Len(stack)
            /\ stack'[i] = stack[i - 1] /\ stack'[j] = stack[j - 1]
        BY <2>7, <3>1, <4>1
      <4> QED
        BY <4>1, <4>2 DEF NestInv
    <3> QED
      BY <3>2, <3>3
  <2> QED
    BY <2>4, <2>8, <2>9, <2>10 DEF NestInv
<1> QED
  BY <1>2, <1>3

LEMMA NestEndLoop ==
  ASSUME Shape, NestInv, EndLoop
  PROVE  NestInv'
<1>1. /\ stack' \in Seq(Frame) /\ Len(stack') = Len(stack) - 1
      /\ \A i \in 1..Len(stack') : stack'[i] = stack[i + 1]
      /\ Resolving' => cur'.seg = Top.seg
  BY EndLoopStack DEF Resolving
<1>2. pc \in LoopPC
  BY DEF EndLoop, LoopPC
<1>3. Len(stack) \in Nat \ {0} /\ Top = stack[1]
  BY <1>2, InLoop
<1>4. ASSUME NEW i \in 1..Len(stack')
      PROVE  /\ i + 1 \in 1..Len(stack) /\ stack'[i] = stack[i + 1]
             /\ i < Len(stack') => i + 1 \in 1..(Len(stack) - 1)
             /\ 1 < i + 1 /\ 1 \in 1..Len(stack)
  BY <1>1, <1>3
<1>5. \A i \in 1..Len(stack') : KeysApart(stack'[i].subs)
  BY <1>4 DEF NestInv
<1>6. \A i \in 1..(Len(stack') - 1) : Parts(stack'[i])
  <2> SUFFICES ASSUME NEW i \in 1..(Len(stack') - 1) PROVE Parts(stack'[i])
    OBVIOUS
  <2>1. i \in 1..Len(stack') /\ i < Len(stack')
    BY <1>1, <1>3
  <2> QED
    BY <1>4, <2>1 DEF NestInv
<1>7. ASSUME NEW i \in 1..Len(stack'), NEW j \in 1..Len(stack'), i < j
      PROVE  Standing(stack'[i].seg, stack'[j])
  <2>1. i + 1 < j + 1
    BY <1>7
  <2> QED
    BY <1>4, <2>1 DEF NestInv
<1>8. ASSUME Resolving', NEW i \in 1..Len(stack')
      PROVE  Standing(cur'.seg, stack'[i])
  BY <1>1, <1>3, <1>4, <1>8 DEF NestInv
<1> QED
  BY <1>5, <1>6, <1>7, <1>8 DEF NestInv

(* The queries before the loop, and those that leave the stack alone.       *)
LEMMA QuietSteps ==
  ASSUME Shape,
         \/ UniqueSource \/ UniqueTarget \/ BoundsSource \/ BoundsTarget
         \/ StatsSource \/ FetchSource \/ FetchTarget \/ Write \/ UNCHANGED vars
  PROVE  stack' = stack /\ cur' = cur /\ (Resolving' => Resolving)
BY DEF UniqueSource, UniqueTarget, BoundsSource, BoundsTarget, StatsSource,
       FetchSource, FetchTarget, Write, vars, Resolving

LEMMA NestStep == Shape /\ NestInv /\ [Next]_vars => NestInv'
<1> SUFFICES ASSUME Shape, NestInv, [Next]_vars PROVE NestInv'
  OBVIOUS
<1>1. CASE \/ UniqueSource \/ UniqueTarget \/ BoundsSource \/ BoundsTarget
           \/ StatsSource \/ FetchSource \/ FetchTarget \/ Write \/ UNCHANGED vars
  BY <1>1, QuietSteps, NestSame
<1> QED
  BY <1>1, NestSegmentise, NestStatsTarget, NestBisect, NestEndLoop
     DEF Next, Query, Terminated

-------------------------------------------------------------------------------
(* Keys still to be looked at: in a segment some loop has ahead of it, in   *)
(* the one whose rows are to be compared, or in one that may yet be fetched *)
(* as a whole because its parts all agreed.                                 *)
Ahead(k) == \E i \in 1..Len(stack) :
              \E m \in stack[i].next..Len(stack[i].subs) : In(k, stack[i].subs[m])

InHand(k) == Resolving /\ In(k, cur.seg)

Spare(k) == Len(stack) > 1 /\ ~Top.split /\ In(k, Top.seg)

Due(k) == Ahead(k) \/ InHand(k) \/ Spare(k)

LEMMA DueQuiet ==
  ASSUME NEW k \in Key,
         stack' = stack, cur' = cur, Resolving' = Resolving
  PROVE  (Due(k)' <=> Due(k)) /\ (Ahead(k)' <=> Ahead(k)) /\ (InHand(k)' <=> InHand(k))
<1>1. Top' = Top
  BY DEF Top
<1> QED
  BY <1>1 DEF Due, Ahead, InHand, Spare

LEMMA DueStats ==
  ASSUME Shape, NestInv, StatsTarget, NEW k \in Key
  PROVE  /\ Due(k)' => Due(k)
         /\ Ahead(k) => Ahead(k)' \/ In(k, Top.subs[Top.next])
         /\ In(k, Top.subs[Top.next]) =>
              InHand(k)' \/ StatsEqual(seen, RowsIn(tgt, Top.subs[Top.next]))
<1> DEFINE sub == Top.subs[Top.next]
           equal == StatsEqual(seen, RowsIn(tgt, sub))
<1>1. /\ stack' \in Seq(Frame) /\ Len(stack') = Len(stack)
      /\ Top' = stack'[1]
      /\ stack'[1].subs = stack[1].subs /\ stack'[1].seg = stack[1].seg
      /\ stack'[1].next = stack[1].next + 1
      /\ stack'[1].split <=> stack[1].split \/
                               ~StatsEqual(seen, RowsIn(tgt, stack[1].subs[stack[1].next]))
      /\ \A i \in 2..Len(stack) : stack'[i] = stack[i]
  BY StatsTargetStack
<1>2. /\ pc \in LoopPC /\ ~Resolving
      /\ Top.next <= Len(Top.subs)
      /\ IF equal THEN ~Resolving' ELSE Resolving' /\ cur'.seg = sub
  BY DEF StatsTarget, LoopPC, Resolving, Shape, CurInv
<1> HIDE DEF equal
<1>3. /\ Top = stack[1] /\ stack[1].next \in Nat \ {0} /\ Len(stack) \in Nat \ {0}
      /\ stack[1].next \in stack[1].next..Len(stack[1].subs)
      /\ Top.subs \in Seq(Segment)
  BY <1>2, InLoop
<1>4. ASSUME NEW i \in 1..Len(stack)
      PROVE  /\ stack'[i].subs = stack[i].subs
             /\ stack'[i].next..Len(stack'[i].subs) \subseteq
                  stack[i].next..Len(stack[i].subs)
             /\ \A m \in stack[i].next..Len(stack[i].subs) :
                  \/ m \in stack'[i].next..Len(stack'[i].subs)
                  \/ i = 1 /\ m = Top.next
  <2>1. CASE i = 1
    BY <1>1, <1>3, <2>1
  <2>2. CASE i # 1
    <3>1. stack'[i] = stack[i]
      BY <1>1, <1>3, <2>2
    <3> QED
      BY <3>1
  <2> QED
    BY <2>1, <2>2
<1>5. Ahead(k)' => Ahead(k)
  BY <1>1, <1>4 DEF Ahead
<1>6. In(k, sub) => Ahead(k)
  BY <1>3 DEF Ahead
<1>7. InHand(k)' => Ahead(k)
  BY <1>2, <1>6 DEF InHand
<1>8. Spare(k)' => Spare(k)
  BY <1>1, <1>3 DEF Spare
<1>9. ASSUME Ahead(k) PROVE Ahead(k)' \/ In(k, sub)
  <2>1. PICK i \in 1..Len(stack) :
          \E m \in stack[i].next..Len(stack[i].subs) : In(k, stack[i].subs[m])
    BY <1>9 DEF Ahead
  <2>2. PICK m \in stack[i].next..Len(stack[i].subs) : In(k, stack[i].subs[m])
    BY <2>1
  <2>3. CASE i = 1 /\ m = Top.next
    BY <1>3, <2>2, <2>3
  <2>4. CASE m \in stack'[i].next..Len(stack'[i].subs)
    BY <1>1, <1>4, <2>2, <2>4 DEF Ahead
  <2> QED
    BY <1>4, <2>3, <2>4
<1>10. In(k, sub) => InHand(k)' \/ equal
  BY <1>2 DEF InHand
<1> QED
  BY <1>5, <1>7, <1>8, <1>9, <1>10 DEF Due, equal

LEMMA DueBisect ==
  ASSUME Shape, NestInv, BisectSegment, NEW k \in Key
  PROVE  /\ Due(k)' => Due(k)
         /\ Ahead(k) => Ahead(k)'
         /\ InHand(k) => Ahead(k)' \/ InHand(k)'
<1>1. pc \in LoopPC /\ Resolving /\ cur' = cur
  BY DEF BisectSegment, LoopPC, Resolving
<1>2. CASE stack' = stack
  <2>1. Resolving'
    <3>1. pc' = "fetch_src" \/ \E f \in Frame : stack' = << f >> \o stack
      BY BisectStack
    <3>2. ASSUME NEW f \in Frame PROVE << f >> \o stack # stack
      <4>1. Len(<< f >> \o stack) = Len(stack) + 1 /\ Len(stack) \in Nat
        BY <1>1, InLoop, Pushed
      <4> QED
        BY <4>1
    <3> QED
      BY <1>2, <3>1, <3>2 DEF Resolving
  <2> QED
    BY <1>1, <1>2, <2>1, DueQuiet
<1>3. CASE stack' # stack
  <2>1. PICK f \in Frame :
          /\ stack' = << f >> \o stack /\ f.seg = cur.seg /\ f.next = 1
          /\ \A x \in Bound : Owned(x, f.subs) <=> InSegment(x, cur.seg)
    BY <1>3, BisectStack
  <2>2. stack \in Seq(Frame) /\ Len(stack) \in Nat \ {0}
    BY <1>1, InLoop
  <2>3. /\ Len(stack') = Len(stack) + 1 /\ stack'[1] = f /\ Head(stack') = f
        /\ \A i \in 1..Len(stack) : stack'[i + 1] = stack[i]
        /\ \A i \in 2..Len(stack') : stack'[i] = stack[i - 1]
    BY <2>1, <2>2, Pushed
  <2>4. ~Resolving'
    BY <1>3, BisectStack DEF Resolving
  <2>5. In(k, cur.seg) <=> \E m \in 1..Len(f.subs) : In(k, f.subs[m])
    BY <2>1, LeadType DEF Owned, In
  <2>6. ASSUME Ahead(k)' PROVE Ahead(k) \/ InHand(k)
    <3>1. PICK i \in 1..Len(stack') :
            \E m \in stack'[i].next..Len(stack'[i].subs) : In(k, stack'[i].subs[m])
      BY <2>6 DEF Ahead
    <3>2. CASE i = 1
      BY <1>1, <2>1, <2>3, <2>5, <3>1, <3>2 DEF InHand
    <3>3. CASE i # 1
      <4>1. i - 1 \in 1..Len(stack) /\ stack'[i] = stack[i - 1]
        BY <2>2, <2>3, <3>3
      <4> QED
        BY <3>1, <4>1 DEF Ahead
    <3> QED
      BY <3>2, <3>3
  <2>7. Spare(k)' => InHand(k)
    BY <1>1, <2>1, <2>3 DEF Spare, InHand, Top
  <2>8. ASSUME Ahead(k) PROVE Ahead(k)'
    <3>1. PICK i \in 1..Len(stack) :
            \E m \in stack[i].next..Len(stack[i].subs) : In(k, stack[i].subs[m])
      BY <2>8 DEF Ahead
    <3>2. i + 1 \in 1..Len(stack') /\ stack'[i + 1] = stack[i]
      BY <2>2, <2>3
    <3> QED
      BY <3>1, <3>2 DEF Ahead
  <2>9. ASSUME InHand(k) PROVE Ahead(k)'
    <3>1. \E m \in f.next..Len(f.subs) : In(k, f.subs[m])
      BY <2>1, <2>5, <2>9 DEF InHand
    <3>2. 1 \in 1..Len(stack')
      BY <2>2, <2>3
    <3> QED
      BY <2>3, <3>1, <3>2 DEF Ahead
  <2> QED
    BY <2>4, <2>6, <2>7, <2>8, <2>9 DEF Due, InHand
<1> QED
  BY <1>2, <1>3

LEMMA DueEndLoop ==
  ASSUME Shape, NestInv, EndLoop, NEW k \in Key
  PROVE  /\ Due(k)' => Due(k)
         /\ Ahead(k) => Ahead(k)'
         /\ ~InHand(k)
         /\ pc' = "done" => ~Ahead(k)
<1>1. /\ stack' \in Seq(Frame) /\ Len(stack') = Len(stack) - 1 /\ stack' = Tail(stack)
      /\ \A i \in 1..Len(stack') : stack'[i] = stack[i + 1]
      /\ Resolving' => cur'.seg = Top.seg /\ Len(stack) > 1 /\ ~Top.split
      /\ ~Resolving
      /\ pc' = "done" => Len(stack') = 0
  BY EndLoopStack DEF Resolving
<1>2. pc \in LoopPC /\ Top.next > Len(Top.subs)
  BY DEF EndLoop, LoopPC
<1>3. /\ Len(stack) \in Nat \ {0} /\ Top = stack[1] /\ Top.next \in Nat \ {0}
      /\ Top.subs \in Seq(Segment)
  BY <1>2, InLoop
<1>4. Ahead(k)' => Ahead(k)
  <2>1. \A i \in 1..Len(stack') : i + 1 \in 1..Len(stack)
    BY <1>1, <1>3
  <2> QED
    BY <1>1, <2>1 DEF Ahead
<1>5. ASSUME Ahead(k) PROVE Ahead(k)'
  <2>1. PICK i \in 1..Len(stack) :
          \E m \in stack[i].next..Len(stack[i].subs) : In(k, stack[i].subs[m])
    BY <1>5 DEF Ahead
  <2>2. i # 1
    BY <1>2, <1>3, <2>1
  <2>3. i - 1 \in 1..Len(stack') /\ (i - 1) + 1 = i
    BY <1>1, <1>3, <2>2
  <2>4. stack'[i - 1] = stack[i]
    BY <1>1, <2>3
  <2> QED
    BY <2>1, <2>3, <2>4 DEF Ahead
<1>6. InHand(k)' => Spare(k)
  BY <1>1 DEF InHand, Spare
<1>7. ~Spare(k)'
  <2> SUFFICES ASSUME Len(stack') > 1 PROVE Top'.split
    BY DEF Spare
  <2>0. stack' # << >>
    OBVIOUS
  <2>1. 2 \in 1..Len(stack) /\ 1 \in 1..Len(stack') /\ 2 > 1 /\ stack' # << >>
    BY <1>1, <1>3, <2>0
  <2>2. FrameInv(2)
    BY <2>1 DEF Shape, StackInv
  <2>3. stack[2].split
    BY <2>1, <2>2 DEF FrameInv
  <2>4. stack'[1] = stack[2]
    BY <1>1, <2>1
  <2>5. Top' = stack'[1]
    BY <1>1, <2>1, Popped DEF Top
  <2> QED
    BY <2>3, <2>4, <2>5
<1>8. pc' = "done" => ~Ahead(k)'
  BY <1>1 DEF Ahead
<1> QED
  BY <1>1, <1>4, <1>5, <1>6, <1>7, <1>8 DEF Due, InHand

(* The keys of the segment whose rows are fetched are nowhere else due.     *)
LEMMA DueFetch ==
  ASSUME Shape, NestInv, FetchTarget, NEW k \in Key
  PROVE  /\ Due(k)' => Due(k) /\ ~In(k, cur.seg)
         /\ Ahead(k) => Ahead(k)'
         /\ InHand(k) <=> In(k, cur.seg)
<1>1. /\ pc \in LoopPC /\ Resolving /\ pc' = "stats_src" /\ stack' = stack /\ cur' = cur
  BY FetchTargetIs
<1>2. ~Resolving' /\ Top' = Top
  BY <1>1 DEF Resolving, Top
<1>3. Len(stack) \in Nat \ {0} /\ Top = stack[1] /\ Top.split
  <2>1. Len(stack) \in Nat \ {0} /\ Top = stack[1]
    BY <1>1, InLoop
  <2>2. FrameInv(1)
    BY <2>1 DEF Shape, StackInv
  <2> QED
    BY <1>1, <2>1, <2>2 DEF FrameInv
<1>4. Ahead(k)' <=> Ahead(k)
  BY <1>1 DEF Ahead
<1>5. ASSUME Ahead(k), In(k, cur.seg) PROVE FALSE
  <2>1. PICK i \in 1..Len(stack) :
          \E m \in stack[i].next..Len(stack[i].subs) : In(k, stack[i].subs[m])
    BY <1>5 DEF Ahead
  <2>2. PICK m \in stack[i].next..Len(stack[i].subs) : In(k, stack[i].subs[m])
    BY <2>1
  <2>3. In(k, stack[i].subs[stack[i].next - 1])
    BY <1>1, <1>5 DEF NestInv, Standing
  <2>4. FrameInv(i) /\ KeysApart(stack[i].subs)
    BY DEF Shape, StackInv, NestInv
  <2>5. stack[i] \in Frame
    BY DEF Shape, TypeInv
  <2>6. /\ stack[i].next \in Nat /\ stack[i].next >= 2
        /\ stack[i].next <= Len(stack[i].subs) + 1
        /\ Len(stack[i].subs) \in Nat
    BY <1>1, <2>4, <2>5 DEF FrameInv, Frame
  <2>7. m \in 1..Len(stack[i].subs) /\ stack[i].next - 1 \in 1..Len(stack[i].subs)
        /\ m # stack[i].next - 1
    BY <2>6
  <2> QED
    BY <2>2, <2>3, <2>4, <2>7 DEF KeysApart
<1> QED
  BY <1>1, <1>2, <1>3, <1>4, <1>5 DEF Due, InHand, Spare

-------------------------------------------------------------------------------
(* How often a key is counted: at most once, and never while it is due. *)
Early == pc \notin LoopPC \cup {"done"}

CountInv ==
  \A k \in Key : /\ counted[k] <= 1
                 /\ Early \/ Due(k) => counted[k] = 0

LEMMA CountSame ==
  ASSUME CountInv, counted' = counted, Early' => Early,
         \A k \in Key : Due(k)' => Early \/ Due(k)
  PROVE  CountInv'
BY DEF CountInv

LEMMA CountStep == Shape /\ NestInv /\ CountInv /\ [Next]_vars => CountInv'
<1> SUFFICES ASSUME Shape, NestInv, CountInv, [Next]_vars PROVE CountInv'
  OBVIOUS
<1>1. CASE UniqueSource \/ UniqueTarget \/ BoundsSource \/ BoundsTarget \/ Segmentise
  <2>1. Early /\ counted' = counted
    BY <1>1 DEF UniqueSource, UniqueTarget, BoundsSource, BoundsTarget, Segmentise,
                Early, LoopPC
  <2> QED
    BY <2>1, CountSame
<1>2. CASE StatsSource \/ FetchSource \/ Write \/ UNCHANGED vars
  <2>1. /\ stack' = stack /\ cur' = cur /\ Resolving' = Resolving /\ counted' = counted
        /\ Early' => Early
    BY <1>2 DEF StatsSource, FetchSource, Write, vars, Resolving, Early, LoopPC
  <2> QED
    BY <2>1, DueQuiet, CountSame
<1>3. CASE StatsTarget \/ BisectSegment \/ EndLoop
  <2>1. counted' = counted
    BY <1>3 DEF StatsTarget, BisectSegment, EndLoop
  <2>2. ~Early'
    <3>1. CASE StatsTarget
      BY <3>1 DEF StatsTarget, Early, LoopPC
    <3>2. CASE BisectSegment
      BY <3>2, BisectStack DEF Early, LoopPC
    <3>3. CASE EndLoop
      BY <3>3, EndLoopStack DEF Early, LoopPC
    <3> QED
      BY <1>3, <3>1, <3>2, <3>3
  <2> QED
    BY <1>3, <2>1, <2>2, CountSame, DueStats, DueBisect, DueEndLoop
<1>4. CASE FetchTarget
  <2> SUFFICES ASSUME NEW k \in Key
               PROVE  counted'[k] <= 1 /\ (Early' \/ Due(k)' => counted'[k] = 0)
    BY DEF CountInv
  <2>1. ~Early'
    BY <1>4, FetchTargetIs DEF Early, LoopPC
  <2>2. counted[k] <= 1 /\ (Due(k) => counted[k] = 0)
    BY DEF CountInv
  <2>3. Due(k)' => Due(k) /\ ~In(k, cur.seg)
    BY <1>4, DueFetch
  <2>4. In(k, cur.seg) => Due(k)
    BY <1>4, DueFetch DEF Due
  <2>5. /\ counted'[k] = IF \E d \in Fetched : d.key = k
                         THEN counted[k] + 1 ELSE counted[k]
        /\ (\E d \in Fetched : d.key = k) => In(k, cur.seg)
    BY <1>4, FetchTargetIs DEF In
  <2>6. CASE \E d \in Fetched : d.key = k
    BY <2>1, <2>2, <2>3, <2>4, <2>5, <2>6
  <2>7. CASE ~\E d \in Fetched : d.key = k
    BY <2>1, <2>2, <2>3, <2>5, <2>7
  <2> QED
    BY <2>6, <2>7
<1> QED
  BY <1>1, <1>2, <1>3, <1>4 DEF Next, Query, Terminated

-------------------------------------------------------------------------------
(* The report: a key on the list has been counted; and once a key has been  *)
(* counted the counters are not zero.                                       *)
Total == result.missing + result.extra + result.changed

CapInv ==
  /\ Early => result.listed = {} /\ Total = 0 /\ ~result.truncated
  /\ \A d \in result.listed : counted[d.key] = 1
  /\ Total = 0 => \A k \in Key : counted[k] = 0
  /\ IsFiniteSet(result.listed)
  /\ CapExact

LEMMA EmptyReport ==
  ASSUME Total = 0, result.listed = {}, result.truncated = FALSE,
         \A k \in Key : counted[k] = 0, result \in Report
  PROVE  CapInv
<1>1. Cardinality(result.listed) = 0 /\ IsFiniteSet(result.listed)
  BY FS_EmptySet
<1>2. CapExact
  BY <1>1, ParameterAssumption DEF CapExact, Total, Lesser
<1> QED
  BY <1>1, <1>2 DEF CapInv

LEMMA CapBounds ==
  ASSUME Shape, CapInv, CountInv, BoundsSource \/ BoundsTarget
  PROVE  CapInv'
<1>1. Early /\ counted' = counted
  BY DEF BoundsSource, BoundsTarget, Early, LoopPC
<1>2. /\ result'.missing = result.missing /\ result'.extra = result.extra
      /\ result'.changed = result.changed /\ result'.listed = result.listed
      /\ result'.truncated = result.truncated
  BY DEF BoundsSource, BoundsTarget, Shape, TypeInv
<1>3. result' \in Report
  BY ShapeBoundsSource, ShapeBoundsTarget DEF Shape, TypeInv, Report
<1>4. Total' = 0 /\ result'.listed = {} /\ result'.truncated = FALSE
  BY <1>1, <1>2 DEF CapInv, Total, Shape, TypeInv
<1>5. \A k \in Key : counted'[k] = 0
  BY <1>1 DEF CountInv
<1>6. Cardinality(result'.listed) = 0 /\ IsFiniteSet(result'.listed)
  BY <1>4, FS_EmptySet
<1>7. CapExact'
  BY <1>3, <1>4, <1>6, ParameterAssumption DEF CapExact, Total, Lesser
<1> QED
  BY <1>4, <1>5, <1>6, <1>7 DEF CapInv

LEMMA CapFetch ==
  ASSUME Shape, NestInv, CountInv, CapInv, FetchTarget
  PROVE  CapInv'
<1> DEFINE D    == Fetched
           l    == result.listed
           room == MaxDiffRows - Cardinality(l)
           F    == FirstDiffs(D, room)
           rows == RowsIn(tgt, cur.seg)
<1>1. /\ result \in Report /\ result' \in Report
      /\ result' = Classified(result, seen, rows)
      /\ seen \subseteq Row /\ rows \subseteq Row
      /\ \A d \in D : d.key \in Key /\ In(d.key, cur.seg)
      /\ counted' \in [Key -> Nat]
      /\ \A k \in Key : counted'[k] = IF \E d \in D : d.key = k
                                      THEN counted[k] + 1 ELSE counted[k]
      /\ pc' = "stats_src"
  BY FetchTargetIs DEF In
<1>2. /\ D \subseteq RowDiff /\ IsFiniteSet(D) /\ Cardinality(D) \in Nat
      /\ Cardinality(D) = Cardinality(Missing(seen, rows)) +
                          Cardinality(Extra(seen, rows)) + Cardinality(Changed(seen, rows))
      /\ Cardinality(Missing(seen, rows)) \in Nat /\ Cardinality(Extra(seen, rows)) \in Nat
      /\ Cardinality(Changed(seen, rows)) \in Nat
  BY <1>1, KeyAssumption, RowDiffsCount, FS_CardinalityType DEF Fetched
<1>3. /\ result'.missing = result.missing + Cardinality(Missing(seen, rows))
      /\ result'.extra = result.extra + Cardinality(Extra(seen, rows))
      /\ result'.changed = result.changed + Cardinality(Changed(seen, rows))
      /\ result'.listed = l \cup F
      /\ result'.truncated = (result.truncated \/ Cardinality(D) > room)
  BY <1>1, ClassifiedIs DEF Fetched
<1> HIDE DEF rows
<1>4. Total \in Nat /\ Total' = Total + Cardinality(D) /\ Total' \in Nat
  BY <1>1, <1>2, <1>3 DEF Total, Report
<1> HIDE DEF D
<1>5. \A d \in D : counted[d.key] = 0
  BY <1>1, DueFetch DEF CountInv, Due
<1>6. \A d \in l : counted[d.key] = 1
  BY DEF CapInv
<1>7. \A c, d \in D : c.key = d.key => c = d
  BY OneDiffPerKey DEF D, Fetched
<1>8. IsFiniteSet(l) /\ Cardinality(l) \in Nat
      /\ Cardinality(l) = Lesser(Total, MaxDiffRows)
      /\ (result.truncated <=> Total > MaxDiffRows)
  BY FS_CardinalityType DEF CapInv, CapExact, Total
<1>9. room \in Nat
  BY <1>4, <1>8, ParameterAssumption DEF Lesser
<1>10. /\ F \subseteq D /\ IsFiniteSet(F)
       /\ Cardinality(F) = Lesser(Cardinality(D), room)
  <2>1. F \subseteq D
    BY DEF FirstDiffs
  <2>2. IsFiniteSet(F)
    BY <1>2, <2>1, FS_Subset
  <2> QED
    BY <1>1, <1>2, <1>7, <1>9, <2>1, <2>2, KeyAssumption, FirstDiffsCount DEF Lesser
<1> HIDE DEF F, l
<1>11. l \cap F = {}
  BY <1>5, <1>6, <1>10
<1>12. /\ IsFiniteSet(l \cup F)
       /\ Cardinality(l \cup F) = Cardinality(l) + Cardinality(F)
  BY <1>8, <1>10, <1>11, DisjointUnion
<1>13. ASSUME NEW d \in l \cup F PROVE counted'[d.key] = 1
  <2>1. CASE d \in F
    BY <1>1, <1>5, <1>10, <2>1
  <2>2. CASE d \in l
    <3>1. d.key \in Key
      BY <1>1, <2>2 DEF l, Report, RowDiff
    <3>2. ~\E c \in D : c.key = d.key
      BY <1>5, <1>6, <2>2
    <3> QED
      BY <1>1, <1>6, <2>2, <3>1, <3>2
  <2> QED
    BY <2>1, <2>2
<1>14. ASSUME Total' = 0, NEW k \in Key PROVE counted'[k] = 0
  <2>1. Total = 0 /\ Cardinality(D) = 0
    BY <1>2, <1>4, <1>14
  <2>2. D = {}
    BY <1>2, <2>1, CardinalityZero
  <2>3. counted[k] = 0
    BY <2>1 DEF CapInv
  <2> QED
    BY <1>1, <2>2, <2>3
<1>15. Cardinality(l \cup F) = Lesser(Total', MaxDiffRows)
  BY <1>2, <1>4, <1>8, <1>9, <1>10, <1>12, ParameterAssumption DEF Lesser
<1>16. result'.truncated <=> Total' > MaxDiffRows
  <2>1. result'.truncated <=> (result.truncated \/ Cardinality(D) > room)
    BY Zenon, <1>3
  <2>2. Total' > MaxDiffRows <=> (Total > MaxDiffRows \/ Cardinality(D) > room)
    BY <1>2, <1>4, <1>8, ParameterAssumption DEF Lesser
  <2> QED
    BY <1>8, <2>1, <2>2
<1>17. CapExact'
  BY <1>3, <1>15, <1>16 DEF CapExact, Total
<1>18. ~Early'
  BY <1>1 DEF Early, LoopPC
<1> QED
  BY <1>3, <1>12, <1>13, <1>14, <1>17, <1>18 DEF CapInv

LEMMA CapStep == Shape /\ NestInv /\ CountInv /\ CapInv /\ [Next]_vars => CapInv'
<1> SUFFICES ASSUME Shape, NestInv, CountInv, CapInv, [Next]_vars PROVE CapInv'
  OBVIOUS
<1>1. CASE \/ UniqueSource \/ UniqueTarget \/ Segmentise \/ StatsSource \/ StatsTarget
           \/ BisectSegment \/ EndLoop \/ FetchSource \/ Write \/ UNCHANGED vars
  <2>1. result' = result /\ counted' = counted
    BY <1>1 DEF UniqueSource, UniqueTarget, Segmentise, StatsSource, StatsTarget,
                BisectSegment, EndLoop, FetchSource, Write, vars
  <2>2. Early' => Early
    <3>1. ASSUME pc \in LoopPC \cup {"done"} PROVE pc' \in LoopPC \cup {"done"}
      <4>1. CASE BisectSegment
        BY <4>1, BisectStack DEF LoopPC
      <4>2. CASE EndLoop
        BY <4>2, EndLoopStack DEF LoopPC
      <4>3. CASE UniqueSource \/ UniqueTarget \/ Segmentise
        BY <3>1, <4>3 DEF UniqueSource, UniqueTarget, Segmentise, LoopPC
      <4>4. CASE StatsSource \/ StatsTarget \/ FetchSource
        BY <4>4 DEF StatsSource, StatsTarget, FetchSource, LoopPC
      <4>5. CASE Write \/ UNCHANGED vars
        BY <3>1, <4>5 DEF Write, vars
      <4> QED
        BY <1>1, <4>1, <4>2, <4>3, <4>4, <4>5
    <3> QED
      BY <3>1 DEF Early
  <2> QED
    BY <2>1, <2>2 DEF CapInv, CapExact, Total
<1> QED
  BY <1>1, CapBounds, CapFetch DEF Next, Query, Terminated

-------------------------------------------------------------------------------
(* What is known of a key that no other session writes and whose leading    *)
(* column is not NULL: after the checks it has one row at most on either    *)
(* side; then the bounds take it in; rows fetched from the source are still *)
(* the source's; and it has been counted, and then listed truly, exactly if *)
(* the tables differ in it, unless it is due.                               *)
One(S) == S = {} \/ \E v \in Val : S = {v}

SeenAs(k) == \A v \in Val : << k, v >> \in seen <=> v \in src[k]

Bounded(k) == bounds.lo # None /\ bounds.lo <= Lead[k]

UniqueAt(k) ==
  /\ pc \notin {"unique_src", "non_unique"} => One(src[k])
  /\ pc \notin {"unique_src", "unique_tgt", "non_unique"} => One(tgt[k])

BoundedAt(k) ==
  /\ pc = "bounds_tgt" /\ src[k] # {} => result.sourceCount > 0 /\ Bounded(k)
  /\ pc = "segment" /\ (src[k] # {} \/ tgt[k] # {}) => Bounded(k)

SeenAt(k) ==
  /\ pc = "stats_tgt" /\ In(k, Top.subs[Top.next]) => SeenAs(k)
  /\ pc = "fetch_tgt" /\ In(k, cur.seg) => SeenAs(k)

SettledAt(k) ==
  /\ src[k] = tgt[k] => counted[k] = 0
  /\ ~Early /\ src[k] # tgt[k] => counted[k] = 1 \/ Ahead(k) \/ InHand(k)
  /\ \A d \in result.listed : d.key = k => src[k] # tgt[k] /\ d = DiffAt(src, tgt, k)

ExactAt(k) == UniqueAt(k) /\ BoundedAt(k) /\ SeenAt(k) /\ SettledAt(k)

ExactInv == \A k \in Key \ touched : Lead[k] # None => ExactAt(k)

Invariants == Shape /\ NestInv /\ CountInv /\ CapInv /\ ExactInv

(* A key that is written no more than before keeps what is known of it. *)
LEMMA StillSettled ==
  ASSUME NEW k \in Key, SettledAt(k), counted' = counted, result'.listed = result.listed,
         src'[k] = src[k], tgt'[k] = tgt[k],
         Early' => Early, ~Early,
         Ahead(k) \/ InHand(k) => Ahead(k)' \/ InHand(k)'
  PROVE  SettledAt(k)'
BY DEF SettledAt, DiffAt

(* Nothing is counted and nothing listed before the loop. *)
LEMMA SettledEarly ==
  ASSUME NEW k \in Key, CountInv, CapInv, Early,
         counted' = counted, result'.listed = result.listed,
         Early' \/ src'[k] = tgt'[k] \/ Ahead(k)'
  PROVE  SettledAt(k)'
BY DEF CountInv, CapInv, SettledAt

LEMMA HasRow ==
  ASSUME NEW table \in Table, NEW k \in Key, table[k] # {}
  PROVE  /\ \E r \in Rows(table) : r[1] = k
         /\ Cardinality(Rows(table)) > 0
         /\ Lead[k] # None => Lead[k] \in Leads(table)
<1>1. PICK v \in table[k] : v \in Val
  BY DEF Table
<1>2. << k, v >> \in Rows(table) /\ << k, v >>[1] = k
  BY <1>1 DEF Rows, Row
<1>3. IsFiniteSet(Rows(table)) /\ Cardinality(Rows(table)) \in Nat
  BY RowsType, KeyAssumption, FS_CardinalityType, FS_Subset, FS_Product DEF Rows, Row
<1>4. Cardinality(Rows(table)) # 0
  BY <1>2, <1>3, CardinalityZero
<1> QED
  BY <1>2, <1>3, <1>4 DEF Leads

LEMMA ExactUnique ==
  ASSUME Invariants, UniqueSource \/ UniqueTarget, NEW k \in Key, ExactAt(k)
  PROVE  ExactAt(k)'
<1>1. /\ src' = src /\ tgt' = tgt /\ counted' = counted /\ result' = result
      /\ Early /\ Early' /\ src \in Table /\ tgt \in Table
  BY DEF UniqueSource, UniqueTarget, tables, Early, LoopPC, Invariants, Shape, TypeInv
<1>2. ASSUME NEW table \in Table, KeyUnique(table) PROVE One(table[k])
  <2>1. table[k] \in SUBSET Val /\ Cardinality(table[k]) <= 1
    BY <1>2 DEF Table, KeyUnique
  <2> QED
    BY <2>1, AtMostOneValue, KeyAssumption DEF One
<1>3. UniqueAt(k)'
  <2>1. CASE UniqueSource
    BY <1>1, <1>2, <2>1 DEF UniqueSource, UniqueAt, One
  <2>2. CASE UniqueTarget
    BY <1>1, <1>2, <2>2 DEF UniqueTarget, ExactAt, UniqueAt, One
  <2> QED
    BY <2>1, <2>2
<1>4. BoundedAt(k)' /\ SeenAt(k)'
  BY DEF UniqueSource, UniqueTarget, BoundedAt, SeenAt
<1>5. SettledAt(k)'
  BY <1>1, SettledEarly DEF Invariants
<1> QED
  BY <1>3, <1>4, <1>5 DEF ExactAt

LEMMA ExactBoundsSource ==
  ASSUME Invariants, BoundsSource, NEW k \in Key, Lead[k] # None, ExactAt(k)
  PROVE  ExactAt(k)'
<1>1. /\ src' = src /\ tgt' = tgt /\ counted' = counted /\ pc = "bounds_src"
      /\ Early /\ Early' /\ src \in Table /\ pc' = "bounds_tgt"
      /\ result'.listed = result.listed /\ result'.sourceCount = Cardinality(Rows(src))
      /\ bounds'.lo = Least(Leads(src))
  BY DEF BoundsSource, tables, Early, LoopPC, Invariants, Shape, TypeInv, Seg
<1>2. ASSUME src[k] # {} PROVE result'.sourceCount > 0 /\ Bounded(k)'
  <2>1. Lead[k] \in Leads(src) /\ Cardinality(Rows(src)) > 0
    BY <1>1, <1>2, HasRow
  <2> HIDE DEF Leads
  <2>2. Leads(src) # {} /\ Least(Leads(src)) # None /\ Least(Leads(src)) <= Lead[k]
    BY <2>1, LeadsType, LeastIs
  <2> QED
    BY <1>1, <2>1, <2>2 DEF Bounded
<1>3. UniqueAt(k)'
  BY <1>1 DEF ExactAt, UniqueAt
<1>4. BoundedAt(k)' /\ SeenAt(k)'
  BY <1>1, <1>2 DEF BoundedAt, SeenAt
<1>5. SettledAt(k)'
  BY <1>1, SettledEarly DEF Invariants
<1> QED
  BY <1>3, <1>4, <1>5 DEF ExactAt

LEMMA ExactBoundsTarget ==
  ASSUME Invariants, BoundsTarget, NEW k \in Key, Lead[k] # None, ExactAt(k)
  PROVE  ExactAt(k)'
<1> DEFINE count == Cardinality(Rows(tgt))
<1>1. /\ src' = src /\ tgt' = tgt /\ counted' = counted /\ pc = "bounds_tgt"
      /\ Early /\ tgt \in Table
      /\ result'.listed = result.listed
      /\ pc' = IF result.sourceCount = 0 /\ count = 0 THEN "done" ELSE "segment"
  BY DEF BoundsTarget, tables, Early, LoopPC, Invariants, Shape, TypeInv
<1>2. tgt[k] # {} => count > 0 /\ Lead[k] \in Leads(tgt)
  BY <1>1, HasRow
<1> HIDE DEF count
<1>3. src[k] # {} => result.sourceCount > 0 /\ Bounded(k)
  BY <1>1 DEF ExactAt, BoundedAt
<1>4. /\ bounds.lo # None => bounds'.lo # None /\ bounds'.lo <= bounds.lo
      /\ \A x \in Leads(tgt) : bounds'.lo # None /\ bounds'.lo <= x
      /\ bounds' \in Segment
  BY BothBounds DEF Invariants
<1>5. ASSUME src[k] # {} \/ tgt[k] # {} PROVE Bounded(k)'
  <2>1. CASE tgt[k] # {}
    BY <1>2, <1>4, <2>1 DEF Bounded
  <2>2. CASE src[k] # {}
    <3>1. bounds.lo \in Int /\ bounds'.lo \in Int /\ Lead[k] \in Int
      BY <1>3, <1>4, <2>2, LeadType DEF Bounded, Segment, Bound, Invariants, Shape, TypeInv
    <3> QED
      BY <1>3, <1>4, <2>2, <3>1 DEF Bounded
  <2> QED
    BY <1>5, <2>1, <2>2
<1>6. UniqueAt(k)'
  BY <1>1 DEF ExactAt, UniqueAt
<1>7. BoundedAt(k)' /\ SeenAt(k)'
  BY <1>1, <1>5 DEF BoundedAt, SeenAt
<1>8. SettledAt(k)'
  <2>1. Early' \/ src'[k] = tgt'[k]
    BY <1>1, <1>2, <1>3 DEF Early, LoopPC
  <2> QED
    BY <1>1, <2>1, SettledEarly DEF Invariants
<1> QED
  BY <1>6, <1>7, <1>8 DEF ExactAt

LEMMA ExactSegmentise ==
  ASSUME Invariants, Segmentise, NEW k \in Key, Lead[k] # None, ExactAt(k)
  PROVE  ExactAt(k)'
<1>1. /\ src' = src /\ tgt' = tgt /\ counted' = counted /\ result' = result
      /\ pc = "segment" /\ pc' = "stats_src" /\ Early
  BY DEF Segmentise, tables, Early, LoopPC
<1>2. PICK f \in Frame :
        /\ stack' = << f >> /\ f.next = 1
        /\ \A x \in Bound : InSegment(x, Seg(bounds.lo, None)) => Owned(x, f.subs)
  BY SegmentiseStack DEF Invariants
<1>3. ASSUME src[k] # {} \/ tgt[k] # {} PROVE Ahead(k)'
  <2>1. Bounded(k)
    BY <1>1, <1>3 DEF ExactAt, BoundedAt
  <2>2. Lead[k] \in Int /\ bounds.lo \in Int /\ Lead[k] \in Bound
    BY <2>1, LeadType DEF Bounded, Bound, Segment, Invariants, Shape, TypeInv
  <2>3. InSegment(Lead[k], Seg(bounds.lo, None))
    BY <2>1, <2>2 DEF Bounded, InSegment, Seg
  <2>4. \E m \in f.next..Len(f.subs) : In(k, f.subs[m])
    BY <1>2, <2>2, <2>3 DEF Owned, In
  <2>5. Len(stack') = 1 /\ stack'[1] = f /\ 1 \in 1..1
    BY <1>2
  <2> QED
    BY <2>4, <2>5 DEF Ahead
<1>4. UniqueAt(k)'
  BY <1>1 DEF ExactAt, UniqueAt
<1>5. BoundedAt(k)' /\ SeenAt(k)'
  BY <1>1 DEF BoundedAt, SeenAt
<1>6. SettledAt(k)'
  <2>1. src'[k] = tgt'[k] \/ Ahead(k)'
    BY <1>1, <1>3
  <2> QED
    BY <1>1, <2>1, SettledEarly DEF Invariants
<1> QED
  BY <1>4, <1>5, <1>6 DEF ExactAt

(* Inside the loop the bounds no longer matter. *)
LEMMA InLoopSteps ==
  ASSUME Invariants, NEW k \in Key, ExactAt(k), pc \in LoopPC,
         pc' \in LoopPC \cup {"done"},
         src'[k] = src[k], tgt'[k] = tgt[k],
         SeenAt(k)', SettledAt(k)'
  PROVE  ExactAt(k)'
<1>1. UniqueAt(k)'
  BY DEF ExactAt, UniqueAt, LoopPC
<1>2. BoundedAt(k)'
  BY DEF BoundedAt, LoopPC
<1> QED
  BY <1>1, <1>2 DEF ExactAt

LEMMA RowsAt ==
  ASSUME NEW table \in Table, NEW seg, NEW k \in Key, In(k, seg), NEW v \in Val
  PROVE  << k, v >> \in RowsIn(table, seg) <=> v \in table[k]
BY DEF RowsIn, Rows, Row, In

LEMMA ExactSource ==
  ASSUME Invariants, StatsSource \/ FetchSource, NEW k \in Key, ExactAt(k)
  PROVE  ExactAt(k)'
<1>1. /\ src' = src /\ tgt' = tgt /\ counted' = counted /\ result' = result
      /\ stack' = stack /\ cur' = cur /\ Resolving' = Resolving
      /\ pc \in LoopPC /\ pc' \in LoopPC /\ src \in Table /\ Top' = Top
      /\ \/ pc' = "stats_tgt" /\ seen' = RowsIn(src, Top.subs[Top.next])
         \/ pc' = "fetch_tgt" /\ seen' = RowsIn(src, cur.seg)
  <2>1. src \in Table
    BY DEF Invariants, Shape, TypeInv
  <2>2. Top' = Top
    BY DEF StatsSource, FetchSource, Top
  <2>3. CASE StatsSource
    BY <2>1, <2>2, <2>3 DEF StatsSource, tables, LoopPC, Resolving
  <2>4. CASE FetchSource
    BY <2>1, <2>2, <2>4 DEF FetchSource, tables, LoopPC, Resolving
  <2> QED
    BY <2>3, <2>4
<1>2. SeenAt(k)'
  <2>1. ASSUME NEW seg, seen' = RowsIn(src, seg), In(k, seg) PROVE SeenAs(k)'
    BY <1>1, <2>1, RowsAt DEF SeenAs
  <2> QED
    BY <1>1, <2>1 DEF SeenAt
<1>3. SettledAt(k)'
  BY <1>1, DueQuiet, StillSettled DEF ExactAt, Early
<1> QED
  BY <1>1, <1>2, <1>3, InLoopSteps

LEMMA ExactStatsTarget ==
  ASSUME Invariants, StatsTarget, NEW k \in Key, ExactAt(k)
  PROVE  ExactAt(k)'
<1> DEFINE sub == Top.subs[Top.next]
           rows == RowsIn(tgt, sub)
<1>1. /\ src' = src /\ tgt' = tgt /\ counted' = counted /\ result' = result
      /\ pc = "stats_tgt" /\ pc \in LoopPC /\ pc' \in {"stats_src", "bisect", "fetch_src"}
      /\ src \in Table /\ tgt \in Table
  BY DEF StatsTarget, tables, LoopPC, Invariants, Shape, TypeInv
<1>2. pc' \in LoopPC /\ SeenAt(k)'
  BY <1>1 DEF LoopPC, SeenAt
<1>3. ASSUME In(k, sub), StatsEqual(seen, rows) PROVE src[k] = tgt[k]
  <2>1. seen = rows
    BY <1>3 DEF StatsEqual
  <2>2. \A v \in Val : << k, v >> \in rows <=> v \in tgt[k]
    BY <1>1, <1>3, RowsAt
  <2>3. \A v \in Val : << k, v >> \in seen <=> v \in src[k]
    BY <1>1, <1>3 DEF ExactAt, SeenAt, SeenAs
  <2>4. src[k] \subseteq Val /\ tgt[k] \subseteq Val
    BY <1>1 DEF Table
  <2> QED
    BY <2>1, <2>2, <2>3, <2>4
<1>4. /\ Ahead(k) => Ahead(k)' \/ In(k, sub)
      /\ In(k, sub) => InHand(k)' \/ StatsEqual(seen, rows)
      /\ ~InHand(k)
  BY <1>1, DueStats DEF Invariants, InHand, Resolving
<1>5. SettledAt(k)'
  <2>1. src[k] # tgt[k] => counted[k] = 1 \/ Ahead(k)' \/ InHand(k)'
    BY <1>1, <1>3, <1>4 DEF ExactAt, SettledAt, Early
  <2> QED
    BY <1>1, <2>1 DEF ExactAt, SettledAt
<1> QED
  BY <1>1, <1>2, <1>5, InLoopSteps

LEMMA ExactBisect ==
  ASSUME Invariants, BisectSegment, NEW k \in Key, ExactAt(k)
  PROVE  ExactAt(k)'
<1>1. /\ src' = src /\ tgt' = tgt /\ counted' = counted /\ result' = result
      /\ pc \in LoopPC
  BY DEF BisectSegment, tables, LoopPC
<1>2. pc' \in {"stats_src", "fetch_src"}
  BY BisectStack DEF Invariants
<1>3. SeenAt(k)' /\ pc' \in LoopPC
  BY <1>2 DEF SeenAt, LoopPC
<1>4. Ahead(k) \/ InHand(k) => Ahead(k)' \/ InHand(k)'
  BY DueBisect DEF Invariants
<1>5. SettledAt(k)'
  BY <1>1, <1>3, <1>4, StillSettled DEF ExactAt, Early
<1> QED
  BY <1>1, <1>3, <1>5, InLoopSteps

LEMMA ExactEndLoop ==
  ASSUME Invariants, EndLoop, NEW k \in Key, ExactAt(k)
  PROVE  ExactAt(k)'
<1>1. /\ src' = src /\ tgt' = tgt /\ counted' = counted /\ result' = result
      /\ pc \in LoopPC
  BY DEF EndLoop, tables, LoopPC
<1>2. pc' \in {"stats_src", "fetch_src", "done"}
  BY EndLoopStack DEF Invariants
<1>3. SeenAt(k)' /\ pc' \in LoopPC \cup {"done"}
  BY <1>2 DEF SeenAt, LoopPC
<1>4. Ahead(k) \/ InHand(k) => Ahead(k)' \/ InHand(k)'
  BY DueEndLoop DEF Invariants
<1>5. SettledAt(k)'
  BY <1>1, <1>3, <1>4, StillSettled DEF ExactAt, Early
<1> QED
  BY <1>1, <1>3, <1>5, InLoopSteps

(* The rows fetched of a key that nobody writes are its rows, and so make   *)
(* the difference that the tables make.                                     *)
LEMMA FetchedOfKey ==
  ASSUME Invariants, FetchTarget, NEW k \in Key, ExactAt(k), In(k, cur.seg), NEW d
  PROVE  d \in Fetched /\ d.key = k <=> src[k] # tgt[k] /\ d = DiffAt(src, tgt, k)
<1> DEFINE rows == RowsIn(tgt, cur.seg)
           s == AsTable(seen)
           t == AsTable(rows)
<1>1. /\ seen \in SUBSET Row /\ rows \in SUBSET Row /\ pc = "fetch_tgt"
      /\ src \in Table /\ tgt \in Table
  BY FetchTargetIs DEF FetchTarget, Invariants, Shape, TypeInv
<1>2. SeenAs(k) /\ One(src[k]) /\ One(tgt[k])
  BY <1>1 DEF ExactAt, SeenAt, UniqueAt
<1>3. \A v \in Val : << k, v >> \in rows <=> v \in tgt[k]
  BY <1>1, RowsAt
<1> HIDE DEF rows
<1>4. /\ s \in Table /\ Rows(s) = seen
      /\ \A v : v \in s[k] <=> << k, v >> \in seen
  BY <1>1, FetchedTable
<1>5. /\ t \in Table /\ Rows(t) = rows
      /\ \A v : v \in t[k] <=> << k, v >> \in rows
  BY <1>1, FetchedTable
<1> HIDE DEF s, t
<1>6. s[k] = src[k]
  <2>1. s[k] \subseteq Val /\ src[k] \subseteq Val
    BY <1>1, <1>4 DEF Table
  <2> QED
    BY <1>2, <1>4, <2>1 DEF SeenAs
<1>7. t[k] = tgt[k]
  <2>1. t[k] \subseteq Val /\ tgt[k] \subseteq Val
    BY <1>1, <1>5 DEF Table
  <2> QED
    BY <1>3, <1>5, <2>1
<1>8. d \in RowDiffs(Rows(s), Rows(t)) /\ d.key = k <=> s[k] # t[k] /\ d = DiffAt(s, t, k)
  BY <1>2, <1>4, <1>5, <1>6, <1>7, RowDiffOfKey DEF One
<1>9. DiffAt(s, t, k) = DiffAt(src, tgt, k)
  BY <1>6, <1>7 DEF DiffAt
<1>10. Fetched = RowDiffs(Rows(s), Rows(t))
  BY <1>4, <1>5 DEF Fetched, rows
<1> QED
  BY <1>6, <1>7, <1>8, <1>9, <1>10

LEMMA ExactFetchTarget ==
  ASSUME Invariants, FetchTarget, NEW k \in Key, ExactAt(k)
  PROVE  ExactAt(k)'
<1> DEFINE some == \E d \in Fetched : d.key = k
           room == MaxDiffRows - Cardinality(result.listed)
<1>1. /\ pc \in LoopPC /\ pc' = "stats_src"
      /\ src' = src /\ tgt' = tgt
      /\ \A d \in Fetched : In(d.key, cur.seg)
      /\ counted'[k] = IF some THEN counted[k] + 1 ELSE counted[k]
      /\ result \in Report /\ seen \subseteq Row /\ RowsIn(tgt, cur.seg) \subseteq Row
      /\ result' = Classified(result, seen, RowsIn(tgt, cur.seg))
  BY FetchTargetIs DEF tables, In, Invariants
<1>2. result'.listed = result.listed \cup FirstDiffs(Fetched, room)
  BY <1>1, ClassifiedIs DEF Fetched
<1>3. result'.listed \subseteq result.listed \cup Fetched
  BY <1>2 DEF FirstDiffs
<1>4. SeenAt(k)' /\ pc' \in LoopPC
  BY <1>1 DEF SeenAt, LoopPC
<1>5. /\ Ahead(k) => Ahead(k)'
      /\ InHand(k) <=> In(k, cur.seg)
  BY DueFetch DEF Invariants
<1>6. SettledAt(k)
  BY DEF ExactAt
<1>7. CASE In(k, cur.seg)
  <2>1. \A d : d \in Fetched /\ d.key = k <=> src[k] # tgt[k] /\ d = DiffAt(src, tgt, k)
    BY <1>7, FetchedOfKey
  <2>2. some <=> src[k] # tgt[k]
    <3>1. DiffAt(src, tgt, k).key = k
      BY DEF DiffAt
    <3> QED
      BY <2>1, <3>1
  <2>3. counted[k] = 0
    BY <1>5, <1>7 DEF Invariants, CountInv, Due
  <2>4. counted'[k] = IF src[k] = tgt[k] THEN 0 ELSE 1
    BY <1>1, <2>2, <2>3
  <2>5. ASSUME NEW d \in result'.listed, d.key = k
        PROVE  src[k] # tgt[k] /\ d = DiffAt(src, tgt, k)
    BY <1>3, <1>6, <2>1, <2>5 DEF SettledAt
  <2>6. DiffAt(src', tgt', k) = DiffAt(src, tgt, k)
    BY <1>1
  <2>7. SettledAt(k)'
    BY <1>1, <2>4, <2>5, <2>6 DEF SettledAt
  <2> QED
    BY <1>1, <1>4, <2>7, InLoopSteps
<1>8. CASE ~In(k, cur.seg)
  <2>1. ~some
    BY <1>1, <1>8
  <2>2. ASSUME NEW d \in result'.listed, d.key = k
        PROVE  src[k] # tgt[k] /\ d = DiffAt(src, tgt, k)
    BY <1>3, <1>6, <2>1, <2>2 DEF SettledAt
  <2>3. DiffAt(src', tgt', k) = DiffAt(src, tgt, k)
    BY <1>1
  <2>4. SettledAt(k)'
    BY <1>1, <1>5, <1>6, <1>8, <2>1, <2>2, <2>3 DEF SettledAt, Early
  <2> QED
    BY <1>1, <1>4, <2>4, InLoopSteps
<1> QED
  BY <1>7, <1>8

LEMMA ExactUntouched ==
  ASSUME Invariants, Write \/ UNCHANGED vars, NEW k \in Key \ touched', ExactAt(k)
  PROVE  ExactAt(k)'
<1>1. /\ src'[k] = src[k] /\ tgt'[k] = tgt[k]
      /\ UNCHANGED << pc, bounds, stack, cur, seen, result, counted >>
  BY WriteIs DEF vars, tables, Invariants
<1>2. Resolving' = Resolving /\ Top' = Top /\ Early' = Early
  BY <1>1 DEF Resolving, Top, Early
<1>3. (Ahead(k)' <=> Ahead(k)) /\ (InHand(k)' <=> InHand(k))
  BY <1>1, <1>2, DueQuiet
<1>4. UniqueAt(k)' /\ BoundedAt(k)'
  BY <1>1 DEF ExactAt, UniqueAt, BoundedAt, Bounded, One
<1>5. SeenAt(k)'
  BY <1>1, <1>2 DEF ExactAt, SeenAt, SeenAs
<1>6. DiffAt(src', tgt', k) = DiffAt(src, tgt, k)
  BY <1>1 DEF DiffAt
<1>7. SettledAt(k)'
  BY <1>1, <1>2, <1>3, <1>6 DEF ExactAt, SettledAt
<1> QED
  BY <1>4, <1>5, <1>7 DEF ExactAt

LEMMA ExactStep == Invariants /\ [Next]_vars => ExactInv'
<1> SUFFICES ASSUME Invariants, [Next]_vars, NEW k \in Key \ touched', Lead[k] # None
             PROVE  ExactAt(k)'
  BY DEF ExactInv
<1>1. touched \subseteq touched'
  <2>1. CASE Write
    BY <2>1, WriteIs DEF Invariants
  <2>2. CASE UNCHANGED vars
    BY <2>2 DEF vars, tables
  <2>3. CASE Query
    BY <2>3 DEF Query, tables, UniqueSource, UniqueTarget, BoundsSource, BoundsTarget,
                Segmentise, StatsSource, StatsTarget, BisectSegment, EndLoop,
                FetchSource, FetchTarget
  <2> QED
    BY <2>1, <2>2, <2>3 DEF Next, Terminated
<1>2. k \in Key /\ ExactAt(k)
  BY <1>1 DEF Invariants, ExactInv
<1> QED
  BY <1>2, ExactUnique, ExactBoundsSource, ExactBoundsTarget, ExactSegmentise, ExactSource,
     ExactStatsTarget, ExactBisect, ExactEndLoop, ExactFetchTarget, ExactUntouched
     DEF Next, Query, Terminated

LEMMA InitInvariants == Init => Invariants
<1> SUFFICES ASSUME Init PROVE Invariants
  OBVIOUS
<1>1. Shape /\ NestInv
  BY ShapeInit, NestEmpty DEF Init
<1>2. CountInv
  BY DEF Init, CountInv
<1>3. CapInv
  <2>1. result \in Report
    BY <1>1 DEF Shape, TypeInv, Report
  <2>2. /\ result.missing = 0 /\ result.extra = 0 /\ result.changed = 0
        /\ result.listed = {} /\ result.truncated = FALSE
        /\ \A k \in Key : counted[k] = 0
    BY DEF Init
  <2>3. Total = 0
    BY <2>2 DEF Total
  <2> QED
    BY <2>1, <2>2, <2>3, EmptyReport
<1>4. ExactInv
  <2> SUFFICES ASSUME NEW k \in Key PROVE ExactAt(k)
    BY DEF ExactInv
  <2>1. pc = "unique_src" /\ counted[k] = 0 /\ result.listed = {}
    BY DEF Init
  <2> QED
    BY <2>1 DEF ExactAt, UniqueAt, BoundedAt, SeenAt, SettledAt, Early, LoopPC
<1> QED
  BY <1>1, <1>2, <1>3, <1>4 DEF Invariants

LEMMA Inductive == Spec => []Invariants
<1>1. Invariants /\ [Next]_vars => Invariants'
  BY ShapeStep, NestStep, CountStep, CapStep, ExactStep DEF Invariants
<1> QED
  BY <1>1, InitInvariants, PTL DEF Spec

-------------------------------------------------------------------------------
(* Every variable keeps its type: in particular a frame's depth stays below *)
(* the limit, and segments are built of keys.                               *)
THEOREM TypeCorrect == Spec => []TypeInv
<1>1. Invariants => TypeInv
  BY DEF Invariants, Shape
<1> QED
  BY <1>1, Inductive, PTL

(* The recursion of _resolve_mismatched_segment never goes deeper than its  *)
(* limit, whatever the keys and the writes are: a call's depth is its place *)
(* on the stack, and only calls above the limit bisect.                     *)
THEOREM Recursion == Spec => []RecursionBounded
<1>1. Invariants => RecursionBounded
  BY DEF Invariants, Shape, StackInv, RecursionBounded
<1> QED
  BY <1>1, Inductive, PTL

(* No key is counted twice, whatever other sessions write between the       *)
(* queries: the segments still due are disjoint from those already looked   *)
(* at, because a segment's parts tile it.                                   *)
THEOREM CountedOnce == Spec => []CountedAtMostOnce
<1>1. Invariants => CountedAtMostOnce
  BY DEF Invariants, CountInv, CountedAtMostOnce
<1> QED
  BY <1>1, Inductive, PTL

(* "Counts stay exact; row lists don't": at every moment the list holds as  *)
(* many differences as have been counted, up to the cap, and truncated says *)
(* whether some were left out.  The cap works because no key is counted     *)
(* twice, so that a difference appended is never one listed already.        *)
THEOREM Capped == Spec => []CapExact
<1>1. Invariants => CapExact
  BY DEF Invariants, CapInv
<1> QED
  BY <1>1, Inductive, PTL

(* When the run is over nothing is due. *)
LEMMA DoneIsSettled ==
  ASSUME Invariants, pc = "done", NEW k \in Key \ touched, Lead[k] # None
  PROVE  /\ counted[k] = IF src[k] = tgt[k] THEN 0 ELSE 1
         /\ \A d \in result.listed : d.key = k => src[k] # tgt[k] /\ d = DiffAt(src, tgt, k)
         /\ One(src[k]) /\ One(tgt[k])
<1>1. ~Early /\ ~Resolving /\ stack = << >>
  BY DEF Invariants, Shape, StackInv, Early, LoopPC, Resolving
<1>2. ~Ahead(k) /\ ~InHand(k)
  BY <1>1 DEF Ahead, InHand
<1>3. SettledAt(k) /\ UniqueAt(k)
  BY DEF Invariants, ExactInv, ExactAt
<1> QED
  BY <1>1, <1>2, <1>3 DEF SettledAt, UniqueAt

(* A row nobody wrote to during the run, and whose leading key column is    *)
(* not NULL, is counted exactly once if the tables differ in it and never   *)
(* otherwise, and is listed with its true kind, for any number of writes to *)
(* other rows between any two queries.                                      *)
StableAndNotNullExact ==
  pc = "done" =>
    \A k \in Key \ touched :
      Lead[k] # None =>
        /\ counted[k] = IF src[k] = tgt[k] THEN 0 ELSE 1
        /\ \A d \in result.listed : d.key = k => d \in RowDiffs(Rows(src), Rows(tgt))

THEOREM StableAndNotNull == Spec => []StableAndNotNullExact
<1>1. ASSUME Invariants PROVE StableAndNotNullExact
  <2> SUFFICES ASSUME pc = "done", NEW k \in Key \ touched, Lead[k] # None
               PROVE  /\ counted[k] = IF src[k] = tgt[k] THEN 0 ELSE 1
                      /\ \A d \in result.listed :
                           d.key = k => d \in RowDiffs(Rows(src), Rows(tgt))
    BY DEF StableAndNotNullExact
  <2>1. /\ counted[k] = IF src[k] = tgt[k] THEN 0 ELSE 1
        /\ \A d \in result.listed : d.key = k => src[k] # tgt[k] /\ d = DiffAt(src, tgt, k)
        /\ One(src[k]) /\ One(tgt[k])
    BY <1>1, DoneIsSettled
  <2>2. src \in Table /\ tgt \in Table /\ k \in Key
    BY <1>1 DEF Invariants, Shape, TypeInv
  <2>3. ASSUME NEW d \in result.listed, d.key = k
        PROVE  d \in RowDiffs(Rows(src), Rows(tgt))
    BY <2>1, <2>2, <2>3, RowDiffOfKey DEF One
  <2> QED
    BY <2>1, <2>3
<1> QED
  BY <1>1, Inductive, PTL

(* So every row is exact where no leading key column is NULL.  Run          *)
(* hashdiff_null_key shows that the hypothesis is needed.                   *)
THEOREM StableRows ==
  ASSUME \A k \in Key : Lead[k] # None
  PROVE  Spec => []StableRowsExact
<1>1. StableAndNotNullExact => StableRowsExact
  BY DEF StableAndNotNullExact, StableRowsExact
<1> QED
  BY <1>1, StableAndNotNull, PTL

(* A verdict of MATCH is true of every row nobody wrote to, under the same  *)
(* hypothesis: counters at zero mean that no key has been counted.          *)
THEOREM MatchTrue ==
  ASSUME \A k \in Key : Lead[k] # None
  PROVE  Spec => []MatchIsTrue
<1>1. ASSUME Invariants PROVE MatchIsTrue
  <2> SUFFICES ASSUME pc = "done", IsMatch, NEW k \in Key \ touched
               PROVE  src[k] = tgt[k]
    BY DEF MatchIsTrue
  <2>1. Total = 0
    BY DEF IsMatch, Total
  <2>2. counted[k] = 0
    BY <1>1, <2>1 DEF Invariants, CapInv
  <2>3. counted[k] = IF src[k] = tgt[k] THEN 0 ELSE 1
    BY <1>1, DoneIsSettled
  <2> QED
    BY <2>2, <2>3
<1> QED
  BY <1>1, Inductive, PTL

-------------------------------------------------------------------------------
(* The refinement, on tables nobody writes to.                              *)
Diffs == RowDiffs(Rows(src), Rows(tgt))

Tagged(k, kind) == [key |-> k, kind |-> kind]

CountedOf(kind) == { k \in Key : counted[k] = 1 /\ Tagged(k, kind) \in Diffs }

KindsCounted ==
  /\ result.missing = Cardinality(CountedOf("missing"))
  /\ result.extra = Cardinality(CountedOf("extra"))
  /\ result.changed = Cardinality(CountedOf("changed"))

QuietInv ==
  /\ touched = {}
  /\ pc \notin {"unique_src", "non_unique"} => KeyUnique(src)
  /\ pc \notin {"unique_src", "unique_tgt", "non_unique"} => KeyUnique(tgt)
  /\ pc \notin {"unique_src", "unique_tgt", "bounds_src", "non_unique"} =>
       result.sourceCount = Cardinality(Rows(src))
  /\ pc \in LoopPC \cup {"segment", "done"} => result.targetCount = Cardinality(Rows(tgt))
  /\ KindsCounted

(* The keys of a kind are those of the tagged differences. *)
LEMMA KeysOfKind ==
  ASSUME NEW s, s \subseteq Row, NEW t, t \subseteq Row
  PROVE  /\ Missing(s, t) = { k \in Key : Tagged(k, "missing") \in RowDiffs(s, t) }
         /\ Extra(s, t)   = { k \in Key : Tagged(k, "extra") \in RowDiffs(s, t) }
         /\ Changed(s, t) = { k \in Key : Tagged(k, "changed") \in RowDiffs(s, t) }
<1>1. KeysOf(s) \subseteq Key /\ KeysOf(t) \subseteq Key
  BY DEF KeysOf, Row
<1>2. /\ Missing(s, t) \subseteq Key /\ Extra(s, t) \subseteq Key
      /\ Changed(s, t) \subseteq Key
  BY <1>1 DEF Missing, Extra, Changed
<1>3. ASSUME NEW k
      PROVE  /\ Tagged(k, "missing") \in RowDiffs(s, t) <=> k \in Missing(s, t)
             /\ Tagged(k, "extra") \in RowDiffs(s, t) <=> k \in Extra(s, t)
             /\ Tagged(k, "changed") \in RowDiffs(s, t) <=> k \in Changed(s, t)
  BY RowDiffMembers DEF Tagged
<1> QED
  BY <1>2, <1>3

(* A fetch counts the keys of its segment that make a difference, and no    *)
(* others.                                                                  *)
LEMMA FetchCounts ==
  ASSUME Invariants, QuietInv, \A k \in Key : Lead[k] # None, FetchTarget, NEW kind
  PROVE  LET new == { k \in Key : Tagged(k, kind) \in Fetched }
         IN  /\ CountedOf(kind)' = CountedOf(kind) \cup new
             /\ CountedOf(kind) \cap new = {}
<1> DEFINE new == { k \in Key : Tagged(k, kind) \in Fetched }
<1>1. /\ src' = src /\ tgt' = tgt
      /\ \A d \in Fetched : In(d.key, cur.seg)
      /\ \A k \in Key : counted'[k] = IF \E d \in Fetched : d.key = k
                                      THEN counted[k] + 1 ELSE counted[k]
  BY FetchTargetIs DEF In, Invariants, tables
<1>2. Diffs' = Diffs
  BY <1>1 DEF Diffs
<1>3. ASSUME NEW k \in Key
      PROVE  /\ Tagged(k, kind) \in Fetched => counted[k] = 0
             /\ counted'[k] = 1 /\ Tagged(k, kind) \in Diffs <=>
                  \/ counted[k] = 1 /\ Tagged(k, kind) \in Diffs
                  \/ Tagged(k, kind) \in Fetched
  <2>1. Tagged(k, kind).key = k
    BY DEF Tagged
  <2>2. CASE In(k, cur.seg)
    <3>1. ExactAt(k) /\ One(src[k]) /\ One(tgt[k])
      BY DEF Invariants, ExactInv, QuietInv, ExactAt, UniqueAt, FetchTarget
    <3>2. \A d : d \in Fetched /\ d.key = k <=> src[k] # tgt[k] /\ d = DiffAt(src, tgt, k)
      BY <2>2, <3>1, FetchedOfKey
    <3>3. \A d : d \in Diffs /\ d.key = k <=> src[k] # tgt[k] /\ d = DiffAt(src, tgt, k)
      BY <3>1, RowDiffOfKey DEF Diffs, One, Invariants, Shape, TypeInv
    <3>4. Tagged(k, kind) \in Diffs <=> Tagged(k, kind) \in Fetched
      BY <2>1, <3>2, <3>3
    <3>5. counted[k] = 0
      BY <2>2, DueFetch DEF Invariants, CountInv, Due
    <3>6. Tagged(k, kind) \in Fetched => counted'[k] = 1
      BY <1>1, <2>1, <3>5
    <3> QED
      BY <3>4, <3>5, <3>6
  <2>3. CASE ~In(k, cur.seg)
    <3>1. ~\E d \in Fetched : d.key = k
      BY <1>1, <2>3
    <3> QED
      BY <1>1, <2>1, <3>1
  <2> QED
    BY <2>2, <2>3
<1>4. CountedOf(kind)' = { k \in Key : counted'[k] = 1 /\ Tagged(k, kind) \in Diffs }
  BY <1>2 DEF CountedOf
<1>5. CountedOf(kind)' = CountedOf(kind) \cup new
  BY <1>3, <1>4 DEF CountedOf
<1>6. CountedOf(kind) \cap new = {}
  BY <1>3 DEF CountedOf
<1> QED
  BY <1>5, <1>6

LEMMA QuietFetch ==
  ASSUME Invariants, QuietInv, \A k \in Key : Lead[k] # None, FetchTarget
  PROVE  KindsCounted'
<1> DEFINE new(kind) == { k \in Key : Tagged(k, kind) \in Fetched }
           rows == RowsIn(tgt, cur.seg)
<1>1. /\ result \in Report /\ seen \subseteq Row /\ rows \subseteq Row
      /\ result' = Classified(result, seen, rows)
  BY FetchTargetIs DEF Invariants
<1> HIDE DEF rows
<1>2. /\ result'.missing = result.missing + Cardinality(Missing(seen, rows))
      /\ result'.extra = result.extra + Cardinality(Extra(seen, rows))
      /\ result'.changed = result.changed + Cardinality(Changed(seen, rows))
  <2> DEFINE room == MaxDiffRows - Cardinality(result.listed)
  <2>1. /\ result'.missing = result.missing + Cardinality(Missing(seen, rows))
        /\ result'.extra = result.extra + Cardinality(Extra(seen, rows))
        /\ result'.changed = result.changed + Cardinality(Changed(seen, rows))
        /\ result'.listed = result.listed \cup FirstDiffs(RowDiffs(seen, rows), room)
        /\ result'.truncated = (result.truncated \/ Cardinality(RowDiffs(seen, rows)) > room)
    BY <1>1, ClassifiedIs, SMTT(40)
  <2> QED
    BY <2>1
<1>3. /\ Missing(seen, rows) = new("missing") /\ Extra(seen, rows) = new("extra")
      /\ Changed(seen, rows) = new("changed")
  BY <1>1, KeysOfKind, ZenonT(60) DEF Fetched, rows
<1>4. ASSUME NEW kind
      PROVE  Cardinality(CountedOf(kind)') = Cardinality(CountedOf(kind)) + Cardinality(new(kind))
  <2>1. CountedOf(kind)' = CountedOf(kind) \cup new(kind) /\ CountedOf(kind) \cap new(kind) = {}
    BY FetchCounts
  <2>2. CountedOf(kind) \in SUBSET Key /\ new(kind) \in SUBSET Key
    BY DEF CountedOf
  <2> HIDE DEF new
  <2>3. IsFiniteSet(CountedOf(kind)) /\ IsFiniteSet(new(kind))
    BY <2>2, KeyAssumption, FS_Subset
  <2> QED
    BY <2>1, <2>3, DisjointUnion
<1> HIDE DEF new
<1> QED
  BY <1>2, <1>3, <1>4 DEF QuietInv, KindsCounted

LEMMA QuietStep ==
  ASSUME Invariants, QuietInv, MaxWrites = 0, \A k \in Key : Lead[k] # None, [Next]_vars
  PROVE  QuietInv' /\ src' = src /\ tgt' = tgt
<1>1. ~Write
  BY DEF Write, Invariants, Shape, TypeInv
<1>2. src' = src /\ tgt' = tgt /\ touched' = touched
  BY <1>1 DEF Next, Query, Terminated, vars, tables, UniqueSource, UniqueTarget,
              BoundsSource, BoundsTarget, Segmentise, StatsSource, StatsTarget,
              BisectSegment, EndLoop, FetchSource, FetchTarget
<1>3. Rows(src') = Rows(src) /\ Rows(tgt') = Rows(tgt)
      /\ (KeyUnique(src') <=> KeyUnique(src)) /\ (KeyUnique(tgt') <=> KeyUnique(tgt))
      /\ Diffs' = Diffs
  BY <1>2 DEF Diffs
<1>4. ASSUME counted' = counted, result'.missing = result.missing,
             result'.extra = result.extra, result'.changed = result.changed
      PROVE  KindsCounted'
  BY <1>3, <1>4 DEF QuietInv, KindsCounted, CountedOf
<1>5. CASE UniqueSource \/ UniqueTarget
  BY <1>2, <1>3, <1>4, <1>5 DEF UniqueSource, UniqueTarget, QuietInv, LoopPC
<1>6. CASE BoundsSource
  <2>1. /\ result'.sourceCount = Cardinality(Rows(src)) /\ result'.missing = result.missing
        /\ result'.extra = result.extra /\ result'.changed = result.changed
        /\ counted' = counted /\ pc = "bounds_src" /\ pc' = "bounds_tgt"
    BY <1>6 DEF BoundsSource, Invariants, Shape, TypeInv
  <2> QED
    BY <1>2, <1>3, <1>4, <2>1 DEF QuietInv, LoopPC
<1>7. CASE BoundsTarget
  <2>1. /\ result'.targetCount = Cardinality(Rows(tgt)) /\ result'.missing = result.missing
        /\ result'.extra = result.extra /\ result'.changed = result.changed
        /\ result'.sourceCount = result.sourceCount
        /\ counted' = counted /\ pc = "bounds_tgt" /\ pc' \in {"done", "segment"}
    BY <1>7 DEF BoundsTarget, Invariants, Shape, TypeInv
  <2> QED
    BY <1>2, <1>3, <1>4, <2>1 DEF QuietInv, LoopPC
<1>8. CASE Segmentise \/ StatsSource \/ StatsTarget \/ BisectSegment \/ EndLoop \/ FetchSource
  <2>1. counted' = counted /\ result' = result
    BY <1>8 DEF Segmentise, StatsSource, StatsTarget, BisectSegment, EndLoop, FetchSource
  <2>2. pc \in LoopPC \cup {"segment"}
    BY <1>8 DEF Segmentise, StatsSource, StatsTarget, BisectSegment, EndLoop, FetchSource,
                LoopPC
  <2> QED
    BY <1>2, <1>3, <1>4, <2>1, <2>2 DEF QuietInv, LoopPC
<1>9. CASE FetchTarget
  <2>1. KindsCounted'
    BY <1>9, QuietFetch
  <2>2. /\ result'.sourceCount = result.sourceCount
        /\ result'.targetCount = result.targetCount
        /\ pc \in LoopPC /\ pc' = "stats_src"
    BY <1>9, FetchTargetIs, ClassifiedIs DEF Invariants
  <2> QED
    BY <1>2, <1>3, <2>1, <2>2 DEF QuietInv, LoopPC
<1>10. CASE UNCHANGED vars
  BY <1>2, <1>3, <1>4, <1>10 DEF vars, QuietInv
<1> QED
  BY <1>1, <1>2, <1>5, <1>6, <1>7, <1>8, <1>9, <1>10 DEF Next, Query, Terminated

(* The names DiffSpec gives to the classification are those of this module. *)
LEMMA SameNames ==
  /\ \A table : Promise!Rows(table) = Rows(table)
  /\ \A table : Promise!KeyUnique(table) <=> KeyUnique(table)
  /\ Promise!Table = Table
  /\ \A s, t : /\ Promise!Missing(s, t) = Missing(s, t)
               /\ Promise!Extra(s, t) = Extra(s, t)
               /\ Promise!Changed(s, t) = Changed(s, t)
               /\ Promise!RowDiffs(s, t) = RowDiffs(s, t)
  /\ \A S : Promise!Cardinality(S) = Cardinality(S)
<1>1. \A table : Promise!Rows(table) = Rows(table)
  BY DEF Promise!Rows, Rows, Promise!Row, Row
<1>2. \A s, t : /\ Promise!Missing(s, t) = Missing(s, t)
                /\ Promise!Extra(s, t) = Extra(s, t)
                /\ Promise!Changed(s, t) = Changed(s, t)
  BY DEF Promise!Missing, Missing, Promise!Extra, Extra, Promise!Changed, Changed,
         Promise!KeysOf, KeysOf
<1>3. \A s, t : Promise!RowDiffs(s, t) = RowDiffs(s, t)
  BY <1>2 DEF Promise!RowDiffs, RowDiffs
<1>4. \A S : Promise!Cardinality(S) = Cardinality(S)
  BY DEF Promise!Cardinality, Cardinality
<1>5. \A table : Promise!KeyUnique(table) <=> KeyUnique(table)
  BY <1>4 DEF Promise!KeyUnique, KeyUnique
<1>6. Promise!Table = Table
  BY DEF Promise!Table, Table
<1> QED
  BY <1>1, <1>2, <1>3, <1>4, <1>5, <1>6

LEMMA DoneIsExact ==
  (\A k \in Key : Lead[k] # None) /\ Invariants /\ QuietInv /\ pc = "done"
    => Promise!ExactReport(result, src, tgt)
<1> SUFFICES ASSUME Invariants, QuietInv, \A k \in Key : Lead[k] # None, pc = "done"
             PROVE  Promise!ExactReport(result, src, tgt)
  OBVIOUS
<1>1. /\ src \in Table /\ tgt \in Table /\ result \in Report
      /\ Rows(src) \subseteq Row /\ Rows(tgt) \subseteq Row
  BY DEF Invariants, Shape, TypeInv, Report, Rows
<1>2. /\ Diffs \subseteq RowDiff /\ IsFiniteSet(Diffs) /\ Cardinality(Diffs) \in Nat
      /\ Cardinality(Diffs) = Cardinality(Missing(Rows(src), Rows(tgt))) +
                              Cardinality(Extra(Rows(src), Rows(tgt))) +
                              Cardinality(Changed(Rows(src), Rows(tgt)))
  BY <1>1, KeyAssumption, RowDiffsCount, FS_CardinalityType DEF Diffs
<1>3. ASSUME NEW k \in Key
      PROVE  /\ counted[k] = IF src[k] = tgt[k] THEN 0 ELSE 1
             /\ \A d \in result.listed : d.key = k =>
                  src[k] # tgt[k] /\ d = DiffAt(src, tgt, k)
             /\ \A d : d \in Diffs /\ d.key = k <=> src[k] # tgt[k] /\ d = DiffAt(src, tgt, k)
  <2>1. /\ counted[k] = IF src[k] = tgt[k] THEN 0 ELSE 1
        /\ \A d \in result.listed : d.key = k =>
             src[k] # tgt[k] /\ d = DiffAt(src, tgt, k)
        /\ One(src[k]) /\ One(tgt[k])
    BY DoneIsSettled DEF QuietInv
  <2> QED
    BY <1>1, <2>1, RowDiffOfKey DEF Diffs, One
<1>4. ASSUME NEW kind
      PROVE  CountedOf(kind) = { k \in Key : Tagged(k, kind) \in Diffs }
  <2>1. ASSUME NEW k \in Key, Tagged(k, kind) \in Diffs PROVE counted[k] = 1
    <3>1. Tagged(k, kind).key = k
      BY DEF Tagged
    <3> QED
      BY <1>3, <2>1, <3>1
  <2> QED
    BY <2>1 DEF CountedOf
<1>5. /\ result.missing = Cardinality(Missing(Rows(src), Rows(tgt)))
      /\ result.extra = Cardinality(Extra(Rows(src), Rows(tgt)))
      /\ result.changed = Cardinality(Changed(Rows(src), Rows(tgt)))
  BY <1>1, <1>4, KeysOfKind DEF QuietInv, KindsCounted, Diffs
<1>6. result.listed \subseteq Diffs
  <2> SUFFICES ASSUME NEW d \in result.listed PROVE d \in Diffs
    OBVIOUS
  <2>1. d.key \in Key
    BY <1>1 DEF Report, RowDiff
  <2> QED
    BY <1>3, <2>1
<1>7. /\ Cardinality(result.listed) = Lesser(Cardinality(Diffs), MaxDiffRows)
      /\ result.truncated <=> Cardinality(Diffs) > MaxDiffRows
  BY <1>2, <1>5 DEF Invariants, CapInv, CapExact
<1>8. ASSUME Cardinality(Diffs) <= MaxDiffRows
      PROVE  result.listed = Diffs /\ ~result.truncated
  <2>1. Cardinality(result.listed) = Cardinality(Diffs)
    BY <1>7, <1>8 DEF Lesser
  <2>2. result.listed = Diffs
    BY <1>2, <1>6, <2>1, FS_Subset
  <2>3. ~(Cardinality(Diffs) > MaxDiffRows)
    BY <1>2, <1>8, ParameterAssumption
  <2> QED
    BY <1>7, <2>2, <2>3
<1>9. ASSUME ~(Cardinality(Diffs) <= MaxDiffRows)
      PROVE  Cardinality(result.listed) = MaxDiffRows /\ result.truncated
  <2>1. Cardinality(Diffs) > MaxDiffRows
    BY <1>2, <1>9, ParameterAssumption
  <2> QED
    BY <1>7, <1>9, <2>1 DEF Lesser
<1>10. /\ result.sourceCount = Cardinality(Rows(src))
       /\ result.targetCount = Cardinality(Rows(tgt))
  BY DEF QuietInv
<1>11. Promise!RowDiffs(Promise!Rows(src), Promise!Rows(tgt)) = Diffs
  BY SameNames DEF Diffs
<1> QED
  BY <1>5, <1>6, <1>8, <1>9, <1>10, <1>11, SameNames DEF Promise!ExactReport

(* Every step is a step of DiffSpec or a stutter: the outcome changes once, *)
(* with the report that is exact for the tables or for a key that is not    *)
(* unique.                                                                  *)
LEMMA Refines ==
  ASSUME Invariants, QuietInv, Invariants', QuietInv', src' = src, tgt' = tgt,
         \A k \in Key : Lead[k] # None, MaxWrites = 0, [Next]_vars
  PROVE  [Promise!SpecNext]_(Promise!specVars)
<1> DEFINE out == CASE pc = "done" -> "report"
                    [] pc = "non_unique" -> "non_unique"
                    [] OTHER -> "running"
           none == [sourceCount |-> 0, targetCount |-> 0, missing |-> 0, extra |-> 0,
                    changed |-> 0, listed |-> {}, truncated |-> FALSE]
           rep == IF pc = "done" THEN result ELSE none
<1>1. ASSUME out' = out, rep' = rep PROVE UNCHANGED Promise!specVars
  BY <1>1 DEF Promise!specVars
<1>2. ASSUME ~Finished, pc' = "done" PROVE Promise!Report
  <2>1. Promise!ExactReport(result, src, tgt)'
    <3>1. ((\A k \in Key : Lead[k] # None) /\ Invariants /\ QuietInv /\ pc = "done"
             => Promise!ExactReport(result, src, tgt))'
      BY DoneIsExact, PTL
    <3> QED
      BY <1>2, <3>1
  <2>2. KeyUnique(src) /\ KeyUnique(tgt)
    BY <1>2 DEF QuietInv
  <2> QED
    BY <1>2, <2>1, <2>2, SameNames DEF Promise!Report, Finished
<1>3. ASSUME ~Finished, pc' = "non_unique", ~(KeyUnique(src) /\ KeyUnique(tgt))
      PROVE  Promise!RejectKey
  BY <1>3, SameNames DEF Promise!RejectKey, Finished
<1>4. ASSUME ~Finished, pc' \notin {"done", "non_unique"} PROVE UNCHANGED Promise!specVars
  BY <1>1, <1>4 DEF Finished
<1>5. CASE UniqueSource \/ UniqueTarget
  BY <1>3, <1>4, <1>5 DEF UniqueSource, UniqueTarget, Finished, Promise!SpecNext
<1>6. CASE BoundsSource \/ BoundsTarget \/ Segmentise \/ StatsSource \/ StatsTarget
           \/ BisectSegment \/ EndLoop \/ FetchSource \/ FetchTarget
  <2>1. ~Finished
    BY <1>6 DEF Finished, BoundsSource, BoundsTarget, Segmentise, StatsSource, StatsTarget,
                BisectSegment, EndLoop, FetchSource, FetchTarget
  <2>2. pc' # "non_unique"
    <3>1. CASE BisectSegment
      BY <3>1, BisectStack DEF Invariants
    <3>2. CASE EndLoop
      BY <3>2, EndLoopStack DEF Invariants
    <3>3. CASE FetchTarget
      BY <3>3 DEF FetchTarget
    <3>4. CASE StatsSource \/ StatsTarget \/ FetchSource
      BY <3>4 DEF StatsSource, StatsTarget, FetchSource
    <3>5. CASE BoundsSource \/ BoundsTarget \/ Segmentise
      BY <3>5 DEF BoundsSource, BoundsTarget, Segmentise
    <3> QED
      BY <1>6, <3>1, <3>2, <3>3, <3>4, <3>5
  <2> QED
    BY <1>2, <1>4, <2>1, <2>2 DEF Promise!SpecNext
<1>7. CASE UNCHANGED vars
  BY <1>1, <1>7 DEF vars
<1>8. ~Write
  BY DEF Write, Invariants, Shape, TypeInv
<1> QED
  BY <1>5, <1>6, <1>7, <1>8 DEF Next, Query, Terminated

(* On tables nobody writes to, with no NULL in a leading key column, the    *)
(* sequential path implements DiffSpec: whatever the segments, the samples  *)
(* and the limits are, its report is the exact classification of the two    *)
(* tables, or the error for a key that is not unique.                       *)
THEOREM Implements ==
  ASSUME MaxWrites = 0, \A k \in Key : Lead[k] # None
  PROVE  Spec => ImplementsDiffSpec
<1>1. ASSUME Init PROVE QuietInv
  <2>1. /\ touched = {} /\ pc = "unique_src" /\ \A k \in Key : counted[k] = 0
        /\ result.missing = 0 /\ result.extra = 0 /\ result.changed = 0
    BY <1>1 DEF Init
  <2>2. \A kind : CountedOf(kind) = {}
    BY <2>1 DEF CountedOf
  <2>3. KindsCounted
    BY <2>1, <2>2, FS_EmptySet DEF KindsCounted
  <2> QED
    BY <2>1, <2>3 DEF QuietInv, LoopPC
<1>2. Init => Promise!SpecInit
  <2> SUFFICES ASSUME Init PROVE Promise!SpecInit
    OBVIOUS
  <2>1. src \in Table /\ tgt \in Table /\ pc = "unique_src"
    BY InitInvariants DEF Init, Invariants, Shape, TypeInv
  <2> QED
    BY <2>1, SameNames DEF Promise!SpecInit, Promise!EmptyReport
<1>3. Invariants /\ [Next]_vars => Invariants'
  BY ShapeStep, NestStep, CountStep, CapStep, ExactStep DEF Invariants
<1>4. Invariants /\ QuietInv /\ [Next]_vars => QuietInv'
  BY QuietStep
<1>5. Invariants /\ QuietInv /\ [Next]_vars => [Promise!SpecNext]_(Promise!specVars)
  BY <1>3, QuietStep, Refines
<1> QED
  BY <1>1, <1>2, <1>3, <1>4, <1>5, InitInvariants, PTL
     DEF Spec, ImplementsDiffSpec, Promise!SafeSpec
===============================================================================
