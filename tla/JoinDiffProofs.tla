---------------------------- MODULE JoinDiffProofs ----------------------------
(***************************************************************************)
(* Proofs about JoinDiff for any tables, any keys and any number of         *)
(* concurrent writes.                                                       *)
(***************************************************************************)
EXTENDS JoinDiff, SegmentationProofs

-------------------------------------------------------------------------------
(* Joins are finite. *)
LEMMA JoinRowsFinite == IsFiniteSet(JoinRows)
<1> DEFINE triples == Key \X (Side \X Side)
           row(x) == [key |-> x[1], s |-> x[2][1], t |-> x[2][2]]
           f == [x \in triples |-> row(x)]
<1>1. IsFiniteSet(triples)
  <2>1. IsFiniteSet(SUBSET Val)
    BY JoinAssumption, FS_SUBSET
  <2>2. Side \in SUBSET SUBSET Val
    BY DEF Side
  <2>3. IsFiniteSet(Side)
    BY <2>1, <2>2, FS_Subset
  <2>4. IsFiniteSet(Side \X Side)
    BY <2>3, FS_Product
  <2> QED
    BY <2>4, JoinAssumption, FS_Product
<1>2. \A x \in triples : row(x) \in JoinRows
  BY DEF JoinRows
<1>3. f \in [triples -> JoinRows]
  BY <1>2
<1>4. ASSUME NEW j \in JoinRows PROVE \E x \in triples : f[x] = j
  <2>1. j = [key |-> j.key, s |-> j.s, t |-> j.t] /\ j.key \in Key /\ j.s \in Side /\ j.t \in Side
    BY DEF JoinRows
  <2>2. << j.key, << j.s, j.t >> >> \in triples
    BY <2>1
  <2>3. f[<< j.key, << j.s, j.t >> >>] = row(<< j.key, << j.s, j.t >> >>)
    BY <2>2
  <2> QED
    BY <2>1, <2>2, <2>3
<1>5. f \in Surjection(triples, JoinRows)
  BY <1>3, <1>4, Fun_IsSurj
<1> QED
  BY <1>1, <1>5, FS_Surjection

LEMMA DifferingType ==
  ASSUME NEW s, NEW t
  PROVE  Differing(s, t) \subseteq JoinRows /\ IsFiniteSet(Differing(s, t))
<1>1. Differing(s, t) \in SUBSET JoinRows
  BY DEF Differing, FullOuterJoin
<1> QED
  BY <1>1, JoinRowsFinite, FS_Subset

LEMMA PartOfDiffering ==
  ASSUME NEW s, NEW t, NEW P \in SUBSET Differing(s, t)
  PROVE  IsFiniteSet(P) /\ Cardinality(P) \in Nat
<1>1. IsFiniteSet(P)
  BY DifferingType, FS_Subset
<1> QED
  BY <1>1, FS_CardinalityType

(* No row of the join differs: the tables are equal. *)
LEMMA NoneDiffers ==
  ASSUME NEW s \in Table, NEW t \in Table, Differing(s, t) = {}
  PROVE  \A k \in Key : s[k] = t[k]
<1> SUFFICES ASSUME NEW k \in Key PROVE s[k] = t[k]
  OBVIOUS
<1>1. s[k] \subseteq Val /\ t[k] \subseteq Val
  BY DEF Table
<1>2. ASSUME NEW v \in s[k], k \in NullPart \/ t[k] = {} PROVE FALSE
  <2> DEFINE j == [key |-> k, s |-> {v}, t |-> {}]
  <2>1. j \in JoinRows
    BY <1>1 DEF JoinRows, Side
  <2>2. j \in Differing(s, t)
    BY <1>2, <2>1 DEF Differing, FullOuterJoin, TargetNull
  <2> QED
    BY <2>2
<1>3. ASSUME NEW w \in t[k], k \in NullPart \/ s[k] = {} PROVE FALSE
  <2> DEFINE j == [key |-> k, s |-> {}, t |-> {w}]
  <2>1. j \in JoinRows
    BY <1>1 DEF JoinRows, Side
  <2>2. j \in Differing(s, t)
    BY <1>3, <2>1 DEF Differing, FullOuterJoin, SourceNull
  <2> QED
    BY <2>2
<1>4. ASSUME NEW v \in s[k], NEW w \in t[k], v # w, k \notin NullPart PROVE FALSE
  <2> DEFINE j == [key |-> k, s |-> {v}, t |-> {w}]
  <2>1. j \in JoinRows
    BY <1>1 DEF JoinRows, Side
  <2>2. j \in Differing(s, t)
    BY <1>4, <2>1 DEF Differing, FullOuterJoin
  <2> QED
    BY <2>2
<1> QED
  BY <1>2, <1>3, <1>4

-------------------------------------------------------------------------------
Report == [sourceCount : Nat, targetCount : Nat, missing : Nat, extra : Nat,
           changed : Nat, listed : SUBSET RowDiff, truncated : BOOLEAN]

LEMMA TypeInit == Init => TypeInv
<1> SUFFICES ASSUME Init PROVE TypeInv
  OBVIOUS
<1>1. src \in Table /\ tgt \in Table
  BY JoinAssumption DEF Init
<1> QED
  BY <1>1 DEF Init, TypeInv, PC

LEMMA DiffOfType ==
  ASSUME NEW j \in JoinRows
  PROVE  DiffOf(j) \in RowDiff
BY DEF DiffOf, JoinRows, RowDiff, Kind

LEMMA TypeStep == TypeInv /\ [Next]_vars => TypeInv'
<1> SUFFICES ASSUME TypeInv, [Next]_vars PROVE TypeInv'
  OBVIOUS
<1>0. result \in Report
  BY DEF TypeInv, Report
<1>1. ASSUME result' \in Report, pc' \in PC, UNCHANGED tables PROVE TypeInv'
  BY <1>1 DEF TypeInv, Report, tables
<1>2. CASE UniqueSource \/ UniqueTarget
  BY <1>0, <1>1, <1>2 DEF UniqueSource, UniqueTarget, PC
<1>3. CASE CountSource
  <2>1. Cardinality(Rows(src)) \in Nat
    BY JoinAssumption, RowsType DEF TypeInv
  <2>2. result' \in Report
    BY <1>0, <1>3, <2>1 DEF CountSource, Report
  <2> QED
    BY <1>1, <1>3, <2>2 DEF CountSource, PC
<1>4. CASE CountTarget
  <2>1. Cardinality(Rows(tgt)) \in Nat
    BY JoinAssumption, RowsType DEF TypeInv
  <2>2. result' \in Report
    BY <1>0, <1>4, <2>1 DEF CountTarget, Report
  <2> QED
    BY <1>1, <1>4, <2>2 DEF CountTarget, PC
<1>5. CASE DiffCounts
  <2> DEFINE rows    == Differing(src, Joined)
             missing == Cardinality({ j \in rows : TargetNull(j) })
             extra   == Cardinality({ j \in rows : SourceNull(j) })
             changed == Cardinality({ j \in rows : ~TargetNull(j) /\ ~SourceNull(j) })
             cut     == missing + extra + changed > MaxDiffRows
  <2>1. missing \in Nat /\ extra \in Nat /\ changed \in Nat /\ cut \in BOOLEAN
    BY PartOfDiffering
  <2>2. result' = [result EXCEPT !.missing = missing, !.extra = extra,
                                 !.changed = changed, !.truncated = cut]
    BY <1>5 DEF DiffCounts
  <2> HIDE DEF missing, extra, changed, cut
  <2>3. result' \in Report
    BY <1>0, <2>1, <2>2 DEF Report
  <2> QED
    BY <1>1, <1>5, <2>3 DEF DiffCounts, PC
<1>6. CASE JoinFails
  BY <1>0, <1>1, <1>6 DEF JoinFails, PC
<1>7. CASE Detail
  <2> DEFINE rows == Differing(src, Joined)
  <2>1. PICK first \in SUBSET rows :
          result' = [result EXCEPT !.listed = { DiffOf(j) : j \in first },
                                   !.truncated = @ \/ Cardinality(rows) > MaxDiffRows]
    BY <1>7 DEF Detail
  <2>2. { DiffOf(j) : j \in first } \subseteq RowDiff
    BY DiffOfType, DifferingType
  <2> DEFINE listed == { DiffOf(j) : j \in first }
             cut == result.truncated \/ Cardinality(rows) > MaxDiffRows
  <2>3. cut \in BOOLEAN /\ listed \in SUBSET RowDiff
    BY <2>2
  <2>4. result' = [result EXCEPT !.listed = listed, !.truncated = cut]
    BY <2>1
  <2> HIDE DEF listed, cut
  <2>5. result' \in Report
    BY <1>0, <2>3, <2>4 DEF Report
  <2> QED
    BY <1>1, <1>7, <2>5 DEF Detail, PC
<1>8. CASE Write
  <2>1. PICK k \in Key, vs \in { {} } \cup { {v} : v \in Val } :
          /\ \/ src' = [src EXCEPT ![k] = vs] /\ UNCHANGED tgt
             \/ tgt' = [tgt EXCEPT ![k] = vs] /\ UNCHANGED src
          /\ touched' = touched \cup {k}
    BY <1>8 DEF Write
  <2>2. src' \in Table /\ tgt' \in Table
    BY <2>1 DEF TypeInv, Table
  <2> QED
    BY <1>8, <2>1, <2>2 DEF Write, TypeInv
<1>9. CASE UNCHANGED vars
  BY <1>0, <1>1, <1>9 DEF vars, TypeInv
<1> QED
  BY <1>2, <1>3, <1>4, <1>5, <1>6, <1>7, <1>8, <1>9 DEF Next, Query, Terminated

(* Every query leaves a report of the right shape. *)
THEOREM TypeCorrect == Spec => []TypeInv
<1> QED
  BY TypeInit, TypeStep, PTL DEF Spec

-------------------------------------------------------------------------------
(* What each query establishes about the keys nobody has written to, and    *)
(* later writes cannot take away.                                           *)
KeysUnique(table) == \A k \in Key \ touched : Cardinality(table[k]) <= 1

SourceChecked == pc \notin {"unique_src", "non_unique", "failed"} => KeysUnique(src)

TargetChecked ==
  pc \notin {"unique_src", "unique_tgt", "non_unique", "failed"} => KeysUnique(tgt)

NothingCounted == result.missing = 0 /\ result.extra = 0 /\ result.changed = 0

CountsTrue ==
  pc \in {"detail", "done"} /\ namesake = Shared /\ NothingCounted =>
    \A k \in Key \ touched : src[k] = tgt[k]

StableInv == TypeInv /\ SourceChecked /\ TargetChecked /\ CountsTrue

(* A write changes no key but the one it touches. *)
LEMMA WriteTouches ==
  ASSUME TypeInv, Write
  PROVE  /\ touched \subseteq touched'
         /\ \A k \in Key \ touched' : src'[k] = src[k] /\ tgt'[k] = tgt[k]
         /\ UNCHANGED << pc, result, namesake >>
<1>1. PICK k \in Key, vs \in { {} } \cup { {v} : v \in Val } :
        /\ \/ src' = [src EXCEPT ![k] = vs] /\ UNCHANGED tgt
           \/ tgt' = [tgt EXCEPT ![k] = vs] /\ UNCHANGED src
        /\ touched' = touched \cup {k}
  BY DEF Write
<1> QED
  BY <1>1 DEF Write, TypeInv, Table

LEMMA StableInit == Init => StableInv
BY TypeInit DEF Init, StableInv, SourceChecked, TargetChecked, CountsTrue

LEMMA StableStep == StableInv /\ [Next]_vars => StableInv'
<1> SUFFICES ASSUME StableInv, [Next]_vars
             PROVE  SourceChecked' /\ TargetChecked' /\ CountsTrue'
  BY TypeStep DEF StableInv
<1> USE DEF StableInv, SourceChecked, TargetChecked, CountsTrue, KeysUnique, NothingCounted
<1>1. CASE UniqueSource
  BY <1>1 DEF UniqueSource, tables, KeyUnique
<1>2. CASE UniqueTarget
  BY <1>2 DEF UniqueTarget, tables, KeyUnique
<1>3. CASE CountSource \/ CountTarget \/ JoinFails
  BY <1>3 DEF CountSource, CountTarget, JoinFails, tables
<1>4. CASE DiffCounts
  <2> DEFINE rows    == Differing(src, Joined)
             missing == { j \in rows : TargetNull(j) }
             extra   == { j \in rows : SourceNull(j) }
             changed == { j \in rows : ~TargetNull(j) /\ ~SourceNull(j) }
  <2>1. pc' = "detail" /\ UNCHANGED tables /\ pc = "counts"
    BY <1>4 DEF DiffCounts
  <2>2. /\ result'.missing = Cardinality(missing)
        /\ result'.extra = Cardinality(extra)
        /\ result'.changed = Cardinality(changed)
    BY <1>4 DEF DiffCounts, TypeInv
  <2>3. ASSUME namesake = Shared, NothingCounted' PROVE \A k \in Key : src[k] = tgt[k]
    <3>1. Joined = tgt
      BY <2>3 DEF Joined
    <3>2. IsFiniteSet(missing) /\ IsFiniteSet(extra) /\ IsFiniteSet(changed)
      BY PartOfDiffering
    <3>3. missing = {} /\ extra = {} /\ changed = {}
      BY <2>2, <2>3, <3>2, CardinalityZero
    <3>4. rows = {}
      BY <3>3
    <3> QED
      BY <3>1, <3>4, NoneDiffers DEF TypeInv
  <2>4. CountsTrue'
    BY <2>1, <2>3 DEF tables
  <2> QED
    BY <2>1, <2>4 DEF tables
<1>5. CASE Detail
  <2>1. /\ pc = "detail" /\ pc' = "done" /\ UNCHANGED tables
        /\ result'.missing = result.missing /\ result'.extra = result.extra
        /\ result'.changed = result.changed
    BY <1>5 DEF Detail, TypeInv
  <2> QED
    BY <2>1 DEF tables
<1>6. CASE Write
  BY <1>6, WriteTouches
<1>7. CASE UNCHANGED vars
  BY <1>7 DEF vars, tables
<1> QED
  BY <1>1, <1>2, <1>3, <1>4, <1>5, <1>6, <1>7 DEF Next, Query, Terminated

LEMMA StableAlways == Spec => []StableInv
<1> QED
  BY StableInit, StableStep, PTL DEF Spec

(* A duplicated key that nobody is writing to never gets past the two       *)
(* uniqueness checks, whoever writes in the meantime (SPEC.md 4.4).         *)
THEOREM DuplicatesStop == Spec => []DuplicatesRejected
<1>1. StableInv => DuplicatesRejected
  BY DEF StableInv, SourceChecked, TargetChecked, KeysUnique, DuplicatesRejected
<1> QED
  BY <1>1, StableAlways, PTL

(* "Never report MATCH when rows differ" (SPEC.md:336), for two tables of   *)
(* one connection: with NULLs in the key or without.                        *)
THEOREM MatchTrue == Spec => []MatchIsTrue
<1>1. StableInv => MatchIsTrue
  BY DEF StableInv, CountsTrue, NothingCounted, MatchIsTrue, NoSilentWrongAnswer, IsMatch
<1> QED
  BY <1>1, StableAlways, PTL

-------------------------------------------------------------------------------
(* Without NULLs in the key, a key with at most one row on either side has  *)
(* at most one row in the join, and that is read as the difference the      *)
(* classification of rows would find.                                       *)
LEMMA DifferingOfKey ==
  ASSUME NullPart = {}, NEW s \in Table, NEW t \in Table, NEW k \in Key,
         s[k] = {} \/ \E v \in Val : s[k] = {v},
         t[k] = {} \/ \E v \in Val : t[k] = {v},
         NEW j
  PROVE  /\ j \in Differing(s, t) /\ j.key = k
              <=> s[k] # t[k] /\ j = [key |-> k, s |-> s[k], t |-> t[k]]
         /\ j \in Differing(s, t) /\ j.key = k =>
              /\ TargetNull(j) <=> t[k] = {}
              /\ SourceNull(j) <=> s[k] = {}
              /\ DiffOf(j) = DiffAt(s, t, k)
<1>0. NullLead = {}
  BY JoinAssumption
<1>1. ASSUME j \in Differing(s, t), j.key = k
      PROVE  s[k] # t[k] /\ j = [key |-> k, s |-> s[k], t |-> t[k]]
  <2>1. j = [key |-> k, s |-> j.s, t |-> j.t]
    BY <1>1 DEF Differing, FullOuterJoin, JoinRows
  <2>2. j.s = s[k] /\ j.t = t[k]
    BY <1>1 DEF Differing, FullOuterJoin
  <2>3. s[k] # t[k]
    BY <1>0, <1>1, <2>2 DEF Differing, FullOuterJoin, SourceNull, TargetNull
  <2> QED
    BY <2>1, <2>2, <2>3
<1>2. ASSUME s[k] # t[k], j = [key |-> k, s |-> s[k], t |-> t[k]]
      PROVE  j \in Differing(s, t) /\ j.key = k
  <2>1. j.key = k /\ j.s = s[k] /\ j.t = t[k]
    BY <1>2
  <2>2. j \in JoinRows
    BY <1>2 DEF JoinRows, Side
  <2>3. j \in FullOuterJoin(s, t)
    BY <1>2, <2>1, <2>2 DEF FullOuterJoin
  <2> QED
    BY <1>2, <2>1, <2>3 DEF Differing
<1>3. ASSUME j = [key |-> k, s |-> s[k], t |-> t[k]]
      PROVE  /\ TargetNull(j) <=> t[k] = {}
             /\ SourceNull(j) <=> s[k] = {}
             /\ DiffOf(j) = DiffAt(s, t, k)
  BY <1>0, <1>3 DEF TargetNull, SourceNull, DiffOf, DiffAt
<1> QED
  BY <1>1, <1>2, <1>3

LEMMA SidesOfKey ==
  ASSUME StableInv, pc \in {"counts", "detail"}, NEW k \in Key \ touched
  PROVE  /\ src[k] = {} \/ \E v \in Val : src[k] = {v}
         /\ tgt[k] = {} \/ \E v \in Val : tgt[k] = {v}
<1>1. Cardinality(src[k]) <= 1 /\ Cardinality(tgt[k]) <= 1
  BY DEF StableInv, SourceChecked, TargetChecked, KeysUnique
<1>2. src[k] \in SUBSET Val /\ tgt[k] \in SUBSET Val
  BY DEF StableInv, TypeInv, Table
<1> QED
  BY <1>1, <1>2, AtMostOneValue, JoinAssumption

(* What LIMIT leaves is all of the rows if there are at most MaxDiffRows.   *)
LEMMA FirstRows ==
  ASSUME NEW rows, IsFiniteSet(rows), NEW first \in SUBSET rows,
         Cardinality(first) = IF Cardinality(rows) <= MaxDiffRows THEN Cardinality(rows)
                                                                 ELSE MaxDiffRows
  PROVE  first = rows \/ Cardinality(rows) > MaxDiffRows
<1>1. Cardinality(rows) \in Nat
  BY FS_CardinalityType
<1>2. CASE Cardinality(rows) <= MaxDiffRows
  BY <1>2, FS_Subset
<1>3. CASE ~(Cardinality(rows) <= MaxDiffRows)
  BY <1>1, <1>3, JoinAssumption
<1> QED
  BY <1>2, <1>3

LEMMA ListedStep ==
  ASSUME NullPart = {}, StableInv, StableRowsListed, [Next]_vars
  PROVE  StableRowsListed'
<1>1. CASE Detail
  <2> SUFFICES ASSUME namesake = Shared, NEW k \in Key \ touched
               PROVE  LET diffs == { d \in RowDiffs(Rows(src), Rows(tgt)) : d.key = k }
                          shown == { d \in result'.listed : d.key = k }
                      IN  shown = diffs \/ (shown = {} /\ result'.truncated)
    BY <1>1 DEF Detail, tables, StableRowsListed
  <2> DEFINE rows == Differing(src, tgt)
             row  == [key |-> k, s |-> src[k], t |-> tgt[k]]
  <2>1. Joined = tgt
    BY DEF Joined
  <2>2. PICK first \in SUBSET rows :
          /\ Cardinality(first) = IF Cardinality(rows) <= MaxDiffRows THEN Cardinality(rows)
                                                                     ELSE MaxDiffRows
          /\ result' = [result EXCEPT !.listed = { DiffOf(j) : j \in first },
                                      !.truncated = @ \/ Cardinality(rows) > MaxDiffRows]
    BY <1>1, <2>1 DEF Detail
  <2>3. /\ result'.listed = { DiffOf(j) : j \in first }
        /\ Cardinality(rows) > MaxDiffRows => result'.truncated
    BY <2>2 DEF StableInv, TypeInv
  <2>4. first = rows \/ Cardinality(rows) > MaxDiffRows
    BY <2>2, DifferingType, FirstRows
  <2>5. src \in Table /\ tgt \in Table
    BY DEF StableInv, TypeInv
  <2>6. /\ src[k] = {} \/ \E v \in Val : src[k] = {v}
        /\ tgt[k] = {} \/ \E v \in Val : tgt[k] = {v}
    BY <1>1, SidesOfKey DEF Detail
  <2>7. \A j : j \in rows /\ j.key = k <=> src[k] # tgt[k] /\ j = row
    BY <2>5, <2>6, DifferingOfKey
  <2>8. \A d : d \in RowDiffs(Rows(src), Rows(tgt)) /\ d.key = k
                 <=> src[k] # tgt[k] /\ d = DiffAt(src, tgt, k)
    BY <2>5, <2>6, RowDiffOfKey
  <2>9. row \in rows /\ row.key = k => DiffOf(row) = DiffAt(src, tgt, k)
    BY <2>5, <2>6, DifferingOfKey
  <2>10. \A j \in rows : DiffOf(j).key = j.key
    BY DEF DiffOf
  <2> HIDE DEF rows, row
  <2>11. CASE src[k] = tgt[k]
    BY <2>3, <2>7, <2>8, <2>10, <2>11
  <2>12. CASE src[k] # tgt[k] /\ row \in first
    <3>1. { d \in RowDiffs(Rows(src), Rows(tgt)) : d.key = k } = {DiffAt(src, tgt, k)}
      BY <2>8, <2>12
    <3>2. \A j \in first : j.key = k <=> j = row
      BY <2>7, <2>12
    <3>3. DiffOf(row) = DiffAt(src, tgt, k) /\ DiffOf(row).key = k
      BY <2>7, <2>9, <2>10, <2>12
    <3>4. { d \in result'.listed : d.key = k } = {DiffOf(row)}
      BY <2>3, <2>10, <2>12, <3>2, <3>3
    <3> QED
      BY <3>1, <3>3, <3>4
  <2>13. CASE src[k] # tgt[k] /\ row \notin first
    <3>1. \A j \in first : j.key # k
      BY <2>7, <2>13
    <3>2. { d \in result'.listed : d.key = k } = {}
      BY <2>3, <2>10, <3>1
    <3>3. result'.truncated
      BY <2>3, <2>4, <2>7, <2>13
    <3> QED
      BY <3>2, <3>3
  <2> QED
    BY <2>11, <2>12, <2>13
<1>2. CASE UNCHANGED vars
  BY <1>2 DEF vars, tables, StableRowsListed
<1>3. CASE pc' # "done"
  BY <1>3 DEF StableRowsListed
<1>4. Detail \/ UNCHANGED vars \/ pc' # "done"
  BY DEF Next, Query, UniqueSource, UniqueTarget, CountSource, CountTarget, DiffCounts,
         JoinFails, Write, Finished, Terminated
<1> QED
  BY <1>1, <1>2, <1>3, <1>4

(* The list and the counts come from two queries, and writes may come       *)
(* between them; still no row that nobody wrote to is missing from the list *)
(* unnoticed, listed with a wrong kind, or listed although it is the same.  *)
THEOREM StableListed == ASSUME NullPart = {} PROVE Spec => []StableRowsListed
<1>1. Init => StableRowsListed
  BY DEF Init, StableRowsListed
<1>2. StableInv /\ StableRowsListed /\ [Next]_vars => StableRowsListed'
  BY ListedStep
<1> QED
  BY <1>1, <1>2, StableAlways, PTL DEF Spec
-------------------------------------------------------------------------------
(* On two tables with unique keys the join finds the same differences as    *)
(* the classification of rows, and as many of each kind.                    *)
OneRow(table) == \A k \in Key : table[k] = {} \/ \E v \in Val : table[k] = {v}

LEMMA KindsCounted ==
  ASSUME NullPart = {}, NEW s \in Table, NEW t \in Table, OneRow(s), OneRow(t)
  PROVE  LET rows == Differing(s, t)
         IN  /\ Cardinality({ j \in rows : TargetNull(j) })
                  = Cardinality(Missing(Rows(s), Rows(t)))
             /\ Cardinality({ j \in rows : SourceNull(j) })
                  = Cardinality(Extra(Rows(s), Rows(t)))
             /\ Cardinality({ j \in rows : ~TargetNull(j) /\ ~SourceNull(j) })
                  = Cardinality(Changed(Rows(s), Rows(t)))
<1> DEFINE rows == Differing(s, t)
           row(k) == [key |-> k, s |-> s[k], t |-> t[k]]
           K(kind) == { k \in Key : s[k] # t[k] /\ DiffAt(s, t, k).kind = kind }
<1>1. ASSUME NEW k \in Key, NEW j
      PROVE  /\ j \in rows /\ j.key = k <=> s[k] # t[k] /\ j = row(k)
             /\ j \in rows /\ j.key = k =>
                  /\ TargetNull(j) <=> t[k] = {}
                  /\ SourceNull(j) <=> s[k] = {}
  BY DifferingOfKey DEF OneRow
<1>2. \A j \in rows : j.key \in Key
  BY DifferingType DEF JoinRows
<1>3. \A k \in Key : row(k).key = k
  OBVIOUS
<1>4. ASSUME NEW k \in Key, NEW kind \in Kind
      PROVE  k \in K(kind) <=> [key |-> k, kind |-> kind] \in RowDiffs(Rows(s), Rows(t))
  <2> DEFINE d == [key |-> k, kind |-> kind]
  <2>1. d \in RowDiffs(Rows(s), Rows(t)) <=> s[k] # t[k] /\ d = DiffAt(s, t, k)
    BY RowDiffOfKey DEF OneRow
  <2>2. d = DiffAt(s, t, k) <=> DiffAt(s, t, k).kind = kind
    BY DEF DiffAt
  <2> QED
    BY <2>1, <2>2
<1>5. /\ Missing(Rows(s), Rows(t)) \subseteq Key /\ Extra(Rows(s), Rows(t)) \subseteq Key
      /\ Changed(Rows(s), Rows(t)) \subseteq Key
  BY DEF Missing, Extra, Changed, KeysOf, Rows, Row
<1>6. /\ \A k \in Key : k \in K("missing") <=> k \in Missing(Rows(s), Rows(t))
      /\ \A k \in Key : k \in K("extra") <=> k \in Extra(Rows(s), Rows(t))
      /\ \A k \in Key : k \in K("changed") <=> k \in Changed(Rows(s), Rows(t))
  <2> SUFFICES ASSUME NEW k \in Key
               PROVE  /\ k \in K("missing") <=> k \in Missing(Rows(s), Rows(t))
                      /\ k \in K("extra") <=> k \in Extra(Rows(s), Rows(t))
                      /\ k \in K("changed") <=> k \in Changed(Rows(s), Rows(t))
    OBVIOUS
  <2>1. [key |-> k, kind |-> "missing"] \in RowDiffs(Rows(s), Rows(t))
          <=> k \in Missing(Rows(s), Rows(t))
    BY RowDiffMembers
  <2>2. [key |-> k, kind |-> "extra"] \in RowDiffs(Rows(s), Rows(t))
          <=> k \in Extra(Rows(s), Rows(t))
    BY RowDiffMembers
  <2>3. [key |-> k, kind |-> "changed"] \in RowDiffs(Rows(s), Rows(t))
          <=> k \in Changed(Rows(s), Rows(t))
    BY RowDiffMembers
  <2> HIDE DEF K
  <2> QED
    BY <1>4, <2>1, <2>2, <2>3 DEF Kind
<1>7. /\ K("missing") = Missing(Rows(s), Rows(t)) /\ K("extra") = Extra(Rows(s), Rows(t))
      /\ K("changed") = Changed(Rows(s), Rows(t))
  BY <1>5, <1>6
<1>8. \A k \in Key : /\ k \in K("missing") <=> s[k] # t[k] /\ t[k] = {}
                     /\ k \in K("extra") <=> s[k] # t[k] /\ s[k] = {}
                     /\ k \in K("changed") <=> s[k] # t[k] /\ t[k] # {} /\ s[k] # {}
  BY DEF DiffAt
<1>9. \A kind \in Kind : K(kind) \in SUBSET Key /\ IsFiniteSet(K(kind))
  BY JoinAssumption, FS_Subset
<1> DEFINE M == K("missing")
           X == K("extra")
           C == K("changed")
<1>10. IsFiniteSet(M) /\ IsFiniteSet(X) /\ IsFiniteSet(C)
  BY <1>9 DEF Kind
<1> HIDE DEF K, M, X, C, row, rows
<1>11. M \subseteq Key /\ X \subseteq Key /\ C \subseteq Key
  BY <1>5, <1>7 DEF M, X, C
<1>12. Cardinality({ j \in rows : TargetNull(j) }) = Cardinality(M)
  <2> DEFINE S == { j \in rows : TargetNull(j) }
  <2>1. \A x \in S : x.key \in M
    BY <1>1, <1>2, <1>8 DEF M
  <2>2. \A k \in M : \E x \in S : x.key = k
    BY <1>1, <1>3, <1>8, <1>11 DEF M
  <2>3. \A x, y \in S : x.key = y.key => x = y
    BY <1>1, <1>2
  <2> HIDE DEF S
  <2>4. Cardinality(S) = Cardinality(M)
    BY <1>10, <2>1, <2>2, <2>3, CountByKey
  <2> QED
    BY <2>4 DEF S
<1>13. Cardinality({ j \in rows : SourceNull(j) }) = Cardinality(X)
  <2> DEFINE S == { j \in rows : SourceNull(j) }
  <2>1. \A x \in S : x.key \in X
    BY <1>1, <1>2, <1>8 DEF X
  <2>2. \A k \in X : \E x \in S : x.key = k
    BY <1>1, <1>3, <1>8, <1>11 DEF X
  <2>3. \A x, y \in S : x.key = y.key => x = y
    BY <1>1, <1>2
  <2> HIDE DEF S
  <2>4. Cardinality(S) = Cardinality(X)
    BY <1>10, <2>1, <2>2, <2>3, CountByKey
  <2> QED
    BY <2>4 DEF S
<1>14. Cardinality({ j \in rows : ~TargetNull(j) /\ ~SourceNull(j) }) = Cardinality(C)
  <2> DEFINE S == { j \in rows : ~TargetNull(j) /\ ~SourceNull(j) }
  <2>1. \A x \in S : x.key \in C
    BY <1>1, <1>2, <1>8 DEF C
  <2>2. \A k \in C : \E x \in S : x.key = k
    BY <1>1, <1>3, <1>8, <1>11 DEF C
  <2>3. \A x, y \in S : x.key = y.key => x = y
    BY <1>1, <1>2
  <2> HIDE DEF S
  <2>4. Cardinality(S) = Cardinality(C)
    BY <1>10, <2>1, <2>2, <2>3, CountByKey
  <2> QED
    BY <2>4 DEF S
<1> QED
  BY <1>7, <1>12, <1>13, <1>14 DEF M, X, C, rows

(* Reading the rows of the join one by one gives the differences, each once. *)
LEMMA DiffsRead ==
  ASSUME NullPart = {}, NEW s \in Table, NEW t \in Table, OneRow(s), OneRow(t),
         NEW first \in SUBSET Differing(s, t)
  PROVE  LET read  == { DiffOf(j) : j \in first }
             diffs == RowDiffs(Rows(s), Rows(t))
         IN  /\ read \subseteq diffs
             /\ first = Differing(s, t) => read = diffs
             /\ Cardinality(read) = Cardinality(first)
<1> DEFINE rows  == Differing(s, t)
           read  == { DiffOf(j) : j \in first }
           diffs == RowDiffs(Rows(s), Rows(t))
           row(k) == [key |-> k, s |-> s[k], t |-> t[k]]
           keys  == { k \in Key : \E j \in first : j.key = k }
<1>1. ASSUME NEW k \in Key, NEW j
      PROVE  /\ j \in rows /\ j.key = k <=> s[k] # t[k] /\ j = row(k)
             /\ j \in rows /\ j.key = k => DiffOf(j) = DiffAt(s, t, k)
  BY DifferingOfKey DEF OneRow
<1>2. \A j \in rows : j.key \in Key /\ DiffOf(j).key = j.key
  BY DifferingType DEF JoinRows, DiffOf
<1>3. ASSUME NEW k \in Key, NEW d
      PROVE  d \in diffs /\ d.key = k <=> s[k] # t[k] /\ d = DiffAt(s, t, k)
  BY RowDiffOfKey DEF OneRow
<1>4. \A d \in diffs : d.key \in Key
  BY DEF RowDiffs, Missing, Extra, Changed, KeysOf, Rows, Row
<1>5. \A k \in Key : row(k).key = k
  OBVIOUS
<1>6. keys \in SUBSET Key /\ IsFiniteSet(keys)
  BY JoinAssumption, FS_Subset
<1> HIDE DEF rows, diffs, row
<1>7. first \subseteq rows
  BY DEF rows
<1>8. read \subseteq diffs
  <2> SUFFICES ASSUME NEW j \in first PROVE DiffOf(j) \in diffs
    OBVIOUS
  <2> QED
    BY <1>1, <1>2, <1>3, <1>7
<1>9. ASSUME first = rows, NEW d \in diffs PROVE d \in read
  <2>1. row(d.key) \in rows /\ DiffOf(row(d.key)) = d
    BY <1>1, <1>3, <1>4, <1>5
  <2> QED
    BY <1>9, <2>1
<1>10. \A d \in read : \E j \in first : d = DiffOf(j) /\ d.key = j.key
  BY <1>2, <1>7
<1>11. \A x, y \in first : x.key = y.key => x = y
  BY <1>1, <1>2, <1>7
<1>12. /\ \A d \in read : d.key \in keys
       /\ \A k \in keys : \E d \in read : d.key = k
       /\ \A c, d \in read : c.key = d.key => c = d
  <2>1. \A d \in read : d.key \in keys
    BY <1>2, <1>7, <1>10
  <2>2. \A k \in keys : \E d \in read : d.key = k
    BY <1>2, <1>7
  <2>3. \A c, d \in read : c.key = d.key => c = d
    BY <1>10, <1>11
  <2> QED
    BY <2>1, <2>2, <2>3
<1>13. /\ \A x \in first : x.key \in keys
       /\ \A k \in keys : \E x \in first : x.key = k
  BY <1>2, <1>7
<1> HIDE DEF read, keys
<1>14. Cardinality(read) = Cardinality(keys)
  BY <1>6, <1>12, CountByKey
<1>15. Cardinality(first) = Cardinality(keys)
  BY <1>6, <1>11, <1>13, CountByKey
<1> QED
  BY <1>8, <1>9, <1>14, <1>15 DEF read, rows, diffs

-------------------------------------------------------------------------------
(* What a report holds after each query while nobody writes.                *)
Diffs == RowDiffs(Rows(src), Rows(tgt))

SourceCounted ==
  pc \in {"count_tgt", "counts", "detail", "done"} =>
    result.sourceCount = Cardinality(Rows(src))

TargetCounted ==
  pc \in {"counts", "detail", "done"} => result.targetCount = Cardinality(Rows(tgt))

KindsExact ==
  pc \in {"detail", "done"} =>
    /\ result.missing = Cardinality(Missing(Rows(src), Rows(tgt)))
    /\ result.extra = Cardinality(Extra(Rows(src), Rows(tgt)))
    /\ result.changed = Cardinality(Changed(Rows(src), Rows(tgt)))
    /\ result.truncated <=> Cardinality(Diffs) > MaxDiffRows

ListExact ==
  pc = "done" => /\ result.listed \subseteq Diffs
                 /\ IF Cardinality(Diffs) <= MaxDiffRows
                    THEN result.listed = Diffs
                    ELSE Cardinality(result.listed) = MaxDiffRows

Exact == SourceCounted /\ TargetCounted /\ KindsExact /\ ListExact

QuietInv == namesake = Shared /\ touched = {} => Exact

(* The names DiffSpec gives to the classification are those of this module. *)
LEMMA ExactIsPromised ==
  ASSUME TypeInv, Exact, pc = "done"
  PROVE  Promise!ExactReport(result, src, tgt)
<1>1. \A table : Promise!Rows(table) = Rows(table)
  BY DEF Promise!Rows, Rows, Promise!Row, Row
<1>2. \A s, t : /\ Promise!Missing(s, t) = Missing(s, t)
                /\ Promise!Extra(s, t) = Extra(s, t)
                /\ Promise!Changed(s, t) = Changed(s, t)
  BY DEF Promise!Missing, Missing, Promise!Extra, Extra, Promise!Changed, Changed,
         Promise!KeysOf, KeysOf
<1>3. \A s, t : Promise!RowDiffs(s, t) = RowDiffs(s, t)
  BY <1>2 DEF Promise!RowDiffs, RowDiffs
<1>4. src \in Table /\ tgt \in Table
  BY DEF TypeInv
<1>5. Cardinality(Diffs) \in Nat
  <2>1. Rows(src) \subseteq Row /\ Rows(tgt) \subseteq Row
    BY DEF Rows
  <2>2. IsFiniteSet(Diffs)
    BY <2>1, RowDiffsCount, JoinAssumption DEF Diffs
  <2> QED
    BY <2>2, FS_CardinalityType
<1>6. MaxDiffRows \in Nat
  BY JoinAssumption
<1>7. \A S : Promise!Cardinality(S) = Cardinality(S)
  BY DEF Promise!Cardinality, Cardinality
<1> QED
  BY <1>1, <1>2, <1>3, <1>5, <1>6, <1>7
  DEF Promise!ExactReport, Exact, SourceCounted, TargetCounted, KindsExact, ListExact, Diffs

LEMMA QuietTables ==
  ASSUME StableInv, touched = {}, pc \in {"counts", "detail"}
  PROVE  src \in Table /\ tgt \in Table /\ OneRow(src) /\ OneRow(tgt)
BY SidesOfKey DEF StableInv, TypeInv, OneRow

LEMMA QuietStep ==
  ASSUME NullPart = {}, StableInv, QuietInv, [Next]_vars
  PROVE  QuietInv'
<1> USE DEF Exact, SourceCounted, TargetCounted, KindsExact, ListExact, Diffs
<1>0. result \in Report
  BY DEF StableInv, TypeInv, Report
<1>1. CASE UniqueSource \/ UniqueTarget \/ JoinFails
  BY <1>1 DEF UniqueSource, UniqueTarget, JoinFails, QuietInv, tables
<1>2. CASE CountSource
  BY <1>0, <1>2 DEF CountSource, QuietInv, tables, Report
<1>3. CASE CountTarget
  BY <1>0, <1>3 DEF CountTarget, QuietInv, tables, Report
<1>4. CASE DiffCounts
  <2> SUFFICES ASSUME namesake = Shared, touched = {} PROVE Exact'
    BY <1>4 DEF DiffCounts, QuietInv, tables
  <2> DEFINE rows    == Differing(src, Joined)
             missing == Cardinality({ j \in rows : TargetNull(j) })
             extra   == Cardinality({ j \in rows : SourceNull(j) })
             changed == Cardinality({ j \in rows : ~TargetNull(j) /\ ~SourceNull(j) })
             cut     == missing + extra + changed > MaxDiffRows
  <2>1. Joined = tgt
    BY DEF Joined
  <2>2. pc = "counts" /\ pc' = "detail" /\ UNCHANGED tables
    BY <1>4 DEF DiffCounts
  <2>3. result' = [result EXCEPT !.missing = missing, !.extra = extra,
                                 !.changed = changed, !.truncated = cut]
    BY <1>4 DEF DiffCounts
  <2>4. src \in Table /\ tgt \in Table /\ OneRow(src) /\ OneRow(tgt)
    BY <2>2, QuietTables
  <2>5. /\ missing = Cardinality(Missing(Rows(src), Rows(tgt)))
        /\ extra = Cardinality(Extra(Rows(src), Rows(tgt)))
        /\ changed = Cardinality(Changed(Rows(src), Rows(tgt)))
    BY <2>1, <2>4, KindsCounted
  <2>6. Cardinality(RowDiffs(Rows(src), Rows(tgt))) = missing + extra + changed
    <3>1. Rows(src) \subseteq Row /\ Rows(tgt) \subseteq Row
      BY DEF Rows
    <3> QED
      BY <2>5, <3>1, RowDiffsCount, JoinAssumption
  <2> HIDE DEF missing, extra, changed
  <2>7. /\ result'.missing = missing /\ result'.extra = extra /\ result'.changed = changed
        /\ result'.truncated = cut
        /\ result'.sourceCount = result.sourceCount /\ result'.targetCount = result.targetCount
    BY <1>0, <2>3 DEF Report
  <2>8. result.sourceCount = Cardinality(Rows(src)) /\ result.targetCount = Cardinality(Rows(tgt))
    BY <2>2 DEF QuietInv
  <2> QED
    BY <2>2, <2>5, <2>6, <2>7, <2>8 DEF tables
<1>5. CASE Detail
  <2> SUFFICES ASSUME namesake = Shared, touched = {} PROVE Exact'
    BY <1>5 DEF Detail, QuietInv, tables
  <2> DEFINE rows == Differing(src, tgt)
             diffs == RowDiffs(Rows(src), Rows(tgt))
  <2>1. Joined = tgt
    BY DEF Joined
  <2>2. pc = "detail" /\ pc' = "done" /\ UNCHANGED tables
    BY <1>5 DEF Detail
  <2>3. PICK first \in SUBSET rows :
          /\ Cardinality(first) = IF Cardinality(rows) <= MaxDiffRows THEN Cardinality(rows)
                                                                     ELSE MaxDiffRows
          /\ result' = [result EXCEPT !.listed = { DiffOf(j) : j \in first },
                                      !.truncated = @ \/ Cardinality(rows) > MaxDiffRows]
    BY <1>5, <2>1 DEF Detail
  <2> DEFINE listed == { DiffOf(j) : j \in first }
             cut == result.truncated \/ Cardinality(rows) > MaxDiffRows
  <2>4. src \in Table /\ tgt \in Table /\ OneRow(src) /\ OneRow(tgt)
    BY <2>2, QuietTables
  <2>5. /\ listed \subseteq diffs
        /\ first = rows => listed = diffs
        /\ Cardinality(listed) = Cardinality(first)
    BY <2>4, DiffsRead
  <2>6. Cardinality(diffs) = Cardinality(rows)
    <3>1. rows \in SUBSET Differing(src, tgt)
      OBVIOUS
    <3>2. /\ rows = Differing(src, tgt) => { DiffOf(j) : j \in rows } = diffs
          /\ Cardinality({ DiffOf(j) : j \in rows }) = Cardinality(rows)
      BY <2>4, <3>1, DiffsRead
    <3> QED
      BY <3>2
  <2>7. first = rows \/ Cardinality(rows) > MaxDiffRows
    BY <2>3, DifferingType, FirstRows
  <2>8. Cardinality(rows) \in Nat /\ MaxDiffRows \in Nat
    BY DifferingType, FS_CardinalityType, JoinAssumption
  <2>9. result' = [result EXCEPT !.listed = listed, !.truncated = cut]
    BY <2>3
  <2>10. Exact
    BY DEF QuietInv
  <2> HIDE DEF rows, diffs, listed
  <2>11. /\ result'.missing = result.missing /\ result'.extra = result.extra
         /\ result'.changed = result.changed
         /\ result'.truncated <=> cut
         /\ result'.listed = listed
         /\ result'.sourceCount = result.sourceCount /\ result'.targetCount = result.targetCount
    BY <1>0, <2>9 DEF Report
  <2>12. /\ SourceCounted' /\ TargetCounted'
    BY <2>2, <2>10, <2>11 DEF tables
  <2>13. KindsExact'
    BY <2>2, <2>6, <2>10, <2>11 DEF tables, diffs
  <2>14. IF Cardinality(diffs) <= MaxDiffRows THEN listed = diffs
                                              ELSE Cardinality(listed) = MaxDiffRows
    BY <2>3, <2>5, <2>6, <2>7, <2>8
  <2>15. ListExact'
    BY <2>2, <2>5, <2>11, <2>14 DEF tables, diffs
  <2> QED
    BY <2>12, <2>13, <2>15
<1>6. CASE Write
  <2>1. touched' # {}
    BY <1>6 DEF Write
  <2> QED
    BY <2>1 DEF QuietInv
<1>7. CASE UNCHANGED vars
  BY <1>7 DEF vars, tables, QuietInv
<1> QED
  BY <1>1, <1>2, <1>3, <1>4, <1>5, <1>6, <1>7 DEF Next, Query, Terminated

(* While nobody writes, the report of a joindiff is the one DiffSpec        *)
(* promises (SPEC.md:385): every count is exact, and the list is complete   *)
(* or says that it is not.                                                  *)
THEOREM Quiet == ASSUME NullPart = {} PROVE Spec => []ExactWhenQuiet
<1>1. Init => QuietInv
  BY DEF Init, QuietInv, Exact, SourceCounted, TargetCounted, KindsExact, ListExact
<1>2. StableInv /\ QuietInv /\ [Next]_vars => QuietInv'
  BY QuietStep
<1>3. StableInv /\ QuietInv => ExactWhenQuiet
  BY ExactIsPromised DEF StableInv, QuietInv, ExactWhenQuiet
<1> QED
  BY <1>1, <1>2, <1>3, StableAlways, PTL DEF Spec
===============================================================================
