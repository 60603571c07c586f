------------------------------- MODULE Sampling -------------------------------
(***************************************************************************)
(* --sample PCT and --sample-rows N of core/hashdiff.py: what fraction of   *)
(* the rows is asked for, and which rows the predicate keeps.               *)
(*                                                                          *)
(* A percentage is a float, in the units of module Floats.                  *)
(***************************************************************************)
EXTENDS Segmentation, RowHash

CONSTANT SampleModulus    \* 1000 in the code

ASSUME SampleAssumption ==
  /\ SampleModulus \in Nat \ {0}
  /\ 100 * SampleModulus < FloatLimit

(* _resolve_sample_pct for --sample-rows, from the row counts of both sides *)
(* before sampling.                                                         *)
Percentage(rows, count) ==
  Lesser(100 * FloatOne, Nearest(Nearest(rows * FloatOne, count) * 100, 1))

SampleRowsMutant(rows, srcCount, tgtCount) ==   \* mutation: the source's count only
  IF srcCount = 0 THEN 100 * FloatOne ELSE Percentage(rows, srcCount)

SampleRows(rows, srcCount, tgtCount) ==
  LET count == Greater(srcCount, tgtCount)
  IN  IF count = 0 THEN 100 * FloatOne ELSE Percentage(rows, count)

(* _apply_sample_predicate *)
Bucket(engine, digest) == Folded(RowHash(engine, digest), SampleModulus)

Threshold(pct) ==
  LET share == Nearest(Nearest(pct * SampleModulus, 1), 100)
  IN  Greater(0, Lesser(SampleModulus, Round(share, FloatOne)))

(* The predicate keeps the rows of these buckets.                           *)
KeptBuckets(pct) == { b \in 0..(SampleModulus - 1) : b < Threshold(pct) }
===============================================================================
