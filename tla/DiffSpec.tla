------------------------------ MODULE DiffSpec ------------------------------
(***************************************************************************)
(* What a diff promises, whichever algorithm computes it: one report, and   *)
(* the report is the exact classification of the two tables, with a list of *)
(* differences that is cut off at MaxDiffRows while the counts are not; or  *)
(* an error when a key is not unique on either side.  Both algorithms       *)
(* implement it on tables nobody is writing to.                             *)
(***************************************************************************)
EXTENDS RowSets

CONSTANT MaxDiffRows   \* a natural number

VARIABLES src, tgt,    \* the two tables
          outcome,     \* "running", "report" or "non_unique"
          report       \* the DiffResult, meaningful in outcome "report"

specVars == << src, tgt, outcome, report >>

EmptyReport == [sourceCount |-> 0, targetCount |-> 0, missing |-> 0, extra |-> 0,
                changed |-> 0, listed |-> {}, truncated |-> FALSE]

(* DiffResult.is_match *)
IsMatch(r) == /\ r.sourceCount = r.targetCount
              /\ r.missing = 0 /\ r.extra = 0 /\ r.changed = 0

(* The reports allowed for tables s and t.  Which differences make it into  *)
(* a truncated list is not promised.                                        *)
ExactReport(r, s, t) ==
  LET diffs == RowDiffs(Rows(s), Rows(t))
  IN  /\ r.sourceCount = Cardinality(Rows(s))
      /\ r.targetCount = Cardinality(Rows(t))
      /\ r.missing = Cardinality(Missing(Rows(s), Rows(t)))
      /\ r.extra   = Cardinality(Extra(Rows(s), Rows(t)))
      /\ r.changed = Cardinality(Changed(Rows(s), Rows(t)))
      /\ r.listed \subseteq diffs
      /\ IF Cardinality(diffs) <= MaxDiffRows
         THEN r.listed = diffs /\ ~r.truncated
         ELSE Cardinality(r.listed) = MaxDiffRows /\ r.truncated

SpecInit ==
  /\ src \in Table /\ tgt \in Table
  /\ outcome = "running"
  /\ report = EmptyReport

Report ==
  /\ outcome = "running"
  /\ KeyUnique(src) /\ KeyUnique(tgt)
  /\ outcome' = "report"
  /\ ExactReport(report', src, tgt)
  /\ UNCHANGED << src, tgt >>

RejectKey ==
  /\ outcome = "running"
  /\ ~(KeyUnique(src) /\ KeyUnique(tgt))
  /\ outcome' = "non_unique"
  /\ UNCHANGED << src, tgt, report >>

SpecNext == Report \/ RejectKey

SafeSpec == SpecInit /\ [][SpecNext]_specVars
===============================================================================
