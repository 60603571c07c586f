------------------------------ MODULE JoinDiff ------------------------------
(***************************************************************************)
(* core/joindiff.diff(): both tables in one database, the differences found *)
(* by a FULL OUTER JOIN.  One action is one query; other sessions may write *)
(* to either table between any two of them.  A single query sees one state. *)
(*                                                                          *)
(* --algorithm joindiff is not refused for two connections: the join is run *)
(* by the source's server all the same, on what that has under the target's *)
(* name, a schema and a table: a table of its own, or nothing.              *)
(***************************************************************************)
EXTENDS RowSets

CONSTANTS
  NullLead,       \* keys whose first column is NULL
  NullPart,       \* keys with NULL in any column
  MaxDiffRows,
  InitTables,     \* the pairs of tables a run starts from
  Shared,         \* both sides are one connection
  Absent,         \* the source's server has no table of the target's name
  Namesakes,      \* what it may have there, if there are two connections
  MaxWrites       \* bound on concurrent writes

ASSUME JoinAssumption ==
  /\ Key \subseteq Int /\ IsFiniteSet(Key) /\ IsFiniteSet(Val)
  /\ NullLead \subseteq NullPart /\ NullPart \subseteq Key
  /\ MaxDiffRows \in Nat /\ MaxWrites \in Nat
  /\ InitTables \subseteq Table \X Table
  /\ Namesakes \subseteq Table \cup {Absent} /\ Shared \notin Namesakes

VARIABLES
  src, tgt,       \* the tables
  namesake,       \* what the source's server has under the target's name
  pc,             \* the next query
  result,         \* the DiffResult
  writes,         \* how many rows other sessions wrote since the run began
  touched         \* history: the keys of those rows

tables == << src, tgt, namesake, writes, touched >>
vars == << tables, pc, result >>

PC == {"unique_src", "unique_tgt", "count_src", "count_tgt", "counts", "detail",
       "done", "non_unique", "failed"}

-------------------------------------------------------------------------------
(* The join.  Key columns are compared with =, so a key with a NULL in it   *)
(* joins with nothing, itself included.  A row of the join has on each side *)
(* the set with that side's value, or no value where the join filled in     *)
(* NULLs.                                                                   *)
Side == { {} } \cup { {v} : v \in Val }
JoinRows == [key : Key, s : Side, t : Side]

FullOuterJoin(s, t) ==
  { j \in JoinRows :
      \/ /\ j.key \notin NullPart
         /\ \E v \in s[j.key], w \in t[j.key] : j.s = {v} /\ j.t = {w}
      \/ /\ j.key \in NullPart \/ t[j.key] = {}
         /\ j.t = {} /\ \E v \in s[j.key] : j.s = {v}
      \/ /\ j.key \in NullPart \/ s[j.key] = {}
         /\ j.s = {} /\ \E w \in t[j.key] : j.t = {w} }

(* s.<first key> IS NULL and t.<first key> IS NULL. *)
SourceNull(j) == j.s = {} \/ j.key \in NullLead
TargetNull(j) == j.t = {} \/ j.key \in NullLead

(* The WHERE clause of _JoinShape. *)
DifferingMutant(s, t) ==   \* mutation: <> where NULLs are not distinct from values
  { j \in FullOuterJoin(s, t) : j.s # {} /\ j.t # {} /\ j.s # j.t }

Differing(s, t) ==
  { j \in FullOuterJoin(s, t) : SourceNull(j) \/ TargetNull(j) \/ j.s # j.t }

(* How diff() reads a row of the detail query. *)
DiffOfMutant(j) ==   \* mutation: the sides are swapped
  [key |-> j.key,
   kind |-> IF SourceNull(j) THEN "missing"
            ELSE IF TargetNull(j) THEN "extra" ELSE "changed"]

DiffOf(j) == [key |-> j.key,
              kind |-> IF TargetNull(j) THEN "missing"
                       ELSE IF SourceNull(j) THEN "extra" ELSE "changed"]

-------------------------------------------------------------------------------
Joined == IF namesake = Shared THEN tgt ELSE namesake

Init ==
  /\ namesake \in {Shared} \cup Namesakes
  /\ \E p \in InitTables : src = p[1] /\ tgt = p[2]
  /\ pc = "unique_src"
  /\ result = [sourceCount |-> 0, targetCount |-> 0, missing |-> 0, extra |-> 0,
               changed |-> 0, listed |-> {}, truncated |-> FALSE]
  /\ writes = 0 /\ touched = {}

(* _validate_key_unique_side, once per side. *)
UniqueSource ==
  /\ pc = "unique_src"
  /\ pc' = IF KeyUnique(src) THEN "unique_tgt" ELSE "non_unique"
  /\ UNCHANGED << tables, result >>

UniqueTargetMutant ==   \* mutation: the target is not checked
  /\ pc = "unique_tgt" /\ pc' = "count_src"
  /\ UNCHANGED << tables, result >>

UniqueTarget ==
  /\ pc = "unique_tgt"
  /\ pc' = IF KeyUnique(tgt) THEN "count_src" ELSE "non_unique"
  /\ UNCHANGED << tables, result >>

(* _count_sql, once per side. *)
CountSource ==
  /\ pc = "count_src" /\ pc' = "count_tgt"
  /\ result' = [result EXCEPT !.sourceCount = Cardinality(Rows(src))]
  /\ UNCHANGED tables

CountTarget ==
  /\ pc = "count_tgt" /\ pc' = "counts"
  /\ result' = [result EXCEPT !.targetCount = Cardinality(Rows(tgt))]
  /\ UNCHANGED tables

(* _diff_counts_sql: the exact totals in one aggregate query. *)
DiffCountsMutant ==   \* mutation: extra rows derived from the two counts
  LET rows    == Differing(src, Joined)
      missing == Cardinality({ j \in rows : TargetNull(j) })
      extra   == missing + result.targetCount - result.sourceCount
      changed == Cardinality({ j \in rows : ~TargetNull(j) /\ ~SourceNull(j) })
  IN  /\ pc = "counts" /\ namesake # Absent /\ pc' = "detail"
      /\ result' = [result EXCEPT !.missing = missing, !.extra = extra,
                                  !.changed = changed,
                                  !.truncated = missing + extra + changed > MaxDiffRows]
      /\ UNCHANGED tables

DiffCounts ==
  LET rows    == Differing(src, Joined)
      missing == Cardinality({ j \in rows : TargetNull(j) })
      extra   == Cardinality({ j \in rows : SourceNull(j) })
      changed == Cardinality({ j \in rows : ~TargetNull(j) /\ ~SourceNull(j) })
  IN  /\ pc = "counts" /\ namesake # Absent /\ pc' = "detail"
      /\ result' = [result EXCEPT !.missing = missing, !.extra = extra,
                                  !.changed = changed,
                                  !.truncated = missing + extra + changed > MaxDiffRows]
      /\ UNCHANGED tables

(* "relation does not exist" *)
JoinFails ==
  /\ pc = "counts" /\ namesake = Absent
  /\ pc' = "failed"
  /\ UNCHANGED << tables, result >>

(* _join_sql with LIMIT max_diff_rows + 1, and the loop that appends what   *)
(* it returns: the differing rows that come first in key order.             *)
DetailMutant ==   \* mutation: LIMIT max_diff_rows, which cannot see one row too many
  LET rows == Differing(src, Joined)
      size == IF Cardinality(rows) <= MaxDiffRows THEN Cardinality(rows) ELSE MaxDiffRows
  IN  /\ pc = "detail" /\ pc' = "done"
      /\ \E first \in SUBSET rows :
           /\ Cardinality(first) = size
           /\ \A i \in first, j \in rows \ first : i.key <= j.key
           /\ result' = [result EXCEPT !.listed = { DiffOf(j) : j \in first }]
      /\ UNCHANGED tables

Detail ==
  LET rows == Differing(src, Joined)
      size == IF Cardinality(rows) <= MaxDiffRows THEN Cardinality(rows) ELSE MaxDiffRows
  IN  /\ pc = "detail" /\ pc' = "done"
      /\ \E first \in SUBSET rows :
           /\ Cardinality(first) = size
           /\ \A i \in first, j \in rows \ first : i.key <= j.key
           /\ result' = [result EXCEPT
                !.listed = { DiffOf(j) : j \in first },
                !.truncated = @ \/ Cardinality(rows) > MaxDiffRows]
      /\ UNCHANGED tables

Finished == pc \in {"done", "non_unique", "failed"}

(* Another session inserts, updates or deletes the row of one key.  Bounded *)
(* by MaxWrites.                                                            *)
Write ==
  /\ ~Finished
  /\ writes < MaxWrites
  /\ writes' = writes + 1
  /\ \E k \in Key, vs \in { {} } \cup { {v} : v \in Val } :
       /\ \/ src[k] # vs /\ src' = [src EXCEPT ![k] = vs] /\ UNCHANGED tgt
          \/ tgt[k] # vs /\ tgt' = [tgt EXCEPT ![k] = vs] /\ UNCHANGED src
       /\ touched' = touched \cup {k}
  /\ UNCHANGED << pc, result, namesake >>

Terminated == Finished /\ UNCHANGED vars

Query == \/ UniqueSource \/ UniqueTarget \/ CountSource \/ CountTarget
         \/ DiffCounts \/ JoinFails \/ Detail

Next == Query \/ Write \/ Terminated

Spec == Init /\ [][Next]_vars

-------------------------------------------------------------------------------
TypeInv ==
  /\ src \in Table /\ tgt \in Table
  /\ namesake \in {Shared} \cup Namesakes
  /\ pc \in PC
  /\ writes \in Nat /\ touched \subseteq Key
  /\ result \in [sourceCount : Nat, targetCount : Nat, missing : Nat, extra : Nat,
                 changed : Nat, listed : SUBSET RowDiff, truncated : BOOLEAN]

(* DiffResult.is_match *)
IsMatch == /\ result.sourceCount = result.targetCount
           /\ result.missing = 0 /\ result.extra = 0 /\ result.changed = 0

(* The docstring of diff(): without the precondition that both sides are    *)
(* one connection the query will fail, "not a silent wrong answer": the     *)
(* tables are never called equal when they are not.  (Other sessions may    *)
(* write between the queries.)                                              *)
NoSilentWrongAnswer ==
  pc = "done" /\ IsMatch => \A k \in Key \ touched : src[k] = tgt[k]

(* SPEC.md:336 "Never report MATCH when rows differ", for a joindiff that   *)
(* was not forced on two connections.                                       *)
MatchIsTrue == namesake = Shared => NoSilentWrongAnswer

(* The count query and the detail query may see different tables; still, a  *)
(* row nobody wrote to is listed if it differs (or the list says that it is *)
(* truncated), with its true kind, and is not listed if it does not.        *)
StableRowsListed ==
  pc = "done" /\ namesake = Shared =>
    \A k \in Key \ touched :
      LET diffs == { d \in RowDiffs(Rows(src), Rows(tgt)) : d.key = k }
          shown == { d \in result.listed : d.key = k }
      IN  shown = diffs \/ (shown = {} /\ result.truncated)

(* When nobody writes, the report is the one DiffSpec promises, which is    *)
(* also the one HashDiff is shown to give: "joindiff and hashdiff give      *)
(* identical results on the same table pair" (SPEC.md:385).                 *)
Promise == INSTANCE DiffSpec WITH outcome <- pc, report <- result

ExactWhenQuiet ==
  pc = "done" /\ namesake = Shared /\ touched = {} => Promise!ExactReport(result, src, tgt)

(* A key that is not unique on either side stops the run before anything is *)
(* reported (SPEC.md 4.4), whoever writes in the meantime.                  *)
DuplicatesRejected ==
  pc = "done" =>
    \A k \in Key \ touched : Cardinality(src[k]) <= 1 /\ Cardinality(tgt[k]) <= 1
===============================================================================
