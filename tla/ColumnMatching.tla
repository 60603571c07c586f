--------------------------- MODULE ColumnMatching ---------------------------
(***************************************************************************)
(* Which columns a diff compares and how each side renders them:            *)
(* core/column_matching.match_columns(), hashdiff._apply_column_match() and *)
(* the rule and option lookups that the connectors' normalise_expr() makes. *)
(*                                                                          *)
(* Both functions are loops that update dictionaries as they go; one action *)
(* is one turn of a loop.                                                   *)
(***************************************************************************)
EXTENDS Normalisation, Sequences, FiniteSets

CONSTANTS
  Name,        \* column names
  Lower,       \* str.lower(): [Name -> Name]
  Inputs       \* the calls a run starts from

ASSUME NameAssumption == /\ Lower \in [Name -> Name]
                         /\ \A n \in Name : Lower[Lower[n]] = Lower[n]
                         /\ None \notin Name \cup Nat \cup {"STR_2", "TS_2", "UUID_1"}

(* What get_schema() of a connector tells of a column; an integer column    *)
(* declares no digits, or none after the point.                             *)
Column == { c \in [name : Name, native : STRING, digits : Nat \cup {None}] :
              PickRule(c.native) = "INT_1" => c.digits \in {0, None} }

ASSUME InputsAssumption ==
  \A c \in Inputs :
    /\ c.source \in Seq(Column) /\ c.target \in Seq(Column)
    /\ c.candidates \in Seq(Name)
    /\ c.map \in [Name -> Name \cup {None}]
    /\ c.fold \in BOOLEAN

VARIABLES
  call,        \* [source, target : Seq(column), candidates, map, fold]
  phase, i,    \* the loop and the turn it is at
  matched,     \* candidates matched so far, in order
  excluded, warned,              \* names excluded, names with a warning
  ruleOverride, digitsOverride,  \* rule_overrides; scale_ and precision_overrides
  paired,      \* history: the target column each name was matched with
  targetByName \* tgt_plan.columns_by_name

vars == << call, phase, i, matched, excluded, warned, ruleOverride, digitsOverride,
           paired, targetByName >>

Nothing == [n \in Name |-> None]

(* {c.name: c for c in columns}, and None for a name that is not there. *)
ByName(columns) ==
  [n \in Name |-> IF \E k \in DOMAIN columns : columns[k].name = n
                  THEN columns[CHOOSE k \in DOMAIN columns : columns[k].name = n]
                  ELSE None]

(* tgt_by_lower[n.lower()]: of names that differ only in case the last wins.*)
ByLower(columns, n) ==
  LET hits == { k \in DOMAIN columns : Lower[columns[k].name] = Lower[n] }
  IN  IF hits = {} THEN None
      ELSE columns[CHOOSE k \in hits : \A j \in hits : j <= k].name

Source == ByName(call.source)
Candidate == call.candidates[i]

Init ==
  /\ call \in Inputs
  /\ phase = "match" /\ i = 1
  /\ matched = << >> /\ excluded = {} /\ warned = {}
  /\ ruleOverride = Nothing /\ digitsOverride = Nothing /\ paired = Nothing
  /\ targetByName = ByName(call.target)

-------------------------------------------------------------------------------
(* One turn of match_columns' loop. *)
MoreCandidates == phase = "match" /\ i <= Len(call.candidates)

TargetName(n) == IF call.map[n] # None THEN call.map[n] ELSE ByLower(call.target, n)

TargetColumn(n) == IF TargetName(n) = None THEN None
                   ELSE ByName(call.target)[TargetName(n)]

Unaffected == << call, phase, targetByName >>

(* A candidate the source does not have (a stale --columns entry). *)
SkipUnknown ==
  /\ MoreCandidates
  /\ Source[Candidate] = None
  /\ i' = i + 1
  /\ UNCHANGED << Unaffected, matched, excluded, warned, ruleOverride,
                  digitsOverride, paired >>

(* Nothing on the target side, or a column of an incompatible family. *)
ExcludeMutant ==   \* mutation: no warning
  /\ MoreCandidates
  /\ Source[Candidate] # None
  /\ ~ /\ TargetColumn(Candidate) # None
       /\ Compatible(PickRule(Source[Candidate].native),
                     PickRule(TargetColumn(Candidate).native))
  /\ excluded' = excluded \cup {Candidate}
  /\ i' = i + 1
  /\ UNCHANGED << Unaffected, matched, warned, ruleOverride, digitsOverride, paired >>

Exclude ==
  /\ MoreCandidates
  /\ Source[Candidate] # None
  /\ ~ /\ TargetColumn(Candidate) # None
       /\ Compatible(PickRule(Source[Candidate].native),
                     PickRule(TargetColumn(Candidate).native))
  /\ excluded' = excluded \cup {Candidate}
  /\ warned' = warned \cup {Candidate}
  /\ i' = i + 1
  /\ UNCHANGED << Unaffected, matched, ruleOverride, digitsOverride, paired >>

(* A pair that is compared, with what match_columns negotiates for it. *)
Match ==
  LET s == Source[Candidate]
      t == TargetColumn(Candidate)
      pair == Negotiate(s, t, call.fold)
  IN  /\ MoreCandidates
      /\ s # None /\ t # None /\ Compatible(PickRule(s.native), PickRule(t.native))
      /\ matched' = Append(matched, Candidate)
      /\ paired' = [paired EXCEPT ![Candidate] = t]
      /\ ruleOverride' = [ruleOverride EXCEPT ![Candidate] =
                            IF pair.rule = None THEN @ ELSE pair.rule]
      /\ digitsOverride' = [digitsOverride EXCEPT ![Candidate] =
                              IF pair.digits = None THEN @ ELSE pair.digits]
      /\ warned' = IF pair.warned THEN warned \cup {Candidate} ELSE warned
      /\ i' = i + 1
      /\ UNCHANGED << Unaffected, excluded >>

EndMatching ==
  /\ phase = "match" /\ i > Len(call.candidates)
  /\ phase' = "alias" /\ i' = 1
  /\ UNCHANGED << call, matched, excluded, warned, ruleOverride, digitsOverride,
                  paired, targetByName >>

(* One turn of _apply_column_match's loop: make the source's name resolve   *)
(* to the target's column, looked up in the dictionary being changed.       *)
ActualNameMutant(n) ==   \* mutation: the column map is forgotten
  IF ByLower(call.target, n) # None THEN ByLower(call.target, n) ELSE n

ActualName(n) == IF call.map[n] # None THEN call.map[n]
                 ELSE IF ByLower(call.target, n) # None THEN ByLower(call.target, n) ELSE n

AliasMutant ==   \* mutation: the source's column object is stored
  /\ phase = "alias" /\ i <= Len(matched)
  /\ targetByName' = IF ActualName(matched[i]) = matched[i] THEN targetByName
                     ELSE [targetByName EXCEPT ![matched[i]] = Source[matched[i]]]
  /\ i' = i + 1
  /\ UNCHANGED << call, phase, matched, excluded, warned, ruleOverride,
                  digitsOverride, paired >>

Alias ==
  LET n      == matched[i]
      actual == ActualName(n)
  IN  /\ phase = "alias" /\ i <= Len(matched)
      /\ targetByName' = IF actual = n THEN targetByName
                         ELSE [targetByName EXCEPT ![n] = targetByName[actual]]
      /\ i' = i + 1
      /\ UNCHANGED << call, phase, matched, excluded, warned, ruleOverride,
                      digitsOverride, paired >>

(* _Plan.rule_for, given the column a side finds under name n. *)
RuleFor(column, n) ==
  IF ruleOverride[n] # None THEN ruleOverride[n] ELSE PickRule(column.native)

MatchedNames == { matched[k] : k \in DOMAIN matched }

(* _append_run_level_warnings of the source's plan: a timestamp without a   *)
(* zone, a type without a rule.  (It warns of such key columns as well.)    *)
RunLevelWarningsMutant ==   \* mutation: only the types without a rule
  { n \in MatchedNames : RuleFor(Source[n], n) = "UNK_1" }

RunLevelWarnings ==
  { n \in MatchedNames : RuleFor(Source[n], n) \in {"TS_3", "UNK_1"} }

EndAliasing ==
  /\ phase = "alias" /\ i > Len(matched)
  /\ phase' = "done" /\ i' = 1
  /\ warned' = warned \cup RunLevelWarnings
  /\ UNCHANGED << call, matched, excluded, ruleOverride, digitsOverride, paired,
                  targetByName >>

Terminated == phase = "done" /\ UNCHANGED vars

Next == \/ SkipUnknown \/ Exclude \/ Match \/ EndMatching
        \/ Alias \/ EndAliasing \/ Terminated

Spec == Init /\ [][Next]_vars

-------------------------------------------------------------------------------
(* What normalise_expr renders it with: an override is looked up under the  *)
(* column's own name.  An integer renders as a decimal of scale 0.          *)
Rendering(column, n) ==
  LET rule == RuleFor(column, n)
      own(default) == OwnDigits(column, digitsOverride[column.name], default)
  IN  CASE rule = "INT_1" -> << "DEC_1", 0 >>
        [] rule = "DEC_1" -> << "DEC_1", own(0) >>
        [] rule = "TS_2"  -> << "TS_2", own(Micro) >>
        [] rule = "TS_3"  -> << "TS_1", Micro >>
        [] OTHER          -> << rule, Micro >>

TypeInv ==
  /\ phase \in {"match", "alias", "done"} /\ i \in Nat
  /\ matched \in Seq(Name) /\ excluded \subseteq Name /\ warned \subseteq Name
  /\ \A n \in Name :
       /\ digitsOverride[n] \in Nat \cup {None}
       /\ targetByName[n] # None => \E k \in DOMAIN call.target : call.target[k] = targetByName[n]

(* A column's target has the name of another compared column: a swap or a   *)
(* chain of renames.                                                        *)
Chained == \E n \in MatchedNames : \E m \in MatchedNames \ {n} : paired[n].name = m

(* What a diff takes for granted, it says.  Every column of the source that *)
(* was asked for is compared or excluded, not both, with a warning if it is *)
(* excluded.  A compared column without a warning is one of a known type,   *)
(* with a known time zone, that both sides render to every digit either of  *)
(* them declares, down to the microsecond.  Three cases escape: the code    *)
(* asks the source's plan and after the overrides, so a naive or unmapped   *)
(* column of the target alone, and an unmapped one compared with a uuid;    *)
(* and the override of another column that AliasFaithful is about.          *)
Assumed(column) == PickRule(column.native) \in {"TS_3", "UNK_1"}

LosesDigits(column, n) ==
  column.digits # None /\ Rendering(column, n)[2] < Lesser(column.digits, Micro)

SaysWhatItAssumes ==
  phase = "done" =>
    /\ \A k \in DOMAIN call.candidates :
         LET n == call.candidates[k]
         IN  /\ Source[n] # None => n \in MatchedNames \cup excluded
             /\ n \notin MatchedNames \cap excluded
             /\ n \in excluded => n \in warned
    /\ \A n \in MatchedNames \ warned :
         /\ Assumed(Source[n]) => PickRule(paired[n].native) = "UUID_1"
         /\ Chained \/ ~ (LosesDigits(Source[n], n) \/ LosesDigits(paired[n], n))

(* docstring of _apply_column_match: the source's name resolves, on the     *)
(* target's plan, to the target's column it was matched with.               *)
AliasFaithful ==
  phase = "done" => \A n \in MatchedNames : targetByName[n] = paired[n]

(* The same, but for swaps and chains of renames. *)
AliasFaithfulUnchained == Chained \/ AliasFaithful

(* DEC-1 against FLT-1 and UNK-1 against anything are compared as they come. *)
Comparable(s, t) ==
  LET rules == {PickRule(s.native), PickRule(t.native)}
  IN  "UNK_1" \notin rules /\ ("FLT_1" \in rules => rules = {"FLT_1"})

(* What the docstring of _apply_column_match says of a matched pair, mapped *)
(* or not: the source's name resolves to the target's column, and "both     *)
(* plans render matched columns identically", by one rule and to one number *)
(* of digits.                                                               *)
MatchApplied ==
  phase = "done" =>
    \A n \in MatchedNames :
      /\ targetByName[n] = paired[n]
      /\ Comparable(Source[n], paired[n]) => Rendering(Source[n], n) = Rendering(paired[n], n)

(* The second half for a pair whose columns have one name, of whatever the  *)
(* name resolves to.                                                        *)
SameNameRendersAlike ==
  phase = "done" =>
    \A n \in MatchedNames :
      /\ paired[n].name = n
      /\ Comparable(Source[n], targetByName[n])
      => Rendering(Source[n], n) = Rendering(targetByName[n], n)
===============================================================================
