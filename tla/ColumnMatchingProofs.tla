------------------------ MODULE ColumnMatchingProofs ------------------------
(***************************************************************************)
(* Theorems about the matching of columns, for any schemas, column map,     *)
(* candidates and options: type correctness, what a diff says of what it    *)
(* takes for granted, what a source's name resolves to on the target, and   *)
(* that a pair with one name is rendered alike.                             *)
(*                                                                          *)
(* The four follow from one inductive invariant.  Both functions decide on  *)
(* a column from the call alone, so what a turn of the first loop leaves    *)
(* behind is a function of the call (Decided, Dropped); what the second     *)
(* loop does to the dictionary it reads is said by Aliases.                 *)
(***************************************************************************)
EXTENDS ColumnMatching, SegmentationProofs

(* What match_columns decides of the column n: is it compared, and how? *)
Comparing(n) ==
  /\ Source[n] # None /\ TargetColumn(n) # None
  /\ Compatible(PickRule(Source[n].native), PickRule(TargetColumn(n).native))

Pair(n) == Negotiate(Source[n], TargetColumn(n), call.fold)

IsFunction(f) == f = [n \in Name |-> f[n]]

Types ==
  /\ call \in Inputs
  /\ phase \in {"match", "alias", "done"} /\ i \in Nat \ {0}
  /\ matched \in Seq(Name) /\ excluded \in SUBSET Name /\ warned \in SUBSET Name
  /\ IsFunction(ruleOverride) /\ IsFunction(digitsOverride)
  /\ IsFunction(paired) /\ IsFunction(targetByName)

(* The state of a matched column is what was decided of it. *)
Compared(n) ==
  /\ Comparing(n) /\ paired[n] = TargetColumn(n)
  /\ ruleOverride[n] = Pair(n).rule /\ digitsOverride[n] = Pair(n).digits
  /\ Pair(n).warned => n \in warned

Unpaired(n) == ruleOverride[n] = None /\ digitsOverride[n] = None

Decided == \A n \in Name : /\ n \in MatchedNames => Compared(n)
                           /\ n \notin MatchedNames => Unpaired(n)

Dropped == \A n \in excluded : Source[n] # None /\ ~ Comparing(n) /\ n \in warned

(* A candidate the source has, once its turn is over. *)
Settled(n) == Source[n] # None => n \in MatchedNames \cup excluded

Tried == \A k \in DOMAIN call.candidates :
           phase # "match" \/ k < i => Settled(call.candidates[k])

Announced == phase = "done" => RunLevelWarnings \subseteq warned

(* The second loop changes the entries of matched names only, and of those  *)
(* none whose column has the name itself.                                   *)
Listed(column) == column # None => \E k \in DOMAIN call.target : call.target[k] = column

Untouched(n) ==
  n \notin MatchedNames \/ TargetName(n) = n => targetByName[n] = ByName(call.target)[n]

Resolved(k) == targetByName[matched[k]] = TargetColumn(matched[k])

Aliases ==
  /\ phase = "match" => targetByName = ByName(call.target)
  /\ \A n \in Name : Listed(targetByName[n]) /\ Untouched(n)
  /\ phase # "match" =>
       Chained \/ \A k \in DOMAIN matched : phase = "done" \/ k < i => Resolved(k)

Invariants == Types /\ Decided /\ Dropped /\ Tried /\ Announced /\ Aliases

-------------------------------------------------------------------------------
(* Lemmas about the operators.  What {c.name: c for c in columns} has under *)
(* a name is nothing, or a column of that name.                             *)
LEMMA NamedColumn ==
  ASSUME NEW columns \in Seq(Column), NEW n \in Name, ByName(columns)[n] # None
  PROVE  /\ ByName(columns)[n] \in Column
         /\ ByName(columns)[n].name = n
         /\ \E k \in DOMAIN columns : columns[k] = ByName(columns)[n]
<1>1. PICK k \in DOMAIN columns : columns[k].name = n
  BY DEF ByName
<1>2. ByName(columns)[n] = columns[CHOOSE j \in DOMAIN columns : columns[j].name = n]
  BY <1>1, Zenon DEF ByName
<1>3. PICK j \in DOMAIN columns : /\ ByName(columns)[n] = columns[j]
                                  /\ columns[j].name = n
  BY <1>1, <1>2
<1>. QED  BY <1>3

(* A name found in lower case is a name: of several hits one is the last.   *)
LEMMA LowerName ==
  ASSUME NEW columns \in Seq(Column), NEW n \in Name
  PROVE  ByLower(columns, n) \in Name \cup {None}
<1>. DEFINE hits == { k \in DOMAIN columns : Lower[columns[k].name] = Lower[n] }
<1>1. CASE hits = {}
  BY <1>1 DEF ByLower
<1>2. CASE hits # {}
  <2>1. hits \in SUBSET Int /\ IsFiniteSet(hits)
    BY FS_Interval, FS_Subset
  <2>2. \E k \in hits : \A j \in hits : j <= k
    <3>. HIDE DEF hits
    <3>. QED  BY <1>2, <2>1, GreatestElement
  <2>3. (CHOOSE k \in hits : \A j \in hits : j <= k) \in DOMAIN columns
    BY <2>2
  <2>4. \A k \in DOMAIN columns : columns[k].name \in Name
    BY DEF Column
  <2>5. ByLower(columns, n) = columns[CHOOSE k \in hits : \A j \in hits : j <= k].name
    BY <1>2, Zenon DEF ByLower
  <2>. QED  BY <2>3, <2>4, <2>5
<1>. QED  BY <1>1, <1>2

(* What a call says of one name. *)
LEMMA Resolving ==
  ASSUME call \in Inputs, NEW n \in Name
  PROVE  /\ TargetName(n) \in Name \cup {None}
         /\ Source[n] # None => Source[n] \in Column /\ Source[n].name = n
         /\ TargetColumn(n) # None =>
              /\ TargetName(n) \in Name
              /\ TargetColumn(n) = ByName(call.target)[TargetName(n)]
              /\ TargetColumn(n) \in Column
              /\ TargetColumn(n).name = TargetName(n)
              /\ ActualName(n) = TargetName(n)
<1>1. /\ call.source \in Seq(Column) /\ call.target \in Seq(Column)
      /\ call.map[n] \in Name \cup {None}
  BY InputsAssumption
<1>2. TargetName(n) \in Name \cup {None}
  BY <1>1, LowerName DEF TargetName
<1>3. Source[n] # None => Source[n] \in Column /\ Source[n].name = n
  BY <1>1, NamedColumn DEF Source
<1>4. ASSUME TargetColumn(n) # None
      PROVE  /\ TargetName(n) \in Name
             /\ TargetColumn(n) = ByName(call.target)[TargetName(n)]
             /\ TargetColumn(n) \in Column
             /\ TargetColumn(n).name = TargetName(n)
             /\ ActualName(n) = TargetName(n)
  <2>1. /\ TargetName(n) # None
        /\ TargetColumn(n) = ByName(call.target)[TargetName(n)]
    BY <1>4, Zenon DEF TargetColumn
  <2>2. TargetName(n) \in Name
    BY <1>2, <2>1
  <2>3. /\ TargetColumn(n) \in Column
        /\ TargetColumn(n).name = TargetName(n)
    BY <1>1, <1>4, <2>1, <2>2, NamedColumn
  <2>4. ActualName(n) = TargetName(n)
    BY <2>1 DEF ActualName, TargetName
  <2>. QED  BY <2>1, <2>2, <2>3, <2>4
<1>. QED  BY <1>2, <1>3, <1>4

(* No action changes the call, so nothing it alone decides. *)
LEMMA CallDecides ==
  ASSUME call' = call
  PROVE  /\ Source' = Source
         /\ \A n : /\ TargetName(n)' = TargetName(n)
                   /\ TargetColumn(n)' = TargetColumn(n)
                   /\ Comparing(n)' <=> Comparing(n)
                   /\ Pair(n)' = Pair(n)
<1>1. Source' = Source
  BY DEF Source
<1>2. ASSUME NEW n
      PROVE  /\ TargetName(n)' = TargetName(n)
             /\ TargetColumn(n)' = TargetColumn(n)
             /\ Comparing(n)' <=> Comparing(n)
             /\ Pair(n)' = Pair(n)
  <2>1. TargetName(n)' = TargetName(n)
    BY DEF TargetName
  <2>2. TargetColumn(n)' = TargetColumn(n)
    BY <2>1 DEF TargetColumn
  <2>. QED  BY <1>1, <2>1, <2>2, Zenon DEF Comparing, Pair
<1>. QED  BY <1>1, <1>2

(* A negotiated number of digits is one, if there is any. *)
LEMMA NegotiatedDigits ==
  ASSUME NEW s \in Column, NEW t \in Column, NEW fold
  PROVE  Negotiate(s, t, fold).digits \in Nat \cup {None}
<1>1. \A default \in Nat : Digits(s, default) \in Nat /\ Digits(t, default) \in Nat
  BY DEF Digits, Column
<1>2. \A a \in Nat, b \in Nat : Lesser(a, b) \in Nat
  BY DEF Lesser
<1>3. Lesser(Digits(s, Micro), Digits(t, Micro)) \in Nat
  BY <1>1, <1>2, MicroAssumption
<1>4. Lesser(Digits(s, 0), Digits(t, 0)) \in Nat
  BY <1>1, <1>2
<1>. QED  BY <1>3, <1>4 DEF Negotiate

-------------------------------------------------------------------------------
(* The invariant is inductive. *)
LEMMA InitInvariants == Init => Invariants
<1>. SUFFICES ASSUME Init PROVE Invariants
  OBVIOUS
<1>1. Types
  <2>1. IsFunction(Nothing)
    BY DEF IsFunction, Nothing
  <2>2. IsFunction(ByName(call.target))
    BY DEF IsFunction, ByName
  <2>3. IsFunction(ruleOverride) /\ IsFunction(digitsOverride) /\ IsFunction(paired)
    BY <2>1, Zenon DEF Init
  <2>4. IsFunction(targetByName)
    BY <2>2, Zenon DEF Init
  <2>. QED  BY <2>3, <2>4 DEF Init, Types
<1>2. MatchedNames = {}
  BY DEF Init, MatchedNames
<1>3. Decided
  BY <1>2 DEF Init, Decided, Unpaired, Nothing
<1>4. Dropped /\ Announced
  BY DEF Init, Dropped, Announced
<1>5. Tried
  <2>1. \A k \in DOMAIN call.candidates : ~ (k < 1)
    BY InputsAssumption DEF Init
  <2>. QED  BY <2>1 DEF Init, Tried
<1>6. Aliases
  <2>1. ASSUME NEW n \in Name PROVE Listed(targetByName[n]) /\ Untouched(n)
    <3>1. call.target \in Seq(Column)
      BY InputsAssumption DEF Init
    <3>2. targetByName = ByName(call.target)
      BY DEF Init
    <3>. QED  BY <3>1, <3>2, NamedColumn DEF Listed, Untouched
  <2>. QED  BY <2>1 DEF Init, Aliases
<1>. QED  BY <1>1, <1>3, <1>4, <1>5, <1>6 DEF Invariants

(* A turn of the first loop: what stays of the other names, and what the    *)
(* turn's own name has to satisfy.                                          *)
LEMMA MatchingTurn ==
  ASSUME Invariants, MoreCandidates, UNCHANGED Unaffected, i' = i + 1,
         NEW c, c = Candidate, Settled(c)', Types', Decided', Dropped',
         MatchedNames \subseteq MatchedNames', excluded \subseteq excluded'
  PROVE  Invariants'
<1>1. call' = call /\ phase' = phase /\ phase = "match" /\ targetByName' = targetByName
  BY DEF MoreCandidates, Unaffected
<1>2. /\ Source' = Source
      /\ \A n : TargetName(n)' = TargetName(n)
  BY <1>1, CallDecides
<1>3. Tried'
  <2>1. \A n : Settled(n) => Settled(n)'
    BY <1>2 DEF Settled
  <2>2. ASSUME NEW k \in DOMAIN call.candidates, k < i + 1, NEW n,
               n = call.candidates[k]
        PROVE  Settled(n)'
    <3>1. i \in Nat /\ k \in Nat
      BY InputsAssumption DEF Invariants, Types
    <3>2. CASE k = i
      BY <2>2, <3>2 DEF Candidate
    <3>3. CASE k < i
      BY <2>1, <2>2, <3>3 DEF Invariants, Tried
    <3>. QED  BY <2>2, <3>1, <3>2, <3>3
  <2>3. ASSUME NEW k \in DOMAIN call.candidates, k < i + 1
        PROVE  Settled(call.candidates[k])'
    <3>1. PICK n : n = call.candidates[k]
      OBVIOUS
    <3>2. Settled(n)'
      BY <2>2, <2>3, <3>1
    <3>. QED  BY <1>1, <3>1, <3>2 DEF Settled
  <2>. QED  BY <1>1, <2>3 DEF Tried
<1>4. Announced'
  BY <1>1 DEF Announced
<1>5. Aliases'
  <2>1. targetByName' = ByName(call'.target)
    BY <1>1 DEF Invariants, Aliases
  <2>2. ASSUME NEW n \in Name PROVE Listed(targetByName[n])' /\ Untouched(n)'
    <3>1. Listed(targetByName[n])
      BY DEF Invariants, Aliases
    <3>. QED  BY <3>1, <2>1, <1>1 DEF Listed, Untouched
  <2>. QED  BY <1>1, <2>1, <2>2 DEF Aliases
<1>. QED  BY <1>3, <1>4, <1>5 DEF Invariants

LEMMA CandidateName ==
  ASSUME Types, MoreCandidates
  PROVE  Candidate \in Name
<1>1. call.candidates \in Seq(Name) /\ i \in 1..Len(call.candidates)
  BY InputsAssumption DEF Types, MoreCandidates
<1>. QED  BY <1>1 DEF Candidate

LEMMA SkipUnknownInvariants ==
  ASSUME Invariants, SkipUnknown
  PROVE  Invariants'
<1>. USE DEF SkipUnknown
<1>1. call' = call /\ phase' = phase /\ targetByName' = targetByName
  BY DEF Unaffected
<1>2. /\ Source' = Source
      /\ \A n : TargetColumn(n)' = TargetColumn(n)
      /\ \A n : (Comparing(n)' <=> Comparing(n)) /\ Pair(n)' = Pair(n)
  BY <1>1, CallDecides
<1>3. MatchedNames' = MatchedNames
  BY DEF MatchedNames
<1>4. Types'
  BY <1>1 DEF Invariants, Types, IsFunction
<1>5. Decided'
  <2>1. \A n : (Compared(n) => Compared(n)') /\ (Unpaired(n) => Unpaired(n)')
    BY <1>2, Zenon DEF Compared, Unpaired
  <2>. QED  BY <1>3, <2>1 DEF Invariants, Decided
<1>6. Dropped'
  BY <1>2 DEF Invariants, Dropped
<1>7. PICK c : c = Candidate
  OBVIOUS
<1>8. Settled(c)'
  BY <1>2, <1>7 DEF Settled
<1>. QED  BY <1>3, <1>4, <1>5, <1>6, <1>7, <1>8, MatchingTurn

LEMMA ExcludeInvariants ==
  ASSUME Invariants, Exclude
  PROVE  Invariants'
<1>1. call' = call /\ phase' = phase /\ targetByName' = targetByName
  BY DEF Exclude, Unaffected
<1>2. /\ Source' = Source
      /\ \A n : TargetColumn(n)' = TargetColumn(n)
      /\ \A n : (Comparing(n)' <=> Comparing(n)) /\ Pair(n)' = Pair(n)
  BY <1>1, CallDecides
<1>3. MatchedNames' = MatchedNames
  BY DEF Exclude, MatchedNames
<1>4. PICK c \in Name : c = Candidate
  BY CandidateName DEF Exclude, Invariants
<1>5. Source[c] # None /\ ~ Comparing(c)
  BY <1>4 DEF Exclude, Comparing
<1>6. excluded' = excluded \cup {c} /\ warned' = warned \cup {c}
  BY <1>4 DEF Exclude
<1>7. Types'
  BY <1>1, <1>6 DEF Invariants, Types, IsFunction, Exclude
<1>8. Decided'
  <2>1. /\ ruleOverride' = ruleOverride /\ digitsOverride' = digitsOverride
        /\ paired' = paired
    BY DEF Exclude
  <2>2. \A n : (Compared(n) => Compared(n)') /\ (Unpaired(n) => Unpaired(n)')
    BY <1>2, <1>6, <2>1 DEF Compared, Unpaired
  <2>. QED  BY <1>3, <2>2 DEF Invariants, Decided
<1>9. Dropped'
  BY <1>2, <1>5, <1>6 DEF Invariants, Dropped
<1>10. Settled(c)'
  BY <1>6 DEF Settled
<1>11. MoreCandidates /\ UNCHANGED Unaffected /\ i' = i + 1
  BY DEF Exclude
<1>. QED  BY <1>3, <1>4, <1>6, <1>7, <1>8, <1>9, <1>10, <1>11, MatchingTurn

(* A name that is matched again is matched with what it was matched with.   *)
LEMMA MatchInvariants ==
  ASSUME Invariants, Match
  PROVE  Invariants'
<1>1. /\ MoreCandidates /\ UNCHANGED Unaffected /\ i' = i + 1
      /\ excluded' = excluded
  BY DEF Match
<1>2. call' = call /\ phase' = phase /\ targetByName' = targetByName
  BY <1>1 DEF Unaffected
<1>3. /\ Source' = Source
      /\ \A n : TargetColumn(n)' = TargetColumn(n)
      /\ \A n : (Comparing(n)' <=> Comparing(n)) /\ Pair(n)' = Pair(n)
  BY <1>2, CallDecides
<1>4. PICK c \in Name : c = Candidate
  BY <1>1, CandidateName DEF Invariants
<1>5. Comparing(c)
  BY <1>4, Zenon DEF Match, Comparing
<1>6. /\ matched' = Append(matched, c)
      /\ paired' = [paired EXCEPT ![c] = TargetColumn(c)]
      /\ ruleOverride' = [ruleOverride EXCEPT ![c] =
                            IF Pair(c).rule = None THEN @ ELSE Pair(c).rule]
      /\ digitsOverride' = [digitsOverride EXCEPT ![c] =
                              IF Pair(c).digits = None THEN @ ELSE Pair(c).digits]
      /\ warned' = IF Pair(c).warned THEN warned \cup {c} ELSE warned
  BY <1>4, Zenon DEF Match, Pair
<1>7. MatchedNames' = MatchedNames \cup {c}
  <2>1. matched \in Seq(Name)
    BY DEF Invariants, Types
  <2>2. /\ DOMAIN matched' = 1..(Len(matched) + 1) /\ matched'[Len(matched) + 1] = c
        /\ DOMAIN matched = 1..Len(matched) /\ Len(matched) \in Nat
        /\ \A k \in 1..Len(matched) : matched'[k] = matched[k]
    BY <1>6, <2>1
  <2>3. MatchedNames' \subseteq MatchedNames \cup {c}
    BY <2>2 DEF MatchedNames
  <2>4. MatchedNames \subseteq MatchedNames'
    BY <2>2 DEF MatchedNames
  <2>5. c \in MatchedNames'
    BY <2>2 DEF MatchedNames
  <2>. QED  BY <2>3, <2>4, <2>5
<1>8. Types'
  <2>1. /\ matched' \in Seq(Name) /\ excluded' \in SUBSET Name /\ warned' \in SUBSET Name
        /\ call' \in Inputs /\ phase' \in {"match", "alias", "done"} /\ i' \in Nat \ {0}
    BY <1>1, <1>2, <1>6 DEF Invariants, Types
  <2>2. /\ IsFunction(ruleOverride)' /\ IsFunction(digitsOverride)'
        /\ IsFunction(paired)' /\ IsFunction(targetByName)'
    BY <1>2, <1>6 DEF Invariants, Types, IsFunction
  <2>. QED  BY <2>1, <2>2 DEF Types
<1>9. Decided'
  <2>1. /\ ruleOverride[c] = Pair(c).rule \/ ruleOverride[c] = None
        /\ digitsOverride[c] = Pair(c).digits \/ digitsOverride[c] = None
    BY DEF Invariants, Decided, Compared, Unpaired
  <2>2. /\ ruleOverride'[c] = Pair(c).rule /\ digitsOverride'[c] = Pair(c).digits
        /\ paired'[c] = TargetColumn(c)
    BY <1>6, <2>1 DEF Invariants, Types, IsFunction
  <2>3. Pair(c).warned => c \in warned'
    BY <1>6
  <2>4. Compared(c)'
    BY <1>3, <1>5, <2>2, <2>3 DEF Compared
  <2>5. ASSUME NEW n \in Name, n # c
        PROVE  (Compared(n) => Compared(n)') /\ (Unpaired(n) => Unpaired(n)')
    <3>1. /\ ruleOverride'[n] = ruleOverride[n] /\ digitsOverride'[n] = digitsOverride[n]
          /\ paired'[n] = paired[n]
      BY <1>6, <2>5 DEF Invariants, Types, IsFunction
    <3>2. n \in warned => n \in warned'
      BY <1>6
    <3>. QED  BY <1>3, <3>1, <3>2 DEF Compared, Unpaired
  <2>. QED  BY <1>7, <2>4, <2>5 DEF Invariants, Decided
<1>10. Dropped'
  <2>1. warned \subseteq warned'
    BY <1>6
  <2>. QED  BY <1>1, <1>3, <2>1 DEF Invariants, Dropped
<1>11. Settled(c)'
  BY <1>7 DEF Settled
<1>. QED  BY <1>1, <1>4, <1>7, <1>8, <1>9, <1>10, <1>11, MatchingTurn

(* After the first loop nothing of what it decided changes. *)
LEMMA AfterMatching ==
  ASSUME Invariants, call' = call, phase' # "match", i' \in Nat \ {0},
         phase' \in {"alias", "done"}, phase # "match" \/ i > Len(call.candidates),
         IsFunction(targetByName)', warned \subseteq warned', warned' \in SUBSET Name,
         UNCHANGED << matched, excluded, ruleOverride, digitsOverride, paired >>
  PROVE  /\ Types' /\ Decided' /\ Dropped' /\ Tried'
         /\ MatchedNames' = MatchedNames /\ Source' = Source
         /\ \A n \in Name : RuleFor(Source[n], n)' = RuleFor(Source[n], n)
         /\ \A n : TargetName(n)' = TargetName(n) /\ TargetColumn(n)' = TargetColumn(n)
         /\ Chained' <=> Chained
<1>1. /\ Source' = Source
      /\ \A n : TargetName(n)' = TargetName(n) /\ TargetColumn(n)' = TargetColumn(n)
      /\ \A n : (Comparing(n)' <=> Comparing(n)) /\ Pair(n)' = Pair(n)
  BY CallDecides
<1>2. MatchedNames' = MatchedNames
  BY DEF MatchedNames
<1>3. Types'
  BY DEF Invariants, Types, IsFunction
<1>4. Decided'
  <2>1. \A n : Compared(n) => Compared(n)'
    BY <1>1 DEF Compared
  <2>2. \A n : Unpaired(n) => Unpaired(n)'
    BY DEF Unpaired
  <2>. QED  BY <1>2, <2>1, <2>2 DEF Invariants, Decided
<1>5. Dropped'
  BY <1>1 DEF Invariants, Dropped
<1>6. Tried'
  <2>1. \A k \in DOMAIN call.candidates : phase # "match" \/ k < i
    BY InputsAssumption DEF Invariants, Types
  <2>2. \A n : Settled(n) => Settled(n)'
    BY <1>1, <1>2 DEF Settled
  <2>. QED  BY <2>1, <2>2 DEF Invariants, Tried
<1>7. \A n \in Name : RuleFor(Source[n], n)' = RuleFor(Source[n], n)
  BY <1>1 DEF RuleFor
<1>8. Chained' <=> Chained
  BY <1>2 DEF Chained
<1>. QED  BY <1>1, <1>2, <1>3, <1>4, <1>5, <1>6, <1>7, <1>8

LEMMA EndMatchingInvariants ==
  ASSUME Invariants, EndMatching
  PROVE  Invariants'
<1>1. /\ call' = call /\ phase' = "alias" /\ i' = 1 /\ targetByName' = targetByName
      /\ phase = "match" /\ i > Len(call.candidates) /\ warned' = warned
      /\ UNCHANGED << matched, excluded, ruleOverride, digitsOverride, paired >>
  BY DEF EndMatching
<1>2. IsFunction(targetByName)' /\ warned' \in SUBSET Name
  BY <1>1 DEF Invariants, Types, IsFunction
<1>3. /\ Types' /\ Decided' /\ Dropped' /\ Tried'
      /\ MatchedNames' = MatchedNames
      /\ \A n : TargetName(n)' = TargetName(n)
  BY <1>1, <1>2, AfterMatching
<1>4. Announced'
  BY <1>1 DEF Announced
<1>5. Aliases'
  <2>1. ASSUME NEW n \in Name PROVE Listed(targetByName[n])' /\ Untouched(n)'
    <3>1. Listed(targetByName[n]) /\ Untouched(n)
      BY DEF Invariants, Aliases
    <3>. QED  BY <1>1, <1>3, <3>1 DEF Listed, Untouched
  <2>2. \A k \in DOMAIN matched : ~ (k < 1)
    BY DEF Invariants, Types
  <2>. QED  BY <1>1, <2>1, <2>2 DEF Aliases
<1>. QED  BY <1>3, <1>4, <1>5 DEF Invariants

(* The entry the second loop reads for the name it is at: of a name no      *)
(* other compared column has, it is still the target's own.                 *)
LEMMA AliasInvariants ==
  ASSUME Invariants, Alias
  PROVE  Invariants'
<1>. DEFINE Actual == ActualName(matched[i])
<1>1. /\ call' = call /\ phase' = phase /\ i' = i + 1 /\ phase = "alias"
      /\ i <= Len(matched) /\ warned' = warned
      /\ UNCHANGED << matched, excluded, ruleOverride, digitsOverride, paired >>
      /\ targetByName' = IF Actual = matched[i] THEN targetByName
                         ELSE [targetByName EXCEPT ![matched[i]] = targetByName[Actual]]
  BY Zenon DEF Alias
<1>2. PICK n \in Name : n = matched[i] /\ n \in MatchedNames
  BY <1>1 DEF Invariants, Types, MatchedNames
<1>3. /\ Comparing(n) /\ paired[n] = TargetColumn(n)
  BY <1>2 DEF Invariants, Decided, Compared
<1>4. PICK a \in Name : /\ a = TargetName(n) /\ ActualName(n) = a
                        /\ TargetColumn(n) = ByName(call.target)[a]
                        /\ TargetColumn(n).name = a
  BY <1>3, Resolving DEF Comparing, Invariants, Types
<1>5. /\ targetByName' = IF a = n THEN targetByName
                         ELSE [targetByName EXCEPT ![n] = targetByName[a]]
  BY <1>1, <1>2, <1>4, Zenon
<1>6. IsFunction(targetByName)
  BY DEF Invariants, Types
<1>7. /\ a = n => targetByName' = targetByName
      /\ a # n => targetByName'[n] = targetByName[a]
      /\ \A m \in Name \ {n} : targetByName'[m] = targetByName[m]
      /\ IsFunction(targetByName)'
  BY <1>5, <1>6 DEF IsFunction
<1>8. i \in Nat \ {0} /\ warned \in SUBSET Name
  BY DEF Invariants, Types
<1>9. /\ Types' /\ Decided' /\ Dropped' /\ Tried'
      /\ MatchedNames' = MatchedNames
      /\ \A m : TargetName(m)' = TargetName(m) /\ TargetColumn(m)' = TargetColumn(m)
      /\ Chained' <=> Chained
  BY <1>1, <1>7, <1>8, AfterMatching
<1>10. Announced'
  BY <1>1 DEF Announced
<1>11. \A m \in Name : Listed(targetByName[m]) /\ Untouched(m)
  BY DEF Invariants, Aliases
<1>12. ASSUME NEW m \in Name PROVE Listed(targetByName[m])' /\ Untouched(m)'
  <2>1. targetByName'[m] = targetByName[m] \/ targetByName'[m] = targetByName[a]
    BY <1>7
  <2>2. Listed(targetByName[m])'
    BY <1>1, <1>11, <2>1 DEF Listed
  <2>3. Untouched(m)'
    <3>1. CASE m = n /\ a # n
      BY <1>2, <1>4, <1>9, <3>1 DEF Untouched
    <3>2. CASE m # n \/ a = n
      BY <1>1, <1>7, <1>9, <1>11, <3>2 DEF Untouched
    <3>. QED  BY <3>1, <3>2
  <2>. QED  BY <2>2, <2>3
<1>13. ASSUME ~ Chained PROVE targetByName'[n] = TargetColumn(n)
  <2>1. CASE a = n
    BY <1>4, <1>7, <1>11, <2>1 DEF Untouched
  <2>2. CASE a # n
    <3>1. a \notin MatchedNames
      BY <1>2, <1>3, <1>4, <1>13, <2>2 DEF Chained
    <3>. QED  BY <1>4, <1>7, <1>11, <2>2, <3>1 DEF Untouched
  <2>. QED  BY <2>1, <2>2
<1>14. ASSUME ~ Chained, NEW k \in DOMAIN matched, k < i + 1 PROVE Resolved(k)'
  <2>1. PICK m \in Name : m = matched[k] /\ m \in MatchedNames
    BY DEF Invariants, Types, MatchedNames
  <2>2. CASE m = n
    BY <1>1, <1>9, <1>13, <1>14, <2>1, <2>2 DEF Resolved
  <2>3. CASE m # n
    <3>1. k \in Nat /\ k # i
      BY <1>2, <2>1, <2>3 DEF Invariants, Types
    <3>2. Resolved(k)
      BY <1>1, <1>8, <1>14, <3>1 DEF Invariants, Aliases
    <3>. QED  BY <1>1, <1>7, <1>9, <2>1, <2>3, <3>2 DEF Resolved
  <2>. QED  BY <2>2, <2>3
<1>15. Aliases'
  BY <1>1, <1>9, <1>12, <1>14 DEF Aliases
<1>. QED  BY <1>9, <1>10, <1>15 DEF Invariants

LEMMA EndAliasingInvariants ==
  ASSUME Invariants, EndAliasing
  PROVE  Invariants'
<1>1. /\ call' = call /\ phase' = "done" /\ i' = 1 /\ targetByName' = targetByName
      /\ phase = "alias" /\ i > Len(matched) /\ warned' = warned \cup RunLevelWarnings
      /\ UNCHANGED << matched, excluded, ruleOverride, digitsOverride, paired >>
  BY DEF EndAliasing
<1>2. RunLevelWarnings \subseteq Name
  BY DEF RunLevelWarnings, MatchedNames, Invariants, Types
<1>3. IsFunction(targetByName)' /\ warned' \in SUBSET Name /\ warned \subseteq warned'
  BY <1>1, <1>2 DEF Invariants, Types, IsFunction
<1>4. /\ Types' /\ Decided' /\ Dropped' /\ Tried'
      /\ MatchedNames' = MatchedNames
      /\ \A n \in Name : RuleFor(Source[n], n)' = RuleFor(Source[n], n)
      /\ \A n : TargetName(n)' = TargetName(n) /\ TargetColumn(n)' = TargetColumn(n)
      /\ Chained' <=> Chained
  BY <1>1, <1>3, AfterMatching
<1>5. Announced'
  <2>1. MatchedNames \subseteq Name
    BY DEF MatchedNames, Invariants, Types
  <2>2. RunLevelWarnings' = RunLevelWarnings
    BY <1>4, <2>1 DEF RunLevelWarnings
  <2>. QED  BY <1>1, <2>2 DEF Announced
<1>6. Aliases'
  <2>1. ASSUME NEW n \in Name PROVE Listed(targetByName[n])' /\ Untouched(n)'
    <3>1. Listed(targetByName[n]) /\ Untouched(n)
      BY DEF Invariants, Aliases
    <3>. QED  BY <1>1, <1>4, <3>1 DEF Listed, Untouched
  <2>2. ASSUME ~ Chained, NEW k \in DOMAIN matched PROVE Resolved(k)'
    <3>1. k < i
      BY <1>1 DEF Invariants, Types
    <3>2. Resolved(k)
      BY <1>1, <2>2, <3>1 DEF Invariants, Aliases
    <3>. QED  BY <1>1, <1>4, <3>2 DEF Resolved
  <2>. QED  BY <1>1, <1>4, <2>1, <2>2 DEF Aliases
<1>. QED  BY <1>4, <1>5, <1>6 DEF Invariants

LEMMA StutterInvariants ==
  ASSUME Invariants, UNCHANGED vars
  PROVE  Invariants'
<1>1. /\ call' = call /\ phase' = phase /\ i' = i /\ warned' = warned
      /\ targetByName' = targetByName
      /\ UNCHANGED << matched, excluded, ruleOverride, digitsOverride, paired >>
  BY DEF vars
<1>2. /\ Source' = Source
      /\ \A n : TargetName(n)' = TargetName(n) /\ TargetColumn(n)' = TargetColumn(n)
      /\ \A n : (Comparing(n)' <=> Comparing(n)) /\ Pair(n)' = Pair(n)
  BY <1>1, CallDecides
<1>3. MatchedNames' = MatchedNames
  BY <1>1 DEF MatchedNames
<1>4. Types'
  BY <1>1 DEF Invariants, Types, IsFunction
<1>5. Decided'
  <2>1. \A n : (Compared(n) => Compared(n)') /\ (Unpaired(n) => Unpaired(n)')
    BY <1>1, <1>2, Zenon DEF Compared, Unpaired
  <2>. QED  BY <1>3, <2>1 DEF Invariants, Decided
<1>6. Dropped'
  BY <1>1, <1>2 DEF Invariants, Dropped
<1>7. Tried'
  BY <1>1, <1>2, <1>3 DEF Invariants, Tried, Settled
<1>8. Announced'
  <2>1. RunLevelWarnings' = RunLevelWarnings
    BY <1>1, <1>2, <1>3 DEF RunLevelWarnings, RuleFor
  <2>. QED  BY <1>1, <2>1 DEF Invariants, Announced
<1>9. Aliases'
  <2>1. \A n : Listed(targetByName[n])' <=> Listed(targetByName[n])
    BY <1>1 DEF Listed
  <2>2. \A n : Untouched(n)' <=> Untouched(n)
    BY <1>1, <1>2, <1>3 DEF Untouched
  <2>3. \A k : Resolved(k)' <=> Resolved(k)
    BY <1>1, <1>2 DEF Resolved
  <2>4. Chained' <=> Chained
    BY <1>1, <1>3 DEF Chained
  <2>. QED  BY <1>1, <2>1, <2>2, <2>3, <2>4 DEF Invariants, Aliases
<1>. QED  BY <1>4, <1>5, <1>6, <1>7, <1>8, <1>9 DEF Invariants

LEMMA NextInvariants == Invariants /\ [Next]_vars => Invariants'
<1>. SUFFICES ASSUME Invariants, [Next]_vars PROVE Invariants'
  OBVIOUS
<1>1. CASE SkipUnknown
  BY <1>1, SkipUnknownInvariants
<1>2. CASE Exclude
  BY <1>2, ExcludeInvariants
<1>3. CASE Match
  BY <1>3, MatchInvariants
<1>4. CASE EndMatching
  BY <1>4, EndMatchingInvariants
<1>5. CASE Alias
  BY <1>5, AliasInvariants
<1>6. CASE EndAliasing
  BY <1>6, EndAliasingInvariants
<1>7. CASE Terminated \/ UNCHANGED vars
  BY <1>7, StutterInvariants DEF Terminated
<1>. QED  BY <1>1, <1>2, <1>3, <1>4, <1>5, <1>6, <1>7, Zenon DEF Next

LEMMA AlwaysInvariants == Spec => []Invariants
BY InitInvariants, NextInvariants, PTL DEF Spec

-------------------------------------------------------------------------------
(* Type correctness: every entry of the target's dictionary is a column of  *)
(* the target, and every negotiated number of digits is one.                *)
LEMMA InvariantsType == Invariants => TypeInv
<1>. SUFFICES ASSUME Invariants PROVE TypeInv
  OBVIOUS
<1>1. /\ phase \in {"match", "alias", "done"} /\ i \in Nat
      /\ matched \in Seq(Name) /\ excluded \subseteq Name /\ warned \subseteq Name
  BY DEF Invariants, Types
<1>2. ASSUME NEW n \in Name PROVE digitsOverride[n] \in Nat \cup {None}
  <2>1. CASE n \in MatchedNames
    <3>1. Comparing(n) /\ digitsOverride[n] = Pair(n).digits
      BY <2>1 DEF Invariants, Decided, Compared
    <3>2. Source[n] \in Column /\ TargetColumn(n) \in Column
      BY <3>1, Resolving DEF Comparing, Invariants, Types
    <3>. QED  BY <3>1, <3>2, NegotiatedDigits DEF Pair
  <2>2. CASE n \notin MatchedNames
    BY <2>2 DEF Invariants, Decided, Unpaired
  <2>. QED  BY <2>1, <2>2
<1>3. \A n \in Name : Listed(targetByName[n])
  BY DEF Invariants, Aliases
<1>. QED  BY <1>1, <1>2, <1>3 DEF TypeInv, Listed

THEOREM TypeCorrect == Spec => []TypeInv
BY AlwaysInvariants, InvariantsType, PTL

(* The docstring of _apply_column_match, but for swaps and chains: a        *)
(* source's name resolves, on the target's plan, to the column it was       *)
(* matched with.                                                            *)
LEMMA InvariantsFaithful == Invariants => AliasFaithfulUnchained
<1>. SUFFICES ASSUME Invariants, ~ Chained, phase = "done", NEW n \in MatchedNames
              PROVE  targetByName[n] = paired[n]
  BY DEF AliasFaithfulUnchained, AliasFaithful
<1>1. PICK k \in DOMAIN matched : n = matched[k]
  BY DEF MatchedNames
<1>2. Resolved(k)
  BY DEF Invariants, Aliases
<1>3. n \in Name
  BY <1>1 DEF Invariants, Types
<1>4. paired[n] = TargetColumn(n)
  BY <1>3 DEF Invariants, Decided, Compared
<1>. QED  BY <1>1, <1>2, <1>4 DEF Resolved

THEOREM Faithful == Spec => []AliasFaithfulUnchained
BY AlwaysInvariants, InvariantsFaithful, PTL

-------------------------------------------------------------------------------
(* What a pair is rendered with, as a function of the pair.                 *)
Timed(s, t) == {Family(PickRule(s.native)), Family(PickRule(t.native))}
                 \cap {"timestamp", "TIME_1"} # {}

Upgraded(s, t) == Timed(s, t) /\ Digits(s, Micro) # Digits(t, Micro)

Decimal(s, t) == SharesScale(PickRule(s.native), PickRule(t.native))

OneUuid(s, t) == (Family(PickRule(s.native)) = "UUID_1") # (Family(PickRule(t.native)) = "UUID_1")

Chosen(rule, column) == IF rule # None THEN rule ELSE PickRule(column.native)

Rendered(rule, column, override) ==
  CASE rule = "INT_1" -> << "DEC_1", 0 >>
    [] rule = "DEC_1" -> << "DEC_1", OwnDigits(column, override, 0) >>
    [] rule = "TS_2"  -> << "TS_2", OwnDigits(column, override, Micro) >>
    [] rule = "TS_3"  -> << "TS_1", Micro >>
    [] OTHER          -> << rule, Micro >>

(* Every rule pick_rule() gives. *)
Rules == { "INT_1", "DEC_1", "FLT_1", "BOOL_1", "DATE_1", "TIME_1", "TS_1", "TS_3",
           "UUID_1", "BIN_1", "JSON_1", "ENUM_1", "ARR_1", "STR_1", "UNK_1" }

LEMMA Picked == \A native : PickRule(native) \in Rules
BY DEF PickRule, Rules

(* A family has one rule, but for the three that have more. *)
LEMMA Families ==
  \A r \in Rules :
    /\ Family(r) = "numeric" <=> r \in {"INT_1", "DEC_1", "FLT_1"}
    /\ Family(r) = "string" <=> r = "STR_1"
    /\ Family(r) = "timestamp" <=> r \in {"TS_1", "TS_3"}
    /\ Family(r) \notin {"numeric", "string", "timestamp"} => Family(r) = r
    /\ Family(r) = "UUID_1" <=> r = "UUID_1"
    /\ Family(r) = "TIME_1" <=> r = "TIME_1"
BY DEF Family, Rules

LEMMA Negotiated ==
  ASSUME NEW s, NEW t, NEW fold, NEW p, p = Negotiate(s, t, fold)
  PROVE  /\ PickRule(s.native) = "STR_1" /\ fold => p.rule = "STR_2"
         /\ ~ (PickRule(s.native) = "STR_1" /\ fold) =>
              /\ Upgraded(s, t) => p.rule = "TS_2"
              /\ ~ Upgraded(s, t) /\ OneUuid(s, t) => p.rule = "UUID_1"
              /\ ~ Upgraded(s, t) /\ ~ OneUuid(s, t) => p.rule = None
         /\ Upgraded(s, t) => p.digits = Lesser(Digits(s, Micro), Digits(t, Micro))
         /\ ~ Upgraded(s, t) /\ Decimal(s, t) => p.digits = Lesser(Digits(s, 0), Digits(t, 0))
         /\ ~ Upgraded(s, t) /\ ~ Decimal(s, t) => p.digits = None
         /\ p.warned <=> \/ Upgraded(s, t)
                         \/ Decimal(s, t) /\ Digits(s, 0) # Digits(t, 0)
<1>1. /\ p.rule = IF PickRule(s.native) = "STR_1" /\ fold THEN "STR_2"
                  ELSE IF Upgraded(s, t) THEN "TS_2"
                  ELSE IF OneUuid(s, t) THEN "UUID_1" ELSE None
      /\ p.digits = IF Upgraded(s, t) THEN Lesser(Digits(s, Micro), Digits(t, Micro))
                    ELSE IF Decimal(s, t) THEN Lesser(Digits(s, 0), Digits(t, 0)) ELSE None
      /\ p.warned <=> \/ Upgraded(s, t)
                      \/ Decimal(s, t) /\ Digits(s, 0) # Digits(t, 0)
  BY Zenon DEF Negotiate, Upgraded, Timed, OneUuid, Decimal
<1>. QED  BY <1>1, Zenon

LEMMA RenderedAs ==
  ASSUME NEW column, NEW n
  PROVE  /\ RuleFor(column, n) = Chosen(ruleOverride[n], column)
         /\ Rendering(column, n) =
              Rendered(RuleFor(column, n), column, digitsOverride[column.name])
BY DEF Rendering, Rendered, RuleFor, Chosen

LEMMA DigitsType ==
  ASSUME NEW s \in Column
  PROVE  /\ \A default \in Nat : Digits(s, default) \in Nat
         /\ s.digits # None => \A default : Digits(s, default) = s.digits
         /\ s.digits # None => s.digits \in Nat
         /\ PickRule(s.native) = "INT_1" => Digits(s, 0) = 0
BY DEF Digits, Column

LEMMA LesserOf ==
  ASSUME NEW a \in Nat, NEW b \in Nat
  PROVE  Lesser(a, b) \in Nat /\ Lesser(a, b) <= a /\ Lesser(a, b) <= b
         /\ (a = b => Lesser(a, b) = a) /\ (a = 0 \/ b = 0 => Lesser(a, b) = 0)
BY DEF Lesser

(* Both columns of a pair whose overrides both sides find are rendered with *)
(* one rule and one number of digits.                                       *)
LEMMA PairRendersAlike ==
  ASSUME NEW s \in Column, NEW t \in Column, NEW fold, NEW p, p = Negotiate(s, t, fold),
         Compatible(PickRule(s.native), PickRule(t.native)), Comparable(s, t)
  PROVE  Rendered(Chosen(p.rule, s), s, p.digits) = Rendered(Chosen(p.rule, t), t, p.digits)
<1>. DEFINE r == PickRule(s.native)
            q == PickRule(t.native)
<1>1. r \in Rules /\ q \in Rules
  BY Picked
<1>2. None \notin {"STR_2", "TS_2", "UUID_1"} /\ None \notin Nat
  BY NameAssumption
<1>3. Upgraded(s, t) \/ Decimal(s, t) =>
        /\ p.digits \in Nat
        /\ \A default : /\ OwnDigits(s, p.digits, default) = p.digits
                        /\ OwnDigits(t, p.digits, default) = p.digits
  <2>1. /\ Lesser(Digits(s, Micro), Digits(t, Micro)) \in Nat
        /\ Lesser(Digits(s, 0), Digits(t, 0)) \in Nat
    BY DigitsType, LesserOf, MicroAssumption
  <2>2. Upgraded(s, t) \/ Decimal(s, t) => p.digits \in Nat
    BY <2>1, Negotiated
  <2>. QED  BY <1>2, <2>2 DEF OwnDigits
<1>4. CASE p.rule # None
  <2>1. Chosen(p.rule, s) = p.rule /\ Chosen(p.rule, t) = p.rule
    BY <1>4 DEF Chosen
  <2>2. \/ p.rule = "STR_2"
        \/ p.rule = "TS_2" /\ Upgraded(s, t)
        \/ p.rule = "UUID_1"
    <3>1. CASE PickRule(s.native) = "STR_1" /\ fold
      BY <3>1, Negotiated
    <3>2. CASE ~ (PickRule(s.native) = "STR_1" /\ fold)
      BY <1>4, <3>2, Negotiated
    <3>. QED  BY <3>1, <3>2
  <2>. QED  BY <1>3, <2>1, <2>2 DEF Rendered
<1>5. CASE p.rule = None
  <2>1. Chosen(p.rule, s) = r /\ Chosen(p.rule, t) = q
    BY <1>5 DEF Chosen
  <2>2. ~ OneUuid(s, t)
    <3>1. "STR_2" # None /\ "TS_2" # None /\ "UUID_1" # None
      BY <1>2
    <3>2. p.rule # "STR_2" /\ p.rule # "TS_2" /\ p.rule # "UUID_1"
      BY <3>1, <1>5
    <3>3. ~ (PickRule(s.native) = "STR_1" /\ fold)
      BY <3>2, Negotiated
    <3>4. ~ Upgraded(s, t)
      BY <3>2, <3>3, Negotiated
    <3>. QED  BY <3>2, <3>3, <3>4, Negotiated
  <2>3. Family(r) = Family(q)
    BY <1>1, <2>2, Families DEF Compatible, Comparable, OneUuid
  <2>4. \/ r = q
        \/ {r, q} = {"INT_1", "DEC_1"}
        \/ {r, q} = {"TS_1", "TS_3"}
    BY <1>1, <2>3, Families DEF Comparable
  <2>5. CASE r = q
    <3>1. r = "DEC_1" => Decimal(s, t)
      BY DEF Decimal, SharesScale
    <3>2. r # "TS_2"
      BY <1>1 DEF Rules
    <3>. QED  BY <1>3, <2>1, <2>5, <3>1, <3>2 DEF Rendered
  <2>6. CASE {r, q} = {"INT_1", "DEC_1"}
    <3>1. Decimal(s, t) /\ (r = "INT_1" \/ q = "INT_1")
      BY <2>6 DEF Decimal, SharesScale
    <3>2. ~ Upgraded(s, t)
      BY <1>1, <2>6, Families DEF Upgraded, Timed
    <3>3. p.digits = Lesser(Digits(s, 0), Digits(t, 0))
      BY <3>1, <3>2, Negotiated
    <3>4. /\ Digits(s, 0) \in Nat /\ Digits(t, 0) \in Nat
          /\ Digits(s, 0) = 0 \/ Digits(t, 0) = 0
      BY <3>1, DigitsType
    <3>5. p.digits = 0
      BY <3>3, <3>4, LesserOf
    <3>. QED  BY <1>3, <2>1, <2>6, <3>1, <3>5 DEF Rendered
  <2>7. CASE {r, q} = {"TS_1", "TS_3"}
    BY <2>1, <2>7 DEF Rendered
  <2>. QED  BY <2>4, <2>5, <2>6, <2>7
<1>. QED  BY <1>4, <1>5

(* Both sides render a matched pair of one name, whose rules are of one     *)
(* family, with the same rule and to the same digit.                        *)
LEMMA InvariantsAlike == Invariants => SameNameRendersAlike
<1>. SUFFICES ASSUME Invariants, phase = "done", NEW n \in MatchedNames,
                     paired[n].name = n, Comparable(Source[n], targetByName[n])
              PROVE  Rendering(Source[n], n) = Rendering(targetByName[n], n)
  BY DEF SameNameRendersAlike
<1>1. n \in Name
  BY DEF MatchedNames, Invariants, Types
<1>2. Compared(n) /\ Untouched(n)
  BY <1>1 DEF Invariants, Decided, Aliases
<1>3. PICK s \in Column : s = Source[n] /\ s.name = n
  BY <1>1, <1>2, Resolving DEF Compared, Comparing, Invariants, Types
<1>4. PICK t \in Column : t = TargetColumn(n) /\ t.name = n
  BY <1>1, <1>2, Resolving DEF Compared, Comparing, Invariants, Types
<1>5. targetByName[n] = t
  BY <1>1, <1>2, <1>4, Resolving DEF Untouched, Compared, Comparing, Invariants, Types
<1>6. PICK p : p = Negotiate(s, t, call.fold)
  OBVIOUS
<1>7. ruleOverride[n] = p.rule /\ digitsOverride[n] = p.digits
  BY <1>2, <1>3, <1>4, <1>6 DEF Compared, Pair
<1>8. Compatible(PickRule(s.native), PickRule(t.native)) /\ Comparable(s, t)
  BY <1>2, <1>3, <1>4, <1>5 DEF Compared, Comparing
<1>9. Rendered(Chosen(p.rule, s), s, p.digits) = Rendered(Chosen(p.rule, t), t, p.digits)
  BY <1>6, <1>8, PairRendersAlike
<1>10. Rendering(s, n) = Rendered(Chosen(p.rule, s), s, p.digits)
  BY <1>3, <1>7, RenderedAs
<1>11. Rendering(t, n) = Rendered(Chosen(p.rule, t), t, p.digits)
  BY <1>4, <1>7, RenderedAs
<1>. QED  BY <1>3, <1>5, <1>9, <1>10, <1>11

THEOREM RenderedAlike == Spec => []SameNameRendersAlike
BY AlwaysInvariants, InvariantsAlike, PTL

-------------------------------------------------------------------------------
(* A source column of a type that is read under an assumption, and rendered *)
(* with another rule and without a warning, is compared with a uuid.        *)
LEMMA NothingAssumed ==
  ASSUME NEW s \in Column, NEW t \in Column, NEW fold, NEW p, p = Negotiate(s, t, fold),
         ~ p.warned, Assumed(s), Chosen(p.rule, s) \notin {"TS_3", "UNK_1"}
  PROVE  PickRule(t.native) = "UUID_1"
<1>1. PickRule(s.native) \in {"TS_3", "UNK_1"}
  BY DEF Assumed
<1>2. p.rule # None
  BY <1>1 DEF Chosen
<1>3. ~ Upgraded(s, t)
  BY Negotiated
<1>4. OneUuid(s, t)
  BY <1>1, <1>2, <1>3, Negotiated
<1>5. PickRule(s.native) \in Rules /\ PickRule(t.native) \in Rules
  BY Picked
<1>. QED  BY <1>1, <1>4, <1>5, Families DEF OneUuid

(* The digits a column declares are rendered, unless the rule is TS-2 or an *)
(* override of DEC-1 says otherwise.                                        *)
LEMMA KeepsDigits ==
  ASSUME NEW x \in Column, x.digits # None, NEW rule, NEW override,
         rule = "INT_1" => PickRule(x.native) = "INT_1",
         rule = "DEC_1" => override \in {None, x.digits},
         rule # "TS_2"
  PROVE  ~ (Rendered(rule, x, override)[2] < Lesser(x.digits, Micro))
<1>1. /\ x.digits \in Nat /\ Digits(x, 0) = x.digits
      /\ PickRule(x.native) = "INT_1" => x.digits = 0
  BY DigitsType
<1>2. /\ Lesser(x.digits, Micro) \in Nat
      /\ Lesser(x.digits, Micro) <= x.digits /\ Lesser(x.digits, Micro) <= Micro
  BY <1>1, LesserOf, MicroAssumption
<1>3. \/ rule = "INT_1" /\ Rendered(rule, x, override)[2] = 0
      \/ rule = "DEC_1" /\ Rendered(rule, x, override)[2] = OwnDigits(x, override, 0)
      \/ Rendered(rule, x, override)[2] = Micro
  BY DEF Rendered
<1>4. rule = "DEC_1" => OwnDigits(x, override, 0) = x.digits
  BY <1>1 DEF OwnDigits
<1>. QED  BY <1>1, <1>2, <1>3, <1>4, MicroAssumption

(* A pair without a warning loses none of the digits either side declares,  *)
(* whether a side finds the override or not.                                *)
LEMMA PairKeepsDigits ==
  ASSUME NEW s \in Column, NEW t \in Column, NEW fold, NEW p, p = Negotiate(s, t, fold),
         ~ p.warned, NEW x \in {s, t}, x.digits # None, NEW override \in {None, p.digits}
  PROVE  ~ (Rendered(Chosen(p.rule, x), x, override)[2] < Lesser(x.digits, Micro))
<1>. DEFINE rule == Chosen(p.rule, x)
<1>1. ~ Upgraded(s, t) /\ (Decimal(s, t) => Digits(s, 0) = Digits(t, 0))
  BY Negotiated
<1>2. p.rule \in {"STR_2", "UUID_1", None}
  <2>1. CASE PickRule(s.native) = "STR_1" /\ fold
    BY <2>1, Negotiated
  <2>2. CASE ~ (PickRule(s.native) = "STR_1" /\ fold)
    BY <1>1, <2>2, Negotiated
  <2>. QED  BY <2>1, <2>2
<1>3. rule = PickRule(x.native) \/ rule \in {"STR_2", "UUID_1"}
  BY <1>2 DEF Chosen
<1>4. rule # "TS_2" /\ (rule = "INT_1" => PickRule(x.native) = "INT_1")
  BY <1>3, Picked DEF Rules
<1>5. ASSUME rule = "DEC_1" PROVE override \in {None, x.digits}
  <2>1. PickRule(x.native) = "DEC_1"
    BY <1>3, <1>5
  <2>2. Decimal(s, t)
    BY <2>1 DEF Decimal, SharesScale
  <2>3. p.digits = Lesser(Digits(s, 0), Digits(t, 0))
    BY <1>1, <2>2, Negotiated
  <2>4. /\ Digits(s, 0) \in Nat /\ Digits(t, 0) \in Nat /\ Digits(s, 0) = Digits(t, 0)
        /\ Digits(x, 0) = x.digits /\ (x = s \/ x = t)
    BY <1>1, <2>2, DigitsType
  <2>5. p.digits = x.digits
    BY <2>3, <2>4, LesserOf
  <2>. QED  BY <2>5
<1>. HIDE DEF rule
<1>. QED  BY <1>4, <1>5, KeepsDigits DEF rule

(* What a diff takes for granted, it says: no column that was asked for is  *)
(* dropped without a warning, or compared and dropped; and of a column that *)
(* is compared without one nothing is assumed and no digit is lost.         *)
LEMMA InvariantsSay == Invariants => SaysWhatItAssumes
<1>. SUFFICES ASSUME Invariants, phase = "done" PROVE SaysWhatItAssumes
  BY DEF SaysWhatItAssumes
<1>1. ASSUME NEW k \in DOMAIN call.candidates, NEW n, n = call.candidates[k]
      PROVE  /\ Source[n] # None => n \in MatchedNames \cup excluded
             /\ n \notin MatchedNames \cap excluded
             /\ n \in excluded => n \in warned
  <2>1. n \in Name
    BY <1>1, InputsAssumption DEF Invariants, Types
  <2>2. Source[n] # None => n \in MatchedNames \cup excluded
    BY <1>1 DEF Invariants, Tried, Settled
  <2>3. n \in MatchedNames => Comparing(n)
    BY <2>1 DEF Invariants, Decided, Compared
  <2>4. n \in excluded => ~ Comparing(n) /\ n \in warned
    BY DEF Invariants, Dropped
  <2>. QED  BY <2>2, <2>3, <2>4
<1>2. ASSUME NEW n \in MatchedNames \ warned
      PROVE  /\ Assumed(Source[n]) => PickRule(paired[n].native) = "UUID_1"
             /\ Chained \/ ~ (LosesDigits(Source[n], n) \/ LosesDigits(paired[n], n))
  <2>1. n \in Name
    BY DEF MatchedNames, Invariants, Types
  <2>2. Compared(n)
    BY <2>1 DEF Invariants, Decided
  <2>3. PICK s \in Column : s = Source[n] /\ s.name = n
    BY <2>1, <2>2, Resolving DEF Compared, Comparing, Invariants, Types
  <2>4. PICK t \in Column : t = TargetColumn(n) /\ t = paired[n] /\ t.name \in Name
    BY <2>1, <2>2, Resolving DEF Compared, Comparing, Invariants, Types
  <2>5. PICK p : p = Negotiate(s, t, call.fold)
    OBVIOUS
  <2>6. /\ ruleOverride[n] = p.rule /\ digitsOverride[n] = p.digits
        /\ ~ p.warned
    BY <2>2, <2>3, <2>4, <2>5 DEF Compared, Pair
  <2>7. Assumed(s) => PickRule(t.native) = "UUID_1"
    <3>1. RuleFor(s, n) \notin {"TS_3", "UNK_1"}
      BY <2>3 DEF Invariants, Announced, RunLevelWarnings
    <3>. QED  BY <2>5, <2>6, <3>1, RenderedAs, NothingAssumed
  <2>8. ~ LosesDigits(s, n)
    <3>1. Rendering(s, n) = Rendered(Chosen(p.rule, s), s, p.digits)
      BY <2>3, <2>6, RenderedAs
    <3>. QED  BY <2>5, <2>6, <3>1, PairKeepsDigits DEF LosesDigits
  <2>9. ASSUME ~ Chained PROVE ~ LosesDigits(t, n)
    <3>1. t.name = n \/ t.name \notin MatchedNames
      BY <2>4, <2>9 DEF Chained
    <3>2. digitsOverride[t.name] \in {None, p.digits}
      BY <2>4, <2>6, <3>1 DEF Invariants, Decided, Unpaired
    <3>3. Rendering(t, n) = Rendered(Chosen(p.rule, t), t, digitsOverride[t.name])
      BY <2>6, RenderedAs
    <3>. QED  BY <2>5, <2>6, <3>2, <3>3, PairKeepsDigits DEF LosesDigits
  <2>. QED  BY <2>3, <2>4, <2>7, <2>8, <2>9
<1>. QED  BY <1>1, <1>2 DEF SaysWhatItAssumes

THEOREM Says == Spec => []SaysWhatItAssumes
BY AlwaysInvariants, InvariantsSay, PTL
===============================================================================
