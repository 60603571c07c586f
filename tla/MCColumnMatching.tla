-------------------------- MODULE MCColumnMatching --------------------------
(***************************************************************************)
(* Two source columns and two target columns, in every order, with names    *)
(* that agree, agree up to case, or are mapped: not at all, to one another  *)
(* (a swap), in a chain, or to a name the target lacks.                     *)
(***************************************************************************)
EXTENDS ColumnMatching

Names == {"x", "X", "y", "z"}
Lowered == [n \in Names |-> IF n = "X" THEN "x" ELSE n]

Types == { << "numeric", 1 >>, << "numeric", 2 >>, << "bigint", 0 >>, << "text", None >>,
           << "uuid", None >>, << "timestamp with time zone", 3 >>,
           << "timestamp without time zone", None >>, << "inet", None >> }

SomeTypes == { << "numeric", 2 >>, << "timestamp with time zone", None >> }

Col(n, type) == [name |-> n, native |-> type[1], digits |-> type[2]]

Renames == { << >>, << << "x", "y" >> >>, << << "x", "z" >> >>,
             << << "x", "y" >>, << "y", "x" >> >>, << << "x", "y" >>, << "y", "z" >> >> }

AsMap(pairs) ==
  [n \in Names |-> IF \E k \in DOMAIN pairs : pairs[k][1] = n
                   THEN pairs[CHOOSE k \in DOMAIN pairs : pairs[k][1] = n][2]
                   ELSE None]

Calls ==
  { [source |-> << Col("x", s), Col("y", << "numeric", 1 >>) >>,
     target |-> << Col(n[1], t), Col(n[2], u) >>,
     candidates |-> c, map |-> AsMap(m), fold |-> f] :
      s \in Types, t \in Types, u \in SomeTypes,
      n \in { p \in Names \X Names : p[1] # p[2] },
      c \in { << "x", "y" >>, << "z", "y", "x" >> },
      m \in Renames, f \in BOOLEAN }

(* A swap of two decimals, of scale 2 but for y of the source: here both    *)
(* halves of MatchApplied are at stake.                                     *)
SwapCalls ==
  { c \in Calls : /\ c.map = AsMap(<< << "x", "y" >>, << "y", "x" >> >>)
                  /\ c.source[1] = Col("x", << "numeric", 2 >>)
                  /\ \A k \in 1..2 : c.target[k] \in { Col(n, << "numeric", 2 >>) : n \in {"x", "y"} } }

===============================================================================
