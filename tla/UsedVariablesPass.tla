-------------------------- MODULE UsedVariablesPass --------------------------
(***************************************************************************)
(* One use of the pass: UsedVariablesPass(count_lhs).transform(tree) on a  *)
(* whole program, as the unit test of src/service/src/tests calls it, the *)
(* list turned into a set.  The result is compared with a reference        *)
(* definition written independently of the pass: the names of all variable*)
(* references anywhere in the tree, plus the assigned names when count_lhs *)
(* is on.                                                                  *)
(***************************************************************************)
EXTENDS UsedVariables

CONSTANT Programs   \* the programs: sequences of top-level statements

VARIABLES program, count_lhs, result, analysed

vars == <<program, count_lhs, result, analysed>>

Init ==
  /\ program \in Programs
  /\ count_lhs \in BOOLEAN
  /\ result = {}
  /\ analysed = FALSE

\* set(UsedVariablesPass(count_lhs).transform(tree)): the program rule is
\* _flatten, so the program folds like a statement list.
Transform ==
  /\ ~analysed
  /\ result' = UsedSeq(program, count_lhs)
  /\ analysed' = TRUE
  /\ UNCHANGED <<program, count_lhs>>

Next == Transform

Spec == Init /\ [][Next]_vars
-----------------------------------------------------------------------------
\* The direct sub-nodes of a node, whatever its kind: the fields holding one
\* node, and the elements of the fields holding a list of nodes.
NodeFields     == {"c", "e", "l", "r"}
NodeListFields == {"t", "els", "body", "args"}
Children(n) ==
  {n[f] : f \in DOMAIN n \cap NodeFields}
    \cup UNION {{n[f][j] : j \in 1..Len(n[f])} : f \in DOMAIN n \cap NodeListFields}

RECURSIVE Nodes(_)
Nodes(n) == {n} \cup UNION {Nodes(m) : m \in Children(n)}

Reference(prog, lhs) ==
  LET all == UNION {Nodes(prog[j]) : j \in 1..Len(prog)}
  IN  {m.v : m \in {x \in all : x.k = "var_name"}}
        \cup (IF lhs THEN {m.v : m \in {x \in all : x.k = "assignment"}} ELSE {})

(***************************************************************************)
(* The analysis the conditional and loop handlers rely on finds exactly    *)
(* the variables the tree reads, and the ones it writes when count_lhs is  *)
(* set: no reference below a function definition, a loop or a call is     *)
(* missed, and the flag changes only the assigned names (the spec's        *)
(* "compositional: union over children" and "x = 10 + y gives {y}, or     *)
(* {x, y} with LHS counting").                                            *)
(***************************************************************************)
MatchesReference == analysed => result = Reference(program, count_lhs)
=============================================================================
