---------------------------- MODULE UsedVariables ----------------------------
(***************************************************************************)
(* UsedVariablesPass (compiler.py lines 112-163): a lark Transformer that  *)
(* folds a sub-tree bottom-up into the list of source variables it reads,  *)
(* counting the left-hand side of assignments when count_lhs is set.       *)
(* The pass returns a list; every caller turns it into a set, so the model *)
(* folds into a set.                                                       *)
(***************************************************************************)
EXTENDS SyntaxTree, FiniteSets

RECURSIVE Used(_, _)

\* _flatten over a list of children: the union of their results.
UsedSeq(s, count_lhs) == UNION {Used(s[i], count_lhs) : i \in DOMAIN s}

\* A variant of lhs that counts the assigned name whatever the flag says.
\* Used as a mutant.
LhsAlways(v, count_lhs) == {v}

\* lhs: the assigned name only when count_lhs is on.
Lhs(v, count_lhs) == IF count_lhs THEN {v} ELSE {}

Used(n, count_lhs) ==
  CASE n.k = "var_name"         -> {n.v}
    [] n.k \in LiteralKinds \cup {"outs_literal", "asm_statement",
                                  "extern_statement"} -> {}
    [] n.k = "binary_operation" -> Used(n.l, count_lhs) \cup Used(n.r, count_lhs)
    [] n.k = "assignment"       -> Lhs(n.v, count_lhs) \cup Used(n.e, count_lhs)
    [] n.k = "function_call"    -> UsedSeq(n.args, count_lhs)
    [] n.k = "return_statement" -> Used(n.e, count_lhs)
    [] n.k = "conditional"      -> Used(n.c, count_lhs) \cup UsedSeq(n.t, count_lhs)
                                     \cup UsedSeq(n.els, count_lhs)
    [] n.k = "while_loop"       -> Used(n.c, count_lhs) \cup UsedSeq(n.body, count_lhs)
    \* function_name and arg_list fold to the empty list: only the body counts.
    [] n.k = "function_def"     -> UsedSeq(n.body, count_lhs)
=============================================================================
