----------------------------- MODULE SyntaxTree -----------------------------
(***************************************************************************)
(* The syntax-tree node shapes the parser hands to the compiler passes of  *)
(* src/service/src/compiler.py.  The grammar file is not part of the       *)
(* sources, so the shapes are taken from the handlers that read them: each *)
(* node is a record whose field k is the lark rule name the pass dispatches*)
(* on, and whose other fields are the children a handler reads.           *)
(*                                                                         *)
(* Data is abstracted: a number literal carries no value, a string literal *)
(* only its length in characters and the UTF-8 width of its characters, a  *)
(* function or variable name is a string from a small set.                *)
(***************************************************************************)
EXTENDS Naturals, Sequences

\* Expressions.
VarName(v)          == [k |-> "var_name", v |-> v]
Number              == [k |-> "number"]
Hexnumber           == [k |-> "hexnumber"]
String(nchars, width) == [k |-> "string", chars |-> nchars, width |-> width]
BinOp(op, l, r)     == [k |-> "binary_operation", op |-> op, l |-> l, r |-> r]
FunctionCall(f, as) == [k |-> "function_call", f |-> f, args |-> as]
OutsLiteral(nchars, width) == [k |-> "outs_literal", chars |-> nchars, width |-> width]

\* Statements.  An expression statement is the expression node itself.
\* A conditional without an else clause has els = << >>.
Assignment(v, e)    == [k |-> "assignment", v |-> v, e |-> e]
Conditional(c, t, e) == [k |-> "conditional", c |-> c, t |-> t, els |-> e]
WhileLoop(c, b)     == [k |-> "while_loop", c |-> c, body |-> b]
ReturnStatement(e)  == [k |-> "return_statement", e |-> e]
FunctionDef(f, ps, b) == [k |-> "function_def", f |-> f, params |-> ps, body |-> b]
ExternStatement(f, ps) == [k |-> "extern_statement", f |-> f, params |-> ps]
ExportStatement(f)  == [k |-> "export_statement", f |-> f]
AsmStatement        == [k |-> "asm_statement"]

LiteralKinds == {"number", "hexnumber", "string"}

(***************************************************************************)
(* Every statement sequence inside a node, the node's own ones included:   *)
(* what tree.find_data('statements') yields on a conditional.              *)
(***************************************************************************)
RECURSIVE StatementsIn(_)
StatementsIn(n) ==
  LET InSeq(s) == {s} \cup UNION {StatementsIn(s[i]) : i \in DOMAIN s}
  IN  CASE n.k = "conditional"  -> InSeq(n.t) \cup InSeq(n.els)
        [] n.k = "while_loop"   -> InSeq(n.body)
        [] n.k = "function_def" -> InSeq(n.body)
        [] OTHER                -> {}
=============================================================================
