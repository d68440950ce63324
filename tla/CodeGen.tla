------------------------------- MODULE CodeGen -------------------------------
(***************************************************************************)
(* GenerateAssemblyPass of src/service/src/compiler.py (lines 165-615),    *)
(* preceded by ExtractFunctionsPass (lines 90-110) that builds its function*)
(* table.  The pass is a recursive lark Interpreter; the model makes the   *)
(* recursion explicit: `stack` holds what the Python call stack holds, a   *)
(* frame of remaining statements per statement list being visited and, for*)
(* a conditional, loop or function definition whose body is being visited,*)
(* a frame with the locals its handler still needs after the visit.  Every *)
(* handler becomes one action for each stretch of code between two visits  *)
(* of a statement list.  Expressions contain no statements, so an          *)
(* expression is evaluated within the action that visits it, by the        *)
(* recursive operator Eval.                                                *)
(*                                                                         *)
(* Emitted assembly lines are records [op, dst, src]: the names written and*)
(* the names read.  A name is a triple <<kind, label, counter>>: the        *)
(* counter is the _new_temp_variable value the code puts in it, so two     *)
(* names minted by the code are equal exactly when the model's are.        *)
(***************************************************************************)
EXTENDS UsedVariables, Integers, SequencesExt, TLC

CONSTANT Programs   \* the source programs: sequences of top-level statements

VARIABLES
  variables,                        \* self.variables: source name -> asm name
  num,                              \* self._num, the fresh-name counter
  return_variables,                 \* self.return_variables
  current_scope_tag,                \* self.current_scope_tag
  first_call_to_current_scope_tag,  \* the deferred tag-establishing line
  current_conditional_true_var,     \* the branch gate
  to_return,                        \* self.to_return, the emitted lines
  functions,                        \* self.functions
  stack,                            \* the handlers' frames, innermost first
  status                            \* "running", "done", or how it stopped

vars == <<variables, num, return_variables, current_scope_tag,
          first_call_to_current_scope_tag, current_conditional_true_var,
          to_return, functions, stack, status>>

-----------------------------------------------------------------------------
(* Names and lines. *)
Tmp(n)      == <<"tmp", "", n>>
NoName      == <<"none", "", 0>>          \* Python None
Discard     == <<"_", "", 0>>             \* the operand `_`
Const(bytes) == <<"const", "", bytes>>    \* a literal operand of that width

Instr(op, dst, src) == [op |-> op, dst |-> dst, src |-> src]
NoInstr == Instr("none", << >>, << >>)

\* A variant of arg_name whose slot index is off by one, as if the
\* argument loops counted from 1 and the slot name subtracted 1 again.
\* Used as a mutant.
ArgNameOffByOne(fn, idx) == <<IF fn.ext THEN "arg_export" ELSE "arg", fn.name, idx - 1>>

\* Function.arg_name and Function.return_location (lines 48-58).
ArgName(fn, idx)     == <<IF fn.ext THEN "arg_export" ELSE "arg", fn.name, idx>>
ReturnLocation(fn)   == <<IF fn.ext THEN "retloc_export" ELSE "retloc", fn.name, 0>>
\* The label f"{name}_export".
ExportLabel(nm)      == <<nm[1] \o "+export", nm[2], nm[3]>>

\* OP_TO_ASM (lines 21-37): division has no opcode.
OP_TO_ASM == [add |-> "ADD", sub |-> "SUB", mul |-> "MUL",
              div |-> "NOT_IMPLEMENTED", bit_and |-> "AND",
              bit_xor |-> "XOR", bit_or |-> "OR",
              bit_shift_left |-> "SHL", bit_shift_right |-> "SHR",
              equals |-> "EQ", not_equals |-> "NEQ", less_than |-> "LT",
              greater_than |-> "GT", less_than_or_equal |-> "LTE",
              greater_than_or_equal |-> "GTE"]

\* A Function record (lines 39-46); op is the builtin template's opcode.
Sig(f, arity, special, has_ret, ext, op) ==
  [name |-> f, arity |-> arity, special |-> special, has_ret |-> has_ret,
   ext |-> ext, op |-> op]

\* SPECIAL_FUNCTIONS with GENERATE_ASSEMBLY_SPECIAL_FUNCTIONS (lines 60-88).
SPECIAL_FUNCTIONS ==
  { Sig("OUTD", 1, TRUE, FALSE, FALSE, "OUTD"),
    Sig("OUTS", 1, TRUE, FALSE, FALSE, "OUTS"),
    Sig("OPEN", 2, TRUE, TRUE, FALSE, "OPN"),
    Sig("READ", 1, TRUE, TRUE, FALSE, "RED"),
    Sig("WRITE", 2, TRUE, TRUE, FALSE, "WRT"),
    Sig("CLOSE", 1, TRUE, TRUE, FALSE, "CLS"),
    Sig("HALT", 1, TRUE, TRUE, FALSE, "HLT"),
    Sig("LOAD", 2, TRUE, TRUE, FALSE, "LOD"),
    Sig("LISTDIR", 1, TRUE, TRUE, FALSE, "LS"),
    Sig("SENDFILE", 2, TRUE, TRUE, FALSE, "SDF"),
    Sig("UNLINK", 1, TRUE, TRUE, FALSE, "ULK"),
    Sig("LSEEK", 2, TRUE, TRUE, FALSE, "LSK"),
    Sig("RANDOM", 1, TRUE, TRUE, FALSE, "RND") }

(***************************************************************************)
(* ExtractFunctionsPass: a pre-order walk recording function definitions   *)
(* and extern declarations, nested ones included.                          *)
(***************************************************************************)
RECURSIVE ExtractFunctions(_), ExtractSeq(_)
ExtractSeq(s) ==
  IF s = << >> THEN << >> ELSE ExtractFunctions(Head(s)) \o ExtractSeq(Tail(s))
ExtractFunctions(n) ==
  CASE n.k = "function_def"     ->
         <<Sig(n.f, Len(n.params), FALSE, TRUE, FALSE, "")>> \o ExtractSeq(n.body)
    [] n.k = "extern_statement" -> <<Sig(n.f, Len(n.params), FALSE, TRUE, TRUE, "")>>
    [] n.k = "conditional"      -> ExtractSeq(n.t) \o ExtractSeq(n.els)
    [] n.k = "while_loop"       -> ExtractSeq(n.body)
    [] OTHER                    -> << >>

\* main() appends SPECIAL_FUNCTIONS, and {f.name: f for f in functions}
\* keeps the last entry of a name: a builtin shadows a user function.
FunctionTable(prog) ==
  LET user    == ExtractSeq(prog)
      special == [f \in {s.name : s \in SPECIAL_FUNCTIONS} |->
                    CHOOSE s \in SPECIAL_FUNCTIONS : s.name = f]
      last(f) == user[CHOOSE i \in DOMAIN user :
                        user[i].name = f /\ \A j \in DOMAIN user :
                          user[j].name = f => j <= i]
  IN  special @@ [f \in {user[i].name : i \in DOMAIN user} |-> last(f)]
-----------------------------------------------------------------------------
(***************************************************************************)
(* Expressions.  An evaluation state st = [num, code, first, err] threads   *)
(* the counter, the emitted lines, the deferred tag line and the first     *)
(* fatal error ("ok" while there is none) through the evaluation; cx holds *)
(* what expressions only read: env, scope tag, gate and function table.    *)
(* A result is [st, val], val the name the handler returns.               *)
(***************************************************************************)
Ok(st, v)    == [st |-> st, val |-> v]
Fail(st, e)  == [st |-> [st EXCEPT !.err = e], val |-> NoName]

\* A variant of CreateNumLiteral that ignores the branch gate, as if
\* lines 545-547 and 558-560 were missing.  Used as a mutant.
CreateNumLiteralUngated(st, newv, width, cx) ==
  LET flush == cx.scope # NoName /\ st.first # NoInstr
      make  == IF cx.scope # NoName
                 THEN Instr("CTG", <<newv>>, <<cx.scope, Const(width)>>)
                 ELSE Instr("DUP", <<newv>>, <<Const(width)>>)
  IN  [num   |-> st.num,
       code  |-> st.code \o (IF flush THEN <<st.first>> ELSE << >>) \o <<make>>,
       first |-> IF flush THEN NoInstr ELSE st.first,
       err   |-> st.err]

\* A variant of CreateNumLiteral whose gated inner copy reuses the
\* literal's own name instead of a fresh _new_temp_variable().  Used as a
\* mutant.
CreateNumLiteralSameName(st, newv, width, cx) ==
  LET gated == cx.gate # NoName
      inner == newv
      flush == cx.scope # NoName /\ st.first # NoInstr
      make  == IF cx.scope # NoName
                 THEN Instr("CTG", <<inner>>, <<cx.scope, Const(width)>>)
                 ELSE Instr("DUP", <<inner>>, <<Const(width)>>)
      split == IF gated THEN <<Instr("BRR", <<newv, Discard>>, <<inner, cx.gate>>)>>
                        ELSE << >>
  IN  [num   |-> st.num,
       code  |-> st.code \o (IF flush THEN <<st.first>> ELSE << >>) \o <<make>> \o split,
       first |-> IF flush THEN NoInstr ELSE st.first,
       err   |-> st.err]

\* _create_num_literal(num, new_variable) (lines 544-562): bind newv to the
\* literal, retagged into the current scope, flushing the deferred tag
\* line on first use, and split against the gate when one is active.
CreateNumLiteral(st, newv, width, cx) ==
  LET gated == cx.gate # NoName
      inner == IF gated THEN Tmp(st.num + 1) ELSE newv
      flush == cx.scope # NoName /\ st.first # NoInstr
      make  == IF cx.scope # NoName
                 THEN Instr("CTG", <<inner>>, <<cx.scope, Const(width)>>)
                 ELSE Instr("DUP", <<inner>>, <<Const(width)>>)
      split == IF gated THEN <<Instr("BRR", <<newv, Discard>>, <<inner, cx.gate>>)>>
                        ELSE << >>
  IN  [num   |-> IF gated THEN st.num + 1 ELSE st.num,
       code  |-> st.code \o (IF flush THEN <<st.first>> ELSE << >>) \o <<make>> \o split,
       first |-> IF flush THEN NoInstr ELSE st.first,
       err   |-> st.err]

\* number, hexnumber and string (lines 533-581): a fresh name, then the
\* literal.  A string is packed into an integer of its UTF-8 byte length.
Literal(st, width, cx) ==
  LET v == Tmp(st.num + 1)
  IN  Ok(CreateNumLiteral([st EXCEPT !.num = @ + 1], v, width, cx), v)

\* outs_literal (lines 429-440): one OUTS call per 8-character chunk.
RECURSIVE OutsChunks(_, _, _, _)
OutsChunks(chars, width, st, cx) ==
  IF chars <= 0 THEN st
  ELSE LET l == Literal(st, (IF chars < 8 THEN chars ELSE 8) * width, cx)
       IN  OutsChunks(chars - 8, width,
                      [l.st EXCEPT !.code = @ \o <<Instr("OUTS", << >>, <<l.val>>)>>], cx)

\* The user-function call convention (lines 464-505).
UserCall(st, fn, args) ==
  LET n       == st.num
      ntwo    == <<"new_tag_with_old", "", n + 1>>
      otwo    == <<"old_tag_with_old", "", n + 2>>
      ntwn    == <<"new_tag_with_new", "", n + 3>>
      otwn    == <<"old_tag_with_new", "", n + 4>>
      label   == <<"return_label", fn.name, n + 5>>
      tagged  == <<"return_value_tagged", "", n + 6>>
      back    == <<"return_value", "", n + 7>>
      code    == << Instr("NTG", <<ntwo, otwo>>, <<args[1]>>),
                    Instr("CTG", <<ntwn>>, <<ntwo, ntwo>>),
                    Instr("CTG", <<otwn>>, <<ntwo, otwo>>) >>
                 \o [i \in 1..Len(args) |->
                       Instr("CTG", <<ArgName(fn, i - 1)>>, <<ntwo, args[i]>>)]
                 \o << Instr("CTG", <<ReturnLocation(fn)>>, <<ntwn, label>>),
                      Instr("LABEL", <<label>>, << >>),
                      Instr("DUP", <<tagged>>, <<Discard>>),
                      Instr("CTG", <<back>>, <<otwn, tagged>>) >>
  IN  Ok([st EXCEPT !.num = n + 7, !.code = @ \o code], back)

\* A builtin call (lines 452-462): one templated line, no tag plumbing.
BuiltinCall(st, fn, args) ==
  IF fn.has_ret
    THEN LET r == <<"builtin_return", fn.name, st.num + 1>>
         IN  Ok([st EXCEPT !.num = @ + 1,
                           !.code = @ \o <<Instr(fn.op, <<r>>, args)>>], r)
    ELSE Ok([st EXCEPT !.code = @ \o <<Instr(fn.op, << >>, args)>>], NoName)

\* function_call (lines 442-509), once its arguments are evaluated into a.
\* A zero-argument user call fails the assert of line 470.
Call(e, a, cx) ==
  LET fn == cx.funcs[e.f]
  IN  CASE a.st.err # "ok"               -> Ok(a.st, NoName)
        [] e.f \notin DOMAIN cx.funcs    -> Fail(a.st, "undefined_function")
        [] Len(a.vals) # fn.arity        -> Fail(a.st, "wrong_arity")
        [] fn.special                    -> BuiltinCall(a.st, fn, a.vals)
        [] a.vals = << >>                -> Fail(a.st, "crash")
        [] OTHER                         -> UserCall(a.st, fn, a.vals)

RECURSIVE Eval(_, _, _), EvalArgs(_, _, _)
\* The argument list, left to right (line 444).
EvalArgs(as, st, cx) ==
  IF as = << >> THEN [st |-> st, vals |-> << >>]
  ELSE LET h == Eval(Head(as), st, cx)
           r == EvalArgs(Tail(as), h.st, cx)
       IN  [st |-> r.st, vals |-> <<h.val>> \o r.vals]

Eval(e, st, cx) ==
  IF st.err # "ok" THEN Ok(st, NoName) ELSE
  CASE e.k = "var_name" ->                                   \* lines 420-427
         IF e.v \in DOMAIN cx.env THEN Ok(st, cx.env[e.v])
                                  ELSE Fail(st, "undefined_variable")
    [] e.k \in {"number", "hexnumber"} -> Literal(st, 0, cx)
    [] e.k = "string" ->
         IF e.chars > 8 THEN Fail(st, "long_string")
                        ELSE Literal(st, e.chars * e.width, cx)
    [] e.k = "outs_literal" -> Ok(OutsChunks(e.chars, e.width, st, cx), NoName)
    [] e.k = "binary_operation" ->                           \* lines 520-531
         LET l == Eval(e.l, st, cx)
             r == Eval(e.r, l.st, cx)
             d == Tmp(r.st.num + 1)
         IN  IF r.st.err # "ok" THEN r
             ELSE Ok([r.st EXCEPT !.num = @ + 1, !.code = @ \o
                        <<Instr(OP_TO_ASM[e.op], <<d>>, <<l.val, r.val>>)>>], d)
    [] e.k = "function_call" -> Call(e, EvalArgs(e.args, st, cx), cx)
-----------------------------------------------------------------------------
(* The state the handlers read and write, as seen by Eval. *)
Cx == [env |-> variables, scope |-> current_scope_tag,
       gate |-> current_conditional_true_var, funcs |-> functions]
St == [num |-> num, code |-> to_return,
       first |-> first_call_to_current_scope_tag, err |-> "ok"]

\* Keep what an evaluation did to the counter, the lines and the tag line.
Commit(st) ==
  /\ num' = st.num
  /\ to_return' = st.code
  /\ first_call_to_current_scope_tag' = st.first

\* l.error + sys.exit(-1), or an uncaught exception: the compiler stops and
\* writes nothing.
Abort(why) ==
  /\ status' = why
  /\ UNCHANGED <<variables, num, return_variables, current_scope_tag,
                 first_call_to_current_scope_tag, current_conditional_true_var,
                 to_return, functions, stack>>

StmtsFrame(seq) == [k |-> "stmts", seq |-> seq]

\* The statement the Interpreter visits next, and the stack after it.
Pending == stack # << >> /\ Head(stack).k = "stmts" /\ Head(stack).seq # << >>
Stmt    == Head(Head(stack).seq)
Rest    == <<[Head(stack) EXCEPT !.seq = Tail(@)]>> \o Tail(stack)

\* The position of x in a sequence without repetitions.
IndexOf(s, x) == CHOOSE i \in DOMAIN s : s[i] = x

Init ==
  /\ \E prog \in Programs :
       /\ stack = <<StmtsFrame(prog)>>
       /\ functions = FunctionTable(prog)
  /\ variables = [v \in {} |-> NoName]
  /\ num = 0
  /\ return_variables = {}
  /\ current_scope_tag = NoName
  /\ first_call_to_current_scope_tag = NoInstr
  /\ current_conditional_true_var = NoName
  /\ to_return = << >>
  /\ status = "running"

-----------------------------------------------------------------------------
(* Simple statements. *)

\* assignment (lines 511-518): a new name for every write.
Assign ==
  /\ status = "running" /\ Pending /\ Stmt.k = "assignment"
  /\ LET r == Eval(Stmt.e, St, Cx)
         d == <<"var", Stmt.v, r.st.num + 1>>
     IN  \/ r.st.err # "ok" /\ Abort(r.st.err)
         \/ /\ r.st.err = "ok"
            /\ Commit([r.st EXCEPT !.num = @ + 1,
                                   !.code = @ \o <<Instr("DUP", <<d>>, <<r.val>>)>>])
            /\ variables' = (Stmt.v :> d) @@ variables
            /\ stack' = Rest
            /\ UNCHANGED <<return_variables, current_scope_tag,
                           current_conditional_true_var, functions, status>>

\* An expression statement: its value is dropped.
ExpressionStatement ==
  /\ status = "running" /\ Pending
  /\ Stmt.k \in LiteralKinds \cup {"var_name", "binary_operation",
                                   "function_call", "outs_literal"}
  /\ LET r == Eval(Stmt, St, Cx)
     IN  \/ r.st.err # "ok" /\ Abort(r.st.err)
         \/ /\ r.st.err = "ok"
            /\ Commit(r.st)
            /\ stack' = Rest
            /\ UNCHANGED <<variables, return_variables, current_scope_tag,
                           current_conditional_true_var, functions, status>>

\* return_statement (lines 353-355): only records the value.
Return ==
  /\ status = "running" /\ Pending /\ Stmt.k = "return_statement"
  /\ LET r == Eval(Stmt.e, St, Cx)
     IN  \/ r.st.err # "ok" /\ Abort(r.st.err)
         \/ /\ r.st.err = "ok"
            /\ Commit(r.st)
            /\ return_variables' = return_variables \cup {r.val}
            /\ stack' = Rest
            /\ UNCHANGED <<variables, current_scope_tag,
                           current_conditional_true_var, functions, status>>

\* export_statement (lines 583-595).
Export ==
  /\ status = "running" /\ Pending /\ Stmt.k = "export_statement"
  /\ \/ Stmt.f \notin DOMAIN functions /\ Abort("undefined_export")
     \/ /\ Stmt.f \in DOMAIN functions
        /\ LET fn == functions[Stmt.f]
           IN  to_return' = to_return
                 \o [i \in 1..fn.arity |->
                       Instr("export", << >>, <<ExportLabel(ArgName(fn, i - 1))>>)]
                 \o <<Instr("export", << >>, <<ExportLabel(ReturnLocation(fn))>>)>>
        /\ stack' = Rest
        /\ UNCHANGED <<variables, num, return_variables, current_scope_tag,
                       first_call_to_current_scope_tag,
                       current_conditional_true_var, functions, status>>

\* extern_statement (lines 597-609): the extraction pass recorded every
\* extern, so the assert of line 601 cannot fail.
Extern ==
  /\ status = "running" /\ Pending /\ Stmt.k = "extern_statement"
  /\ LET fn == functions[Stmt.f]
     IN  to_return' = to_return
           \o [i \in 1..fn.arity |-> Instr("extern", <<ArgName(fn, i - 1)>>, << >>)]
           \o <<Instr("extern", <<ReturnLocation(fn)>>, << >>)>>
  /\ stack' = Rest
  /\ UNCHANGED <<variables, num, return_variables, current_scope_tag,
                 first_call_to_current_scope_tag,
                 current_conditional_true_var, functions, status>>

\* asm_statement (lines 611-615): text passed through uninterpreted.
Asm ==
  /\ status = "running" /\ Pending /\ Stmt.k = "asm_statement"
  /\ to_return' = to_return \o <<Instr("asm", << >>, << >>)>>
  /\ stack' = Rest
  /\ UNCHANGED <<variables, num, return_variables, current_scope_tag,
                 first_call_to_current_scope_tag,
                 current_conditional_true_var, functions, status>>

\* The end of a statement list: its visit returns to the caller.
EndOfStatements ==
  /\ status = "running"
  /\ stack # << >> /\ Head(stack).k = "stmts" /\ Head(stack).seq = << >>
  /\ stack' = Tail(stack)
  /\ UNCHANGED <<variables, num, return_variables, current_scope_tag,
                 first_call_to_current_scope_tag,
                 current_conditional_true_var, to_return, functions, status>>

\* generate_assembly.visit(tree) returns; main() takes to_return.
Finish ==
  /\ status = "running" /\ stack = << >>
  /\ status' = "done"
  /\ UNCHANGED <<variables, num, return_variables, current_scope_tag,
                 first_call_to_current_scope_tag,
                 current_conditional_true_var, to_return, functions, stack>>
-----------------------------------------------------------------------------
(***************************************************************************)
(* conditional (lines 182-255), in three steps: up to the visit of the     *)
(* true branch, between the two branch visits, after the else visit.      *)
(***************************************************************************)
EnterConditional ==
  /\ status = "running" /\ Pending /\ Stmt.k = "conditional"
  /\ LET r    == Eval(Stmt.c, St, Cx)
         cv   == r.val
         \* UsedVariablesPass(True) over every nested statement list,
         \* then only the variables already bound.
         used == {v \in UNION {UsedSeq(ss, TRUE) : ss \in StatementsIn(Stmt)} :
                    v \in DOMAIN variables}
         U    == SetToSeq(used)
         n0   == r.st.num
         branch == [v \in used |-> <<<<"true", v, n0 + 2 * IndexOf(U, v) - 1>>,
                                     <<"false", v, n0 + 2 * IndexOf(U, v)>>>>]
         splits == [i \in 1..Len(U) |->
                      Instr("BRR", branch[U[i]], <<variables[U[i]], cv>>)]
         \* true_value: the literal 1 under the enclosing scope and gate.
         one  == Tmp(n0 + 2 * Len(U) + 1)
         st1  == CreateNumLiteral([r.st EXCEPT !.num = n0 + 2 * Len(U) + 1,
                                               !.code = @ \o splits], one, 0, Cx)
         gt   == <<"true", "", st1.num + 1>>
         gf   == <<"false", "", st1.num + 2>>
     IN  \/ r.st.err # "ok" /\ Abort(r.st.err)
         \/ /\ r.st.err = "ok"
            /\ Commit([st1 EXCEPT !.num = @ + 2,
                                  !.code = @ \o <<Instr("BRR", <<gt, gf>>, <<one, cv>>)>>])
            /\ variables' = [v \in DOMAIN variables |->
                               IF v \in used THEN branch[v][1] ELSE variables[v]]
            /\ current_conditional_true_var' = gt
            \* gate_true is the value line 211 stores in the gate (a ghost
            \* copy, for the properties).
            /\ stack' = <<StmtsFrame(Stmt.t),
                          [k |-> "if_else", past |-> variables, branch |-> branch,
                           prior_gate |-> current_conditional_true_var,
                           gate_true |-> gt, gate_false |-> gf, els |-> Stmt.els]>>
                        \o Rest
            /\ UNCHANGED <<return_variables, current_scope_tag, functions, status>>

\* A variant of ElseBranch that leaves the true gate active for the false
\* branch, as if line 222 were missing.  Used as a mutant.
ElseBranchKeepsTrueGate ==
  /\ status = "running" /\ stack # << >> /\ Head(stack).k = "if_else"
  /\ LET f == Head(stack)
     IN  /\ variables' = [v \in DOMAIN f.past |->
                            IF v \in DOMAIN f.branch THEN f.branch[v][2] ELSE f.past[v]]
         /\ stack' = <<StmtsFrame(f.els),
                       [k |-> "if_end", after_true |-> variables,
                        prior_gate |-> f.prior_gate, gate_false |-> f.gate_false,
                        true_side |-> {f.branch[v][1] : v \in DOMAIN f.branch}
                                        \cup {f.gate_true},
                        false_side |-> {f.branch[v][2] : v \in DOMAIN f.branch}
                                        \cup {f.gate_false}]>>
                     \o Tail(stack)
  /\ UNCHANGED <<num, return_variables, current_scope_tag, current_conditional_true_var,
                 first_call_to_current_scope_tag, to_return, functions, status>>

\* After the true branch: snapshot it, restore, rebind to the false copies.
ElseBranch ==
  /\ status = "running" /\ stack # << >> /\ Head(stack).k = "if_else"
  /\ LET f == Head(stack)
     IN  /\ current_conditional_true_var' = f.gate_false
         /\ variables' = [v \in DOMAIN f.past |->
                            IF v \in DOMAIN f.branch THEN f.branch[v][2] ELSE f.past[v]]
         /\ stack' = <<StmtsFrame(f.els),
                       [k |-> "if_end", after_true |-> variables,
                        prior_gate |-> f.prior_gate, gate_false |-> f.gate_false,
                        true_side |-> {f.branch[v][1] : v \in DOMAIN f.branch}
                                        \cup {f.gate_true},
                        false_side |-> {f.branch[v][2] : v \in DOMAIN f.branch}
                                        \cup {f.gate_false}]>>
                     \o Tail(stack)
  /\ UNCHANGED <<num, return_variables, current_scope_tag,
                 first_call_to_current_scope_tag, to_return, functions, status>>

\* After the else branch: one MER per variable bound differently by the two
\* branches; a variable bound by one branch only keeps that binding.
ExitConditional ==
  /\ status = "running" /\ stack # << >> /\ Head(stack).k = "if_end"
  /\ LET f   == Head(stack)
         at  == f.after_true
         af  == variables
         merged == {v \in DOMAIN at \cap DOMAIN af : at[v] # af[v]}
         M   == SetToSeq(merged)
         Phi(v) == <<"phi", v, num + IndexOf(M, v)>>
     IN  /\ to_return' = to_return
              \o [i \in 1..Len(M) |-> Instr("MER", <<Phi(M[i])>>, <<at[M[i]], af[M[i]]>>)]
         /\ num' = num + Len(M)
         /\ variables' = [v \in DOMAIN at \cup DOMAIN af |->
                            IF v \in merged THEN Phi(v)
                            ELSE IF v \in DOMAIN af THEN af[v] ELSE at[v]]
         /\ current_conditional_true_var' = f.prior_gate
         /\ stack' = Tail(stack)
  /\ UNCHANGED <<return_variables, current_scope_tag,
                 first_call_to_current_scope_tag, functions, status>>
-----------------------------------------------------------------------------
(***************************************************************************)
(* while_loop (lines 257-350): up to the visit of the body, and after it.  *)
(* a_used_variable is the first variable, in the iteration order of a set  *)
(* of strings (which varies between runs), that was bound before the loop: *)
(* any of them.  With none, loop_variables[None] raises KeyError.          *)
(***************************************************************************)
\* A variant with the re-entering tag read from the start value: the
\* tuple index of line 313 off by two.  Used as a mutant.
NextLoopTagLineFromStart(loop_variables, a, next_loop_tag) ==
  Instr("ETG", <<next_loop_tag>>, <<loop_variables[a][2]>>)

\* next_loop_tag = ETG of a_used_variable's "again" value (lines 313-315);
\* loop_variables[v] is <<prior, start, last, again, end>>.
NextLoopTagLine(loop_variables, a, next_loop_tag) ==
  Instr("ETG", <<next_loop_tag>>, <<loop_variables[a][4]>>)

EnterWhile ==
  /\ status = "running" /\ Pending /\ Stmt.k = "while_loop"
  /\ LET used      == Used(Stmt.c, TRUE) \cup UsedSeq(Stmt.body, TRUE)
         undefined == used \ DOMAIN variables
         Un        == SetToSeq(undefined)
         prior     == [v \in used |->
                         IF v \in undefined
                           THEN <<"not_defined_before_loop", v, num + IndexOf(Un, v)>>
                           ELSE variables[v]]
         n1        == num + Len(Un)
         ntwo      == <<"new_tag_with_old", "", n1 + 1>>
         otwo      == <<"old_tag_with_old", "", n1 + 2>>
         otwn      == <<"old_tag_with_new", "", n1 + 3>>
         U         == SetToSeq(used)
         Nm(kind, v) == <<kind, v, n1 + 3 + 5 * (IndexOf(U, v) - 1)
                           + CASE kind = "loop_input_tagged" -> 1
                               [] kind = "loop_last_value"   -> 2
                               [] kind = "loop_again"        -> 3
                               [] kind = "loop_start"        -> 4
                               [] kind = "loop_end"          -> 5>>
         n2        == n1 + 3 + 5 * Len(U)
         cur       == <<"loop_current_tag", "", n2 + 1>>
         loop_variables == [v \in used |->
                              <<prior[v], Nm("loop_start", v), Nm("loop_last_value", v),
                                Nm("loop_again", v), Nm("loop_end", v)>>]
         env       == [v \in DOMAIN variables \cup used |->
                         IF v \in used THEN Nm("loop_start", v) ELSE variables[v]]
     IN  \/ used \subseteq undefined /\ Abort("crash")
         \/ \E a \in used \ undefined :
              LET entry == << Instr("NTG", <<ntwo, otwo>>, <<prior[a]>>),
                              Instr("CTG", <<otwn>>, <<ntwo, otwo>>) >>
                           \o FlattenSeq([i \in 1..Len(U) |->
                                <<Instr("CTG", <<Nm("loop_input_tagged", U[i])>>,
                                        <<ntwo, prior[U[i]]>>),
                                  Instr("MER", <<Nm("loop_start", U[i])>>,
                                        <<Nm("loop_input_tagged", U[i]),
                                          Nm("loop_last_value", U[i])>>)>>])
                           \o <<Instr("ETG", <<cur>>, <<Nm("loop_start", a)>>)>>
                  \* the condition, under the entering tag, without gate
                  r     == Eval(Stmt.c,
                                [num |-> n2 + 1, code |-> to_return \o entry,
                                 first |-> NoInstr, err |-> "ok"],
                                [env |-> env, scope |-> cur, gate |-> NoName,
                                 funcs |-> functions])
                  cv    == r.val
                  n3    == r.st.num
                  nxt   == <<"loop_next_tag", "", n3 + 1>>
                  Ex(kind, v) == <<kind, v, n3 + 1 + 3 * (IndexOf(U, v) - 1)
                                   + CASE kind = "true"     -> 1
                                       [] kind = "false"    -> 2
                                       [] kind = "reset_il" -> 3>>
                  exits == FlattenSeq([i \in 1..Len(U) |->
                             << Instr("BRR", <<Ex("true", U[i]), Ex("false", U[i])>>,
                                      <<Nm("loop_start", U[i]), cv>>),
                                Instr("ITG", <<Nm("loop_again", U[i])>>, <<Ex("true", U[i])>>),
                                Instr("SIL", <<Ex("reset_il", U[i])>>,
                                      <<Ex("false", U[i]), Const(0)>>),
                                Instr("CTG", <<Nm("loop_end", U[i])>>,
                                      <<otwn, Ex("reset_il", U[i])>>) >>])
              IN  \/ r.st.err # "ok" /\ Abort(r.st.err)
                  \/ /\ r.st.err = "ok"
                     /\ num' = n3 + 1 + 3 * Len(U)
                     /\ to_return' = r.st.code
                          \o <<NextLoopTagLine(loop_variables, a, nxt)>> \o exits
                     /\ first_call_to_current_scope_tag' = NoInstr
                     /\ current_scope_tag' = nxt
                     /\ current_conditional_true_var' = NoName
                     /\ variables' = [v \in DOMAIN env |->
                                        IF v \in used THEN Nm("loop_again", v) ELSE env[v]]
                     /\ stack' = <<StmtsFrame(Stmt.body),
                                   [k |-> "while_end",
                                    loop |-> [v \in used |->
                                                [last  |-> Nm("loop_last_value", v),
                                                 again |-> Nm("loop_again", v),
                                                 end   |-> Nm("loop_end", v)]],
                                    prior_scope |-> current_scope_tag,
                                    prior_first |-> first_call_to_current_scope_tag,
                                    prior_gate  |-> current_conditional_true_var]>>
                                 \o Rest
                     /\ UNCHANGED <<return_variables, functions, status>>

\* A variant of ExitWhile that leaves the back edges open: the DUPs of
\* lines 343-345 are missing.  Used as a mutant.
ExitWhileOpenBackEdge ==
  /\ status = "running" /\ stack # << >> /\ Head(stack).k = "while_end"
  /\ LET f == Head(stack)
     IN  /\ variables' = [v \in DOMAIN variables |->
                            IF v \in DOMAIN f.loop THEN f.loop[v].end ELSE variables[v]]
         /\ current_scope_tag' = f.prior_scope
         /\ first_call_to_current_scope_tag' = f.prior_first
         /\ current_conditional_true_var' = f.prior_gate
         /\ stack' = Tail(stack)
  /\ UNCHANGED <<num, to_return, return_variables, functions, status>>

\* After the body: close each back edge, rebind to the exit value, restore.
ExitWhile ==
  /\ status = "running" /\ stack # << >> /\ Head(stack).k = "while_end"
  /\ LET f == Head(stack)
         L == SetToSeq(DOMAIN f.loop)
     IN  /\ to_return' = to_return
              \o [i \in 1..Len(L) |-> Instr("DUP", <<f.loop[L[i]].last>>, <<variables[L[i]]>>)]
         /\ variables' = [v \in DOMAIN variables |->
                            IF v \in DOMAIN f.loop THEN f.loop[v].end ELSE variables[v]]
         /\ current_scope_tag' = f.prior_scope
         /\ first_call_to_current_scope_tag' = f.prior_first
         /\ current_conditional_true_var' = f.prior_gate
         /\ stack' = Tail(stack)
  /\ UNCHANGED <<num, return_variables, functions, status>>
-----------------------------------------------------------------------------
(***************************************************************************)
(* function_def (lines 357-418): up to the visit of the body, and after.   *)
(* The pending returns are copied but not cleared (line 391).              *)
(***************************************************************************)
EnterFunctionDef ==
  /\ status = "running" /\ Pending /\ Stmt.k = "function_def"
  /\ LET fn  == functions[Stmt.f]
         ps  == Stmt.params
         tag == <<"function_tag", "", num + 1>>
         Internal(i) == <<"internal", Stmt.f, num + 1 + i>>
         \* a repeated parameter name is bound to its last copy
         LastIdx(p) == CHOOSE i \in DOMAIN ps :
                         ps[i] = p /\ \A j \in DOMAIN ps : ps[j] = p => j <= i
     IN  /\ to_return' = to_return
              \o FlattenSeq([i \in 1..Len(ps) |->
                   << Instr("LABEL", <<ExportLabel(ArgName(fn, i - 1))>>, << >>),
                      Instr("DUP", <<Internal(i)>>, <<ArgName(fn, i - 1)>>) >>])
         /\ num' = num + 1 + Len(ps)
         /\ variables' = [p \in {ps[i] : i \in DOMAIN ps} |-> Internal(LastIdx(p))]
                           @@ variables
         /\ current_scope_tag' = tag
         /\ first_call_to_current_scope_tag' =
              IF ps # << >> THEN Instr("ETG", <<tag>>, <<Internal(1)>>)
                            ELSE first_call_to_current_scope_tag
         /\ stack' = <<StmtsFrame(Stmt.body),
                       [k |-> "def_end", fn |-> fn, prior_vars |-> variables,
                        prior_rets |-> return_variables,
                        prior_scope |-> current_scope_tag,
                        prior_first |-> first_call_to_current_scope_tag]>>
                     \o Rest
  /\ UNCHANGED <<return_variables, current_conditional_true_var, functions, status>>

\* After the body: fold the returns with MER, in the order set.pop() and
\* set iteration give (any), and dispatch the result to the return slot.
ExitFunctionDef ==
  /\ status = "running" /\ stack # << >> /\ Head(stack).k = "def_end"
  /\ LET f == Head(stack) IN
     \/ return_variables = {} /\ Abort("no_return")
     \/ \E p \in return_variables :
          LET R        == SetToSeq(return_variables \ {p})
              Fold(i)  == Tmp(num + i)
              Prev(i)  == IF i = 1 THEN p ELSE Fold(i - 1)
              result   == IF R = << >> THEN p ELSE Fold(Len(R))
              exported == Tmp(num + Len(R) + 1)
          IN  /\ to_return' = to_return
                   \o [i \in 1..Len(R) |-> Instr("MER", <<Fold(i)>>, <<Prev(i), R[i]>>)]
                   \o << Instr("LABEL", <<ExportLabel(ReturnLocation(f.fn))>>, << >>),
                         Instr("DUP", <<exported>>, <<ReturnLocation(f.fn)>>),
                         Instr("RTD", <<Discard>>, <<result, exported>>) >>
              /\ num' = num + Len(R) + 1
              /\ variables' = f.prior_vars
              /\ return_variables' = f.prior_rets
              /\ current_scope_tag' = f.prior_scope
              /\ first_call_to_current_scope_tag' = f.prior_first
              /\ stack' = Tail(stack)
              /\ UNCHANGED <<current_conditional_true_var, functions, status>>

-----------------------------------------------------------------------------
Next ==
  \/ Assign \/ ExpressionStatement \/ Return \/ Export \/ Extern \/ Asm
  \/ EnterConditional \/ ElseBranch \/ ExitConditional
  \/ EnterWhile \/ ExitWhile
  \/ EnterFunctionDef \/ ExitFunctionDef
  \/ EndOfStatements \/ Finish

\* The pass is one sequential traversal: it keeps running while it can.
Spec == Init /\ [][Next]_vars /\ WF_vars(Next)
-----------------------------------------------------------------------------
(***************************************************************************)
(* Properties.                                                             *)
(***************************************************************************)
NameType  == STRING \X STRING \X Nat
InstrType == [op : STRING, dst : Seq(NameType), src : Seq(NameType)]
Fatal     == {"undefined_variable", "undefined_function", "wrong_arity",
              "long_string", "undefined_export", "no_return"}

TypeOK ==
  /\ \A v \in DOMAIN variables : v \in STRING /\ variables[v] \in NameType
  /\ num \in Nat
  /\ return_variables \subseteq NameType
  /\ current_scope_tag \in NameType
  /\ current_conditional_true_var \in NameType
  /\ first_call_to_current_scope_tag \in InstrType
  /\ to_return \in Seq(InstrType)
  /\ \A i \in DOMAIN stack :
       stack[i].k \in {"stmts", "if_else", "if_end", "while_end", "def_end"}
  /\ status \in {"running", "done", "crash"} \cup Fatal

\* The names the lines of code write, and the names they read.
Written(code) == UNION {ToSet(code[i].dst) : i \in DOMAIN code}

\* Names that are not written by any line of this program by design: the
\* argument and return slots (written by callers, or by the host for an
\* exported function), literal operands and `_`.
InterfaceKinds == {"arg", "arg_export", "retloc", "retloc_export", "const", "_"}

\* Every name the values of S are computed from within one activation,
\* through the lines of code (S included).  Interface names are not
\* followed: a slot carries values between activations (a recursive call
\* writes the argument slot its own entry reads), and `_` is what a return
\* label reads and what every RTD and discarded BRR copy writes.
RECURSIVE Reach(_, _)
Reach(S, code) ==
  LET inner == {n \in S : n[1] \notin InterfaceKinds}
      S2 == S \cup UNION {ToSet(code[j].src) :
                           j \in {i \in DOMAIN code : ToSet(code[i].dst) \cap inner # {}}}
  IN  IF S2 = S THEN S ELSE Reach(S2, code)

(***************************************************************************)
(* The finished program is closed: every name a line reads is written by   *)
(* some line (an instruction, a label or an extern), or is an interface    *)
(* slot, or is the placeholder the while_loop handler binds to a variable  *)
(* that is unbound before the loop (an acknowledged open question).  A     *)
(* name read and never written is an operand that never arrives: the      *)
(* instruction never fires.  Catches a back edge left open, a deferred     *)
(* scope-tag line never flushed, a merge of a name nobody produces.        *)
(***************************************************************************)
ClosedDataflow ==
  status = "done" =>
    \A i \in DOMAIN to_return : \A n \in ToSet(to_return[i].src) :
      \/ n \in Written(to_return)
      \/ n[1] \in InterfaceKinds \cup {"not_defined_before_loop"}

(***************************************************************************)
(* A merge the conditional emits joins two mutually exclusive values: one  *)
(* computed from the true side of this conditional's splits (the true      *)
(* copies and the true gate) and not from its false side, the other the    *)
(* other way round.  Two values from the same side would both arrive at    *)
(* the MER on one path (the spec's "never merge values from contexts that  *)
(* are not exclusive").  This depends on the used-variable analysis        *)
(* covering every write in the branches, on every literal in a branch      *)
(* being gated, and on the false branch starting from the false copies.   *)
(***************************************************************************)
OnlyFrom(n, side, other, code) ==
  LET R == Reach({n}, code) IN R \cap side # {} /\ R \cap other = {}

Exclusive(a, b, f, code) ==
  \/ OnlyFrom(a, f.true_side, f.false_side, code) /\ OnlyFrom(b, f.false_side, f.true_side, code)
  \/ OnlyFrom(b, f.true_side, f.false_side, code) /\ OnlyFrom(a, f.false_side, f.true_side, code)

MergesJoinExclusiveArms ==
  [][ (stack # << >> /\ Head(stack).k = "if_end" /\ status' = "running") =>
        \A i \in Len(to_return) + 1 .. Len(to_return') :
          to_return'[i].op = "MER" =>
            Exclusive(to_return'[i].src[1], to_return'[i].src[2], Head(stack), to_return')
    ]_vars

(***************************************************************************)
(* When a loop body has been generated, the value each threaded variable   *)
(* feeds back to the loop start is computed from this loop's "again"       *)
(* values, whose iteration counter ITG advanced.  A value fed back at the  *)
(* iteration level it entered with would collide at the start MER with the *)
(* token of the iteration that produced it.  Depends on body literals      *)
(* being tagged with the re-entering tag and on every variable the body    *)
(* writes being threaded.  (The back edges of this loop are still open     *)
(* here, so Reach cannot go round the loop.)                               *)
(***************************************************************************)
BackEdgeAdvancesIteration ==
  (status = "running" /\ stack # << >> /\ Head(stack).k = "while_end") =>
    LET f     == Head(stack)
        again == {f.loop[v].again : v \in DOMAIN f.loop}
    IN  \A v \in DOMAIN f.loop : Reach({variables[v]}, to_return) \cap again # {}

(***************************************************************************)
(* The gate a literal is split against (line 545) belongs to the tag      *)
(* context the literal is created in: inside a conditional arm it is that *)
(* arm's gate, and inside a loop body or a function body, which have tag  *)
(* contexts of their own, there is none.  A gate of an enclosing context  *)
(* carries another tag, so the BRR never matches it and the literal never *)
(* arrives.  Relates the gate to the innermost compound being visited;    *)
(* the restores of lines 234 and 350 and the resets of lines 308 and 319  *)
(* keep it, and nothing resets it at a function definition (line 357).   *)
(***************************************************************************)
ContextFrames == {j \in DOMAIN stack : stack[j].k # "stmts"}
GateOfFrame(fr) == CASE fr.k = "if_else" -> fr.gate_true
                     [] fr.k = "if_end"  -> fr.gate_false
                     [] OTHER            -> NoName

GateOfInnermostContext ==
  status = "running" =>
    current_conditional_true_var =
      IF ContextFrames = {} THEN NoName
      ELSE GateOfFrame(stack[CHOOSE j \in ContextFrames :
                                 \A l \in ContextFrames : j <= l])

(***************************************************************************)
(* The values a function definition folds into its return are those of    *)
(* the return statements of its own body: the spec says the handler clears*)
(* the pending returns before the body.  Checked when the body is done.    *)
(***************************************************************************)
ReturnsOfOwnBody ==
  (status = "running" /\ stack # << >> /\ Head(stack).k = "def_end") =>
    return_variables \cap Head(stack).prior_rets = {}

(***************************************************************************)
(* Every name the program defines is defined by one line: an instruction  *)
(* result or a label.  A dataflow program routes a value to the readers of *)
(* its name, so a name with two producers mixes two values.  The names    *)
(* many lines write by design are exempt: `_`, and the argument and       *)
(* return slots every call writes (and an extern declares).  The fresh    *)
(* counter makes the minted names distinct; the slot names and their      *)
(* labels are built from the function's name alone (lines 47-57), though  *)
(* the extraction pass records the enclosing scope of each function.      *)
(***************************************************************************)
CallerWritten == {"_", "arg", "arg_export", "retloc", "retloc_export"}

DefinedOnce ==
  status = "done" =>
    \A i, j \in DOMAIN to_return :
      i # j => \A n \in ToSet(to_return[i].dst) \cap ToSet(to_return[j].dst) :
                 n[1] \in CallerWritten
=============================================================================
