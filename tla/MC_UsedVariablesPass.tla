------------------------- MODULE MC_UsedVariablesPass -------------------------
(***************************************************************************)
(* The three programs of test_used_variable_pass.py, and every program of  *)
(* one or two statements built from a few expressions and the statement    *)
(* kinds the pass has a rule for, nested one level.                        *)
(***************************************************************************)
EXTENDS UsedVariablesPass

V(n) == VarName(n)

\* x = 10 + y;
Test1 == << Assignment("x", BinOp("add", Number, V("y"))) >>

Test2 ==
  << Conditional(BinOp("less_than", V("x"), V("y")),
       << Assignment("z", BinOp("sub", BinOp("add", BinOp("add", V("x"), V("foo")),
                                                V("bar")), V("baz"))) >>,
       << Assignment("u", BinOp("mul", V("adam"), V("baz"))),
          Conditional(BinOp("equals", V("u"), Number),
            << FunctionCall("testing", <<V("x"), V("y"), BinOp("bit_xor", V("another"), V("foobar"))>>),
               FunctionDef("youtube", <<"x", "adamd", "asdf", "unused">>,
                 << BinOp("add", V("adamd"), V("asdf")),
                    WhileLoop(V("x"),
                      << Assignment("turn", BinOp("sub", BinOp("add", V("it"), V("up")), Number)) >>),
                    ReturnStatement(BinOp("sub", V("to_return"), Number)) >>) >>,
            << >>) >>) >>

Test3 ==
  << FunctionDef("strlen", <<"s">>,
       << Assignment("i", Number),
          Assignment("done", Number),
          WhileLoop(BinOp("not_equals", V("done"), Number),
            << Assignment("shifted", BinOp("bit_shift_right", V("s"), V("i"))),
               Assignment("char", BinOp("bit_and", V("shifted"), Hexnumber)),
               Conditional(BinOp("equals", V("char"), Number),
                 << Assignment("done", Number) >>,
                 << Assignment("i", BinOp("add", V("i"), Number)) >>) >>),
          ReturnStatement(V("i")) >>) >>

Exprs == {V("a"), String(3, 1), BinOp("add", V("a"), V("b")),
          FunctionCall("g", <<V("b"), Number>>)}

Leaf == {Assignment("x", e) : e \in Exprs} \cup {ReturnStatement(V("b")), AsmStatement,
         OutsLiteral(3, 1), ExternStatement("g", <<"p">>)}

Nested == {Conditional(V("c"), <<s>>, << >>) : s \in Leaf}
          \cup {Conditional(V("c"), << >>, <<s>>) : s \in Leaf}
          \cup {WhileLoop(V("c"), <<s>>) : s \in Leaf}
          \cup {FunctionDef("h", <<"p">>, <<s>>) : s \in Leaf}

MCPrograms == {Test1, Test2, Test3} \cup {<<s>> : s \in Leaf \cup Nested}
              \cup {<<Assignment("y", V("a")), s>> : s \in Leaf}
=============================================================================
