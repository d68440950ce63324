------------------------------ MODULE MC_CodeGen ------------------------------
(***************************************************************************)
(* The programs the code generator is checked on.  Every program defines a *)
(* function f(a) whose body is an optional first write of x, then one      *)
(* conditional or loop whose branches or body hold at most one statement   *)
(* (itself possibly a conditional or loop of one statement), then return x.*)
(* The statements read and write x, y and the parameter a, call f          *)
(* recursively, and return from inside branches and loops.  A few further *)
(* programs exercise the remaining statement kinds and every diagnostic.  *)
(***************************************************************************)
EXTENDS CodeGen

X == VarName("x")
Y == VarName("y")
A == VarName("a")
N == Number

\* One statement: a literal write, a computed write, a recursive call, a return.
Simple == { Assignment("x", N),
            Assignment("y", BinOp("add", X, A)),
            Assignment("x", FunctionCall("f", <<A>>)),
            ReturnStatement(X) }

\* A conditional or loop around one simple statement.
Inner == {Conditional(A, <<s>>, << >>) : s \in Simple}
         \cup {WhileLoop(BinOp("less_than", X, N), <<s>>) : s \in Simple}

Block == {<< >>} \cup {<<s>> : s \in Simple \cup Inner}

Compound == {Conditional(c, t, e) : c \in {A, X}, t \in Block, e \in Block}
            \cup {WhileLoop(c, b) : c \in {A, BinOp("less_than", X, N)}, b \in Block}

Bodies == {pre \o <<c, ReturnStatement(X)>> :
             pre \in {<< >>, <<Assignment("x", A)>>}, c \in Compound}

\* The other statement kinds and the diagnostics.
Others ==
  { << ExternStatement("g", <<"p">>),
       FunctionDef("f", <<"a">>,
         << Assignment("x", FunctionCall("g", <<A>>)),
            OutsLiteral(10, 1), AsmStatement,
            Assignment("y", BinOp("add", String(8, 1), Hexnumber)),
            FunctionCall("OUTD", <<X>>),
            ReturnStatement(X) >>),
       ExportStatement("f") >>,
    \* top-level code, outside any function
    << Assignment("x", N),
       Conditional(X, <<Assignment("y", FunctionCall("RANDOM", <<X>>))>>,
                      <<Assignment("y", N)>>),
       FunctionCall("OUTD", <<Y>>) >>,
    << FunctionDef("f", <<"a">>, <<ReturnStatement(FunctionCall("f", <<A, A>>))>>) >>,
    << FunctionDef("f", <<"a">>, <<ReturnStatement(FunctionCall("h", <<A>>))>>) >>,
    << ExportStatement("h") >>,
    << Assignment("x", String(9, 1)) >>,
    << FunctionDef("f", <<"a">>, <<Assignment("x", A)>>) >>,
    << FunctionDef("f", <<"a">>, <<WhileLoop(FunctionCall("h", <<A>>), << >>),
                                   ReturnStatement(A)>>) >>,
    << FunctionCall("OUTD", <<Y>>) >>,
    \* a conditional whose condition fails (wrong arity)
    << FunctionDef("f", <<"a">>, <<Conditional(FunctionCall("f", << >>), << >>, << >>),
                                   ReturnStatement(A)>>) >>,
    \* a loop that reads no variable bound before it
    << FunctionDef("f", <<"a">>, <<WhileLoop(N, <<FunctionCall("OUTD", <<N>>)>>),
                                   ReturnStatement(A)>>) >>,
    \* a call without arguments trips the assert of the call handler
    << FunctionDef("g", << >>, <<ReturnStatement(N)>>),
       FunctionCall("g", << >>) >> }

\* Arms of two simple statements, and loop bodies of two statements that may
\* themselves be a conditional or loop: several variables split, threaded
\* and merged by one compound, and two compounds in one loop body.
Pairs == {<<s1, s2>> : s1, s2 \in Simple}

Wide == {Conditional(A, t, e) : t \in Pairs, e \in Pairs \cup {<< >>}}
        \cup {WhileLoop(BinOp("less_than", X, N), <<s1, s2>>) : s1, s2 \in Simple \cup Inner}

\* Several functions: g calls f before f is defined (the extraction pass
\* makes that legal), over every body of f; and a function nested in f
\* under another name, called from f inside a conditional arm.
MultiFunction ==
  {<< FunctionDef("g", <<"a">>, <<Assignment("x", FunctionCall("f", <<A>>)),
                                  ReturnStatement(X)>>),
      FunctionDef("f", <<"a">>, b),
      ExportStatement("g") >> : b \in Bodies}
  \cup {<< FunctionDef("f", <<"a">>,
            << FunctionDef("k", <<"b">>, <<ReturnStatement(VarName("b"))>>),
               Conditional(A, <<Assignment("x", FunctionCall("k", <<A>>))>>,
                              <<Assignment("x", N)>>),
               ReturnStatement(X) >>) >>}

MCPrograms == {<<FunctionDef("f", <<"a">>, b)>> : b \in Bodies}
              \cup MultiFunction
              \cup {<<FunctionDef("f", <<"a">>, <<Assignment("x", A), w, ReturnStatement(X)>>)>> :
                     w \in Wide}
              \cup Others

(***************************************************************************)
(* Programs for the runs that look for a disagreement with the spec.       *)
(***************************************************************************)

\* A function defined inside another after the outer one's return.
NestedDefPrograms ==
  { << FunctionDef("f", <<"a">>,
         << ReturnStatement(A),
            FunctionDef("g", <<"b">>, <<ReturnStatement(VarName("b"))>>) >>) >> }

\* Two functions named h in different scopes: one at top level, one
\* nested in f and called there.
ScopedNamePrograms ==
  { << FunctionDef("h", <<"b">>, <<ReturnStatement(VarName("b"))>>),
       FunctionDef("f", <<"a">>,
         << FunctionDef("h", <<"b">>, <<ReturnStatement(N)>>),
            ReturnStatement(FunctionCall("h", <<A>>)) >>) >> }

\* A function without parameters whose body has a literal, exported.
ZeroParamPrograms ==
  { << FunctionDef("g", << >>, <<ReturnStatement(N)>>), ExportStatement("g") >> }

\* The result of a builtin that returns nothing, used as an operand.
VoidValuePrograms ==
  { << Assignment("x", FunctionCall("OUTD", <<N>>)),
       Assignment("y", BinOp("add", X, N)) >> }

\* A function defined inside a conditional arm, whose body has a literal.
DefInBranchPrograms ==
  { << Assignment("x", N),
       Conditional(X, <<FunctionDef("g", <<"b">>, <<ReturnStatement(N)>>)>>, << >>) >> }

=============================================================================
