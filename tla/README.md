# TLA+ models of the tagged-dataflow compiler

This directory holds TLA+ models of the compiler in `src/service/src/compiler.py` and of the object-file stripper in `src/service/src/strip.py`. The models are checked with TLC.

## The system

The compiler lowers a parsed program into assembly for a tagged-dataflow machine. The machine has no jumps. Control flow is expressed by splitting values against a condition (`BRR`) and merging them back (`MER`). Values are kept apart by tags, one per branch context, loop iteration or call activation:

- `NTG` mints a new tag;
- `CTG` and `ETG` move a value into a tag context or take its tag;
- `ITG` and `SIL` advance or reset the iteration counter;
- `RTD` dispatches a return value to the caller's activation.

The compiler has three passes, and `main()` runs them in order:

| Part | Code | What it does |
|---|---|---|
| `ExtractFunctionsPass` | lines 90-110 | Pre-order walk collecting function and extern signatures. `main()` appends the builtins (`SPECIAL_FUNCTIONS`), and the table keeps the last entry of each name. |
| `UsedVariablesPass` | lines 112-163 | A bottom-up fold that lists the variables a sub-tree reads, and optionally the ones it assigns. The conditional and loop handlers call it. |
| `GenerateAssemblyPass` | lines 165-615 | A recursive visitor. Its state is the environment (`variables`), the name counter, pending returns, the current scope tag, a deferred tag-establishing line, the branch gate and the emitted text. |

The other parts of the repository:

- **The stripper** rewrites the names in the external and export tables of several object files. One mapping and one counter are shared by all the files, so cross-file links survive. Names starting with main's argument-0 or return-location export label are kept.
- **`main()` of the compiler** (lines 618-660) runs the two passes. If a backdoor file is given, each of its lines is inserted into the assembly lines at `random.randint(0, len - 1)`. The text then goes to the assembler, which is not in the repository.
- **Not modelled:** the assembler, the CLIs, and the two service checkers under `src/remote-interaction` and `src/local-tester`. The checkers send fixed shell commands to the deployed OS image and match its answers by substring. That OS is not in the repository, and the spec puts the runtime image out of scope, so there is nothing to model the checkers against.

### How the parts interact

- The extraction pass fixes the function table before generation starts. This is why a call may precede its definition, and why a builtin shadows a user function of the same name.
- Generation calls the used-variable analysis at every conditional and loop. It uses the result to decide which variables get split, merged or threaded through the loop. A variable the analysis misses escapes the branch or loop machinery.
- The literal handler reads three pieces of state that the compound handlers save, change and restore around the sub-visits they make: the scope tag, the deferred tag line and the gate. Most of the hard behaviour lives there.

## Modules

| Module | Models |
|---|---|
| `SyntaxTree` | The node shapes the handlers read (the grammar is not in the repository). Literals carry only their length and the UTF-8 width of their characters. |
| `UsedVariables` | `UsedVariablesPass` as the recursive operator `Used(n, count_lhs)`. |
| `UsedVariablesPass` | The unit test's use of the pass: one `Transform` step on a program. It is compared with `Reference`, an independent whole-tree definition. |
| `CodeGen` | `ExtractFunctionsPass` and `GenerateAssemblyPass`. |
| `Strip` | `strip.py` `main()`, and the refinement mapping to `StripContract`. |
| `StripContract` | The stripper contract of spec.md ("replace every external/export name with a small-integer string, consistently per distinct original name, except ... the host entry point"), as an abstract specification that strips one whole file per step. |
| `CompilerMain` | The compiler's `main()`: `CodeGen`'s passes (`Compile`), then the splice of the backdoor lines, one `InsertBackdoorLine` step per line with the index drawn from `0..len-1` (and the `ValueError` of an empty range), then the hand-over. The assembly is `CodeGen`'s list of emitted lines; a backdoor line is an opaque line of kind `backdoor`. Comment lines are left out: each comes right before a code line, so the orders of code lines an insertion can produce are the same. |
| `StripRerun` | `Strip` composed with the operator's rerun: the run dies before writing file k (nothing in `main()` catches an error), and the same command is run again over the files as they now are on disk. |
| `MC_*` | The program sets and object lists TLC checks. |

### How `CodeGen` corresponds to the code

The Python visitor recurses. The model makes the recursion explicit: `stack` holds one frame per statement list being visited (`stmts`). For a conditional, loop or function definition whose body is being visited, it also holds a frame with the locals the handler still needs afterwards (`if_else`, `if_end`, `while_end`, `def_end`).

Each stretch of a handler between two statement-list visits is one action:

- `EnterConditional`, `ElseBranch` and `ExitConditional`: lines 182-215, 217-231 and 233-255.
- `EnterWhile` and `ExitWhile`: lines 257-338 and 340-350.
- `EnterFunctionDef` and `ExitFunctionDef`: lines 357-394 and 396-418.

`Assign`, `ExpressionStatement`, `Return`, `Export`, `Extern` and `Asm` are the simple handlers. Expressions contain no statements, so each action evaluates its expression atomically with the recursive `Eval`. `Eval` threads the counter, the emitted lines, the deferred tag line and the first error.

Abstractions:

- **Emitted lines** are records `[op, dst, src]`: the names an instruction writes and reads.
- **Names** are triples `<<kind, label, counter>>`. The counter is the `_new_temp_variable` number the code embeds, so two names are equal exactly when the code's strings are. Temporaries are numbered as in the code.
- **Diagnostics** (`l.error` followed by `sys.exit`) set `status` to the error and stop the model. Uncaught exceptions set it to `"crash"`.

Set iteration order varies between runs, so every place where it matters is a nondeterministic choice:

- `a_used_variable` in `EnterWhile`, which is any variable bound before the loop;
- the element `ExitFunctionDef` pops to start its return fold.

Where the order only changes numbering, the model fixes one order with `SetToSeq`.

## Runs

| Run | Config | Expect | What it shows |
|---|---|---|---|
| `codegen_core` | `MC_CodeGen.cfg` | pass, about 40,000 states | See below. |
| `nested_def_returns` | `MC_NestedDef.cfg` | violation | A nested function folds the outer function's return (`return_variables` not cleared, line 391). |
| `scoped_slot_names` | `MC_ScopedName.cfg` | violation | A top-level `h` and an `h` nested in `f` both define the labels of the slots `_h_arg_0` and `_h_return_location`. Slot names are built from the function's name alone (lines 47-57); the scope the extraction pass records (line 97) is never used. |
| `strip_linkage` | `MC_Strip.cfg` | pass, 166 states | Renaming preserves which name slots match across files, keeps main's exports, and implements `StripContract` (liveness included). |
| `strip_extern_main` | `MC_StripCallback.cfg` | violation | `ImplementsContract` fails on an input where another object declares `main` extern. The externals loop has no exemption for main's entry-point names and renames them, so that object no longer links to main, which keeps its names. |
| `def_in_branch_gate` | `MC_DefInBranch.cfg` | violation | A function defined inside a conditional arm generates its body under the enclosing arm's gate (line 357 never resets it). |
| `zero_param_def` | `MC_ZeroParam.cfg` | violation | A function without parameters CTGs its literals with a function tag that no line writes (line 385). |
| `void_builtin_value` | `MC_VoidValue.cfg` | violation | `x = OUTD(1)` emits `x_tmp_N = DUP None` (line 516) and binds `x` to `x_tmp_N` (line 517). The DUP's operand `None` is written by no line, so `x` never gets a value, and `y = x + 1` waits on it. |
| `strip_rerun` | `MC_StripRerun.cfg` | violation | After a run dies part-way, rerunning the same command renumbers the already-stripped names from 0, and the files no longer link. |
| `empty_backdoor_crash` | `MC_EmptyBackdoor.cfg` | violation | The empty program with a non-empty backdoor file makes `randint(0, -1)` raise `ValueError` (line 648), an error the spec does not list (`SpliceNoCrash`). |
| `strip_alias` | `MC_StripAlias.cfg` | violation | A path named twice is read again after its rewrite; its numbered names are not in the mapping and get new numbers, so the other file's references to it break. |
| `used_variables_reference` | `MC_UsedVariablesPass.cfg` | pass | The fold equals the reference definition on the unit test's three programs and 48 generated ones. |

### Properties of `codegen_core`

- **`ClosedDataflow`**: every operand a finished program reads is written by some line, or is an argument or return slot, or is a literal. An operand nobody writes never fires. The property catches a back edge left open, a deferred tag line never flushed, or a merge of a value nobody produces.
- **`MergesJoinExclusiveArms`**: each `MER` a conditional emits joins one value computed only from this conditional's true side with one computed only from its false side. These values are followed through the lines inside one activation. A merge of two values that can both arrive is the spec's "never merge values from contexts that are not exclusive". The property depends on three things:
  - the used-variable analysis covering every write;
  - every literal in a branch being gated;
  - the false branch starting from the false copies.
- **`GateOfInnermostContext`**: the gate a literal is split against is the gate of the conditional arm being visited, if that arm is the innermost compound. Inside a loop body or a function body it is `None`, because those have tag contexts of their own. The property relates `current_conditional_true_var` to the frame stack. It is kept by:
  - the resets at loop entry (lines 308, 319);
  - the switch to the false gate (line 222);
  - the restores after a conditional and a loop (lines 234, 350).

  Nothing resets the gate at a function definition. The `def_in_branch_gate` run shows the result: the literals of a function defined in a branch are split against a gate of another tag context, so they never fire.
- **`DefinedOnce`**: every name the finished program defines has one producer, an instruction result or a label line. The names many lines write by design are exempt: `_`, and the argument and return slots, which every call writes. In a dataflow program a value goes to the readers of its name, so a name with two producers mixes two values. The fresh counter keeps minted names distinct; the slot labels depend on the function name only. The `scoped_slot_names` run shows where that breaks.
- **`BackEdgeAdvancesIteration`**: when a loop body has been generated, the value each threaded variable feeds back is computed from this loop's `ITG`-advanced "again" values.

### Properties of `strip_linkage`

- **`LinkageConsistent`**: after the run, two name slots in any of the files are named alike exactly when they were named alike before it.
- **`ImplementsContract`**: `Spec => Contract!Spec`, where `Contract` is `INSTANCE StripContract` under this refinement mapping:
  - the contract's `objs` are the files on disk;
  - its `renaming` (`renamingBar`) is `main()`'s `mapping` restricted to the names of the files already written.

  `main()`'s per-name steps are therefore stuttering steps of the contract, and each write of lines 64-65 is one `StripFile` step. The check shows several things:
  - every name of a file is renamed through one renaming that only grows;
  - new names are fresh, distinct numerals;
  - entry names are kept in both tables;
  - every file is eventually written, which is the contract's `WF`.

  The `strip_linkage` inputs have no object that declares `main` extern. On such an input the code breaks the contract: the externals loop renames main's entry-point names, which the contract keeps in every table. The `strip_extern_main` run checks `ImplementsContract` on that input and finds it violated.

### Bounds

- **`MC_CodeGen`** defines a recursive function `f(a)`. Its body is:
  1. an optional first write of `x`;
  2. one conditional (condition `a` or `x`) or one loop (condition `a` or `x < N`), whose arms or body hold at most one statement, itself possibly a conditional or loop of one statement;
  3. `return x`.

  The statements are `x = N`, `y = x + a`, `x = f(a)` and `return x`. This is two nesting levels of every compound, with returns inside branches and loops and recursive calls under gates. Wider bodies add two kinds of program:
  - conditionals whose arms hold two simple statements each, so that `x` and `y` are split and merged together;
  - loops whose body is two statements, each possibly a conditional or loop, so that two compounds follow each other inside one iteration. A dozen further programs cover the other statement kinds and every diagnostic. Deeper nesting repeats the same save/restore steps.
- **Several functions** (`MultiFunction`) cover two further cases:
  - `g` calls `f` before `f` is defined, over every body of `f`, and `g` is exported;
  - a function `k` nested in `f` is called from a conditional arm of `f`.

  Together these check the call convention and `DefinedOnce` across distinct functions, not only on recursion.
- **`MC_Strip`** checks every pair from four objects, plus one three-file list:
  - a main program;
  - two libraries that call each other's functions;
  - an object whose names are already numbers.
- **`MC_Strip`** models files by path (`files` is the command line, `objs` the disk), as `main()` opens each path when its turn comes. `MC_StripAlias` names `a.o` twice.
- **`MC_CompilerMain`** combines the empty program with no backdoor, an empty backdoor file, one line and two lines.
- **`MC_StripRerun`** uses the same command lines and allows one death and rerun (`reran`). One is enough: the first rerun already renumbers.
- **The violation runs** each use the smallest program that shows their disagreement.
- **Deadlock checking** is off in every cfg, because every program modelled exits when done.

### Fairness

`Spec` carries `WF_vars(Next)` in both `CodeGen` and `Strip`. Each program is a single sequential traversal with no waiting, so weak fairness of its next step is justified.

The stripper's liveness is checked as part of `ImplementsContract`: `StripContract!Spec` has `WF` on `StripFile`, so every file is eventually written. `StripRerun` keeps fairness on `Strip`'s steps only. The rerun is the environment's choice, not something the program is obliged to do.

For the compiler, no liveness property is checked. Every action consumes a statement or a frame, so termination follows from the model's shape. A property that only restates this, with no code bug able to break it, would show nothing.

## Not modelled, and next steps

- **elif clauses** are parsed but never compiled (line 230). `UsedVariablesPass` has a rule for `elif_clauses` but none for `elif_clause`. The grammar is not in the repository, so the shape of an elif node, and whether the analysis even handles one, cannot be read from the code. `SyntaxTree` therefore has no elif node.
- **Activation isolation.** The spec asks that overlapping activations of a recursive function each resolve their own return label. Checking this needs the machine's semantics: how `NTG`, `CTG`, `ETG`, `RTD` and matching by tag behave at run time. These semantics are neither in the repository nor in the spec, which only lists the opcodes. `UserCall` models the emitted call convention line for line.
- **Three one-step bugs are described here but not checked.** Compiling one small program shows each of them, so no run is spent on them. No test in the repository covers them; the only test exercises `UsedVariablesPass`.
  - A loop that reads no variable bound before it (`while (1) { OUTD(1); }`) leaves `a_used_variable` at `None`, and `loop_variables[None]` raises `KeyError` (line 302). `EnterWhile` models this as its `crash` outcome.
  - `a / 2` compiles to the opcode `NOT_IMPLEMENTED` (`OP_TO_ASM`, line 25), while the spec rejects division at compile time.
  - A string of five two-byte characters passes the length check of line 572, which counts characters, and becomes a 10-byte literal, while the spec rejects strings longer than 8 bytes.
- **The backdoor positions.** The spec promises each backdoor line a uniformly random position. The code draws `randint(0, len - 1)` and inserts before that line, so it never places a line after the last one. An invariant can state neither a distribution nor that a position is reachable, so this is recorded as a hazard and not checked. An earlier invariant that only restated the `randint` bound was dropped.
- **The assembler** that `main()` calls is not in the repository. Where a label binds when a backdoor line lands between a label line and its instruction is therefore unknown, and is listed as a hazard without a property.
- **Byte layouts, comments and the asm text** are formatting and I/O, and are not modelled. The CLIs only parse arguments.
