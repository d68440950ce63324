---------------------------- MODULE MC_CompilerMain ----------------------------
(***************************************************************************)
(* main() on the empty program, with no backdoor, an empty backdoor file, *)
(* and files of one and two lines.                                        *)
(***************************************************************************)
EXTENDS CompilerMain, MC_CodeGen

BD(k) == Instr("backdoor", << >>, <<<<"backdoor", "", k>>>>)

MCBackdoors == {[given |-> FALSE, lines |-> << >>]}
               \cup {[given |-> TRUE, lines |-> ls] : ls \in {<< >>, <<BD(1)>>, <<BD(1), BD(2)>>}}

\* The empty program: no line of assembly at all.
EmptyPrograms == { << >> }

=============================================================================
