----------------------------- MODULE CompilerMain -----------------------------
(***************************************************************************)
(* main() of compiler.py (lines 618-660): the two passes of CodeGen, then, *)
(* when a backdoor file is given, the insertion of each of its lines at a  *)
(* position random.randint(0, len(lines) - 1) of the assembly lines, then *)
(* the hand-over to the assembler (not in the repository).  The assembly   *)
(* is CodeGen's list of emitted lines.  The code's text also has comment  *)
(* lines (lines 362 and 466), but each comes right before a line of code, *)
(* so inserting before one is inserting before the line after it: the     *)
(* orders of code lines the insertion can produce are the same.  A        *)
(* backdoor line is opaque text: a line of kind "backdoor".               *)
(***************************************************************************)
EXTENDS CodeGen

CONSTANT Backdoors   \* the possible --backdoor arguments: [given, lines],
                     \* lines being the file's lines, stripped

VARIABLES
  backdoor,   \* the --backdoor argument of this run
  assembly,   \* assembly_code_lines
  pending,    \* the backdoor lines not inserted yet
  stage       \* "compile", "splice", "assembled" or "crash"

mvars == <<backdoor, assembly, pending, stage>>

MainInit ==
  /\ Init
  /\ backdoor \in Backdoors
  /\ assembly = << >>
  /\ pending = << >>
  /\ stage = "compile"

\* The passes run; a diagnostic or an exception ends main() there.
Compile == Next /\ UNCHANGED mvars

\* Generation is done: open the backdoor file and split the assembly into
\* lines (lines 640-645), or go straight on without one.
StartSplice ==
  /\ stage = "compile" /\ status = "done"
  /\ assembly' = to_return
  /\ IF backdoor.given
       THEN stage' = "splice" /\ pending' = backdoor.lines
       ELSE stage' = "assembled" /\ pending' = << >>
  /\ UNCHANGED <<vars, backdoor>>

\* assembly_code_lines.insert(idx, c) (line 650).
Splice(lines, idx, c) == InsertAt(lines, idx + 1, c)

\* One line of the backdoor file (lines 646-650): randint raises ValueError
\* on an empty assembly; otherwise the line goes before line idx.
InsertBackdoorLine ==
  /\ stage = "splice" /\ pending # << >>
  /\ \/ /\ assembly = << >>
        /\ stage' = "crash"
        /\ UNCHANGED <<assembly, pending>>
     \/ \E idx \in 0..Len(assembly) - 1 :
          /\ assembly' = Splice(assembly, idx, Head(pending))
          /\ pending' = Tail(pending)
          /\ stage' = stage
  /\ UNCHANGED <<vars, backdoor>>

\* All lines are in: join them and hand the text to the assembler
\* (lines 651-660).
EndSplice ==
  /\ stage = "splice" /\ pending = << >>
  /\ stage' = "assembled"
  /\ UNCHANGED <<vars, backdoor, assembly, pending>>

MainNext == Compile \/ StartSplice \/ InsertBackdoorLine \/ EndSplice

\* main() is one sequential run.
MainSpec == MainInit /\ [][MainNext]_<<vars, mvars>> /\ WF_<<vars, mvars>>(MainNext)
-----------------------------------------------------------------------------
(***************************************************************************)
(* main() ends by handing the assembly over or by a diagnostic, never by   *)
(* an exception of the backdoor splice: the spec inserts each line at a   *)
(* random position of the assembly and lists no error for it.  randint's  *)
(* range (line 648) is empty when the program generates no line.          *)
(***************************************************************************)
SpliceNoCrash == stage # "crash"
=============================================================================
