---------------------------- MODULE StripContract ----------------------------
(***************************************************************************)
(* What the stripper promises (spec.md, "Stripper contract"): every        *)
(* external and export name is replaced by a small-integer string,         *)
(* consistently per distinct original name, except the names of the host  *)
(* entry point, which are left untouched.  The files are stripped in the   *)
(* order given, each in one step, and the renaming used so far only ever   *)
(* grows: a name keeps the new name it got in an earlier file, and a name  *)
(* met for the first time gets a number no other name has.  The numbers   *)
(* chosen are free.                                                        *)
(***************************************************************************)
EXTENDS Naturals, Sequences, FiniteSets, TLC

CONSTANT EntryNames   \* the names of the host entry point

VARIABLES
  input,     \* the objects as given
  objs,      \* the objects as they are on disk
  renaming,  \* original name -> new name, for the files stripped so far
  fidx       \* the next file to strip

avars == <<input, objs, renaming, fidx>>

NamesOf(o) == {o.ext[j] : j \in DOMAIN o.ext} \cup {o.exp[j] : j \in DOMAIN o.exp}
AllNames   == UNION {NamesOf(input[f]) : f \in DOMAIN input}

\* Small-integer strings: at most one per distinct name.
Numerals == {ToString(k) : k \in 0..Cardinality(AllNames)}

\* An object with every name the renaming knows replaced.
Apply(r, o) ==
  LET Sub(n) == IF n \in DOMAIN r THEN r[n] ELSE n
  IN  [ext |-> [j \in DOMAIN o.ext |-> Sub(o.ext[j])],
       exp |-> [j \in DOMAIN o.exp |-> Sub(o.exp[j])]]

Init ==
  /\ objs = input
  /\ renaming = [n \in {} |-> ""]
  /\ fidx = 1

\* Strip the next file: extend the renaming to its names that are not the
\* entry point's, with fresh and distinct numerals, and rewrite the file.
StripFile ==
  /\ fidx <= Len(input)
  /\ LET o     == input[fidx]
         fresh == (NamesOf(o) \ EntryNames) \ DOMAIN renaming
         old   == {renaming[n] : n \in DOMAIN renaming}
     IN  \E new \in [fresh -> Numerals \ old] :
           /\ \A n, m \in fresh : new[n] = new[m] => n = m
           /\ renaming' = new @@ renaming
           /\ objs' = [objs EXCEPT ![fidx] = Apply(renaming', o)]
  /\ fidx' = fidx + 1
  /\ UNCHANGED input

\* Every file is eventually stripped.
Spec == Init /\ [][StripFile]_avars /\ WF_avars(StripFile)
=============================================================================
