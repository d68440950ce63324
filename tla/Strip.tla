-------------------------------- MODULE Strip --------------------------------
(***************************************************************************)
(* The object-file name stripper, src/service/src/strip.py.  main() walks   *)
(* the files in the order given; for each it rewrites the name of every    *)
(* external reference, then of every export, and writes the file back in   *)
(* place.  One mapping from original to new name, and one counter minting  *)
(* the new names "0", "1", ..., are shared by all the files, so that an    *)
(* export and the external references to it in other files get the same  *)
(* new name.  Export names that start with the main function's argument-0 *)
(* or return-location export label keep their name: they are the host's  *)
(* entry point.                                                            *)
(*                                                                         *)
(* An object is abstracted to its two name tables; the instruction        *)
(* indexes, flags, header counts and the bytes around the tables are      *)
(* copied unchanged by the code (the asserts of lines 44, 60 and 62 check *)
(* the lengths) and are left out.  A name is a string; the prefix test of *)
(* line 50 is the constant set EntryNames of the names it accepts.        *)
(***************************************************************************)
EXTENDS Naturals, Sequences, FiniteSets, TLC

CONSTANTS
  Inputs,       \* the possible runs: [files |-> the command line, a
                \* sequence of paths, disk |-> path -> object before it]
  EntryNames    \* the names starting with _main_arg_0_export or
                \* _main_return_location_export

VARIABLES
  files,        \* files_to_strip: the paths, in the order given
  input,        \* path -> object, as the files were before the run (a ghost)
  objs,         \* path -> object, as the files are on disk
  mapping,      \* mapping: original name -> new name
  i,            \* the value next(i) returns next
  fidx,         \* the index of the file being stripped
  new_external, \* the external names rewritten so far in this file
  new_export    \* the export names rewritten so far in this file

vars == <<files, input, objs, mapping, i, fidx, new_external, new_export>>

\* An object's two name tables.
Object(ext, exp) == [ext |-> ext, exp |-> exp]

Init ==
  /\ \E run \in Inputs : files = run.files /\ input = run.disk
  /\ objs = input
  /\ mapping = [n \in {} |-> ""]
  /\ i = 0
  /\ fidx = 1
  /\ new_external = << >>
  /\ new_export = << >>

\* The file being stripped, as opened and read at lines 21-22: whatever
\* is on disk at its path now.
Cur == objs[files[fidx]]

\* A variant that mints a new name without recording it, as if the
\* assignments of lines 40 and 56 were missing.  Used as a mutant.
RecordNothing(name) == IF name \in DOMAIN mapping THEN UNCHANGED <<mapping, i>>
                                                  ELSE i' = i + 1 /\ UNCHANGED mapping

\* A variant in which the name written and the name recorded come from two
\* calls of next(i), so a name's first occurrence is written with a number
\* ahead of the one later occurrences get.  Used as a mutant.
RenamedAheadOfRecord(name) ==
  IF name \in DOMAIN mapping THEN mapping[name] ELSE ToString(i + 1)

\* The new name of an original one: the mapped name, or the next number,
\* which is then recorded (lines 36-40 and 52-56).
Renamed(name) == IF name \in DOMAIN mapping THEN mapping[name] ELSE ToString(i)
Record(name) ==
  IF name \in DOMAIN mapping
    THEN UNCHANGED <<mapping, i>>
    ELSE /\ mapping' = (name :> ToString(i)) @@ mapping
         /\ i' = i + 1

\* One iteration of the externals loop (lines 34-42).
StripExternal ==
  /\ fidx <= Len(files)
  /\ Len(new_external) < Len(Cur.ext)
  /\ LET name == Cur.ext[Len(new_external) + 1]
     IN  /\ new_external' = Append(new_external, Renamed(name))
         /\ Record(name)
  /\ UNCHANGED <<files, input, objs, fidx, new_export>>

\* The prefix test of line 50.
IsEntryPoint(name) == name \in EntryNames

\* One iteration of the exports loop (lines 48-58): an entry-point name is
\* kept and not recorded.
StripExport ==
  /\ fidx <= Len(files)
  /\ Len(new_external) = Len(Cur.ext)
  /\ Len(new_export) < Len(Cur.exp)
  /\ LET name == Cur.exp[Len(new_export) + 1]
     IN  \/ /\ IsEntryPoint(name)
            /\ new_export' = Append(new_export, name)
            /\ UNCHANGED <<mapping, i>>
         \/ /\ ~IsEntryPoint(name)
            /\ new_export' = Append(new_export, Renamed(name))
            /\ Record(name)
  /\ UNCHANGED <<files, input, objs, fidx, new_external>>

\* A variant in which the mapping and the counter are created per file
\* (lines 17 and 19 inside the file loop).  Used as a mutant.
WriteFileFreshMapping ==
  /\ fidx <= Len(files)
  /\ Len(new_external) = Len(Cur.ext)
  /\ Len(new_export) = Len(Cur.exp)
  /\ objs' = [objs EXCEPT ![files[fidx]] = Object(new_external, new_export)]
  /\ fidx' = fidx + 1
  /\ new_external' = << >>
  /\ new_export' = << >>
  /\ mapping' = [n \in {} |-> ""]
  /\ i' = 0
  /\ UNCHANGED <<files, input>>

\* The rewritten tables are written back over the file (lines 61-65), and
\* the loop moves to the next file.
WriteFile ==
  /\ fidx <= Len(files)
  /\ Len(new_external) = Len(Cur.ext)
  /\ Len(new_export) = Len(Cur.exp)
  /\ objs' = [objs EXCEPT ![files[fidx]] = Object(new_external, new_export)]
  /\ fidx' = fidx + 1
  /\ new_external' = << >>
  /\ new_export' = << >>
  /\ UNCHANGED <<files, input, mapping, i>>

Next == StripExternal \/ StripExport \/ WriteFile

\* main() runs to the end of the file list without waiting on anything.
Spec == Init /\ [][Next]_vars /\ WF_vars(Next)

Done == fidx > Len(files)
-----------------------------------------------------------------------------
\* The counter has minted exactly one number per recorded name.
TypeOK ==
  /\ fidx \in 1..Len(files) + 1
  /\ i = Cardinality(DOMAIN mapping)
  /\ mapping \in [DOMAIN mapping -> {ToString(k) : k \in 0..i - 1}]
  /\ new_external \in Seq(STRING)
  /\ new_export \in Seq(STRING)
  /\ DOMAIN objs = DOMAIN input

\* Every name slot of every file: <<path, table, index>>.
Slots(os) == UNION {{<<f, t, j>> : j \in DOMAIN os[f][t]} : f \in DOMAIN os, t \in {"ext", "exp"}}
NameAt(os, s) == os[s[1]][s[2]][s[3]]

(***************************************************************************)
(* The linker matches externals to exports by name, so stripping must      *)
(* preserve which slots carry the same name, in all the files together:    *)
(* two slots are named alike after the run exactly when they were named    *)
(* alike before it (the spec: "consistently per distinct original name").  *)
(* Relies on the mapping being shared across files and on the entry-point  *)
(* exemption applying wherever the name occurs.                            *)
(***************************************************************************)
LinkageConsistent ==
  Done =>
    \A s1, s2 \in Slots(input) :
      (NameAt(input, s1) = NameAt(input, s2)) <=> (NameAt(objs, s1) = NameAt(objs, s2))

-----------------------------------------------------------------------------
(***************************************************************************)
(* main() implements the stripper contract of StripContract.  The contract *)
(* strips a whole file in one step; main() takes a step per name and       *)
(* writes the file at the end.  The mapping: the files on disk are objs,   *)
(* and the contract's renaming is main()'s mapping restricted to the names *)
(* of the files already written, so the names recorded while a file is    *)
(* being read become visible at the write of lines 64-65, together with   *)
(* the file.                                                               *)
(***************************************************************************)
Written == UNION {{input[files[f]].ext[j] : j \in DOMAIN input[files[f]].ext}
                    \cup {input[files[f]].exp[j] : j \in DOMAIN input[files[f]].exp} :
                      f \in 1..fidx - 1}

\* The contract's files are the positions of the command line.
inputBar == [f \in DOMAIN files |-> input[files[f]]]
objsBar  == [f \in DOMAIN files |-> objs[files[f]]]

renamingBar == [n \in DOMAIN mapping \cap Written |-> mapping[n]]

Contract == INSTANCE StripContract
              WITH input <- inputBar, objs <- objsBar, renaming <- renamingBar

(***************************************************************************)
(* Every behaviour of main() is one of the contract: the names of each    *)
(* file written are replaced consistently with all earlier files, entry   *)
(* names are kept in both tables, new names are fresh small numbers, and  *)
(* every file is eventually written (under the fairness of Spec).         *)
(***************************************************************************)
ImplementsContract == Contract!Spec
=============================================================================
