------------------------------ MODULE StripRerun ------------------------------
(***************************************************************************)
(* The stripper run twice over the same command line, the first run dying  *)
(* part-way.  main() handles no error: an exception at the open of file k  *)
(* (line 21: a missing or unwritable file), or at any later step before   *)
(* the write of lines 64-65, ends the process with files 1..k-1 already    *)
(* rewritten in place and file k untouched.  Running the same command     *)
(* again starts with an empty mapping and the counter at 0 (lines 17-19)  *)
(* over the files as they are now on disk.                                 *)
(***************************************************************************)
EXTENDS Strip

VARIABLE reran   \* whether the run has died and been started again

rvars == <<vars, reran>>

RerunInit == Init /\ reran = FALSE

\* The run dies while file fidx is being stripped, before its write, and
\* the same command is run again from the first file.
DieAndRerun ==
  /\ ~reran
  /\ fidx <= Len(files)
  /\ reran' = TRUE
  /\ mapping' = [n \in {} |-> ""]
  /\ i' = 0
  /\ fidx' = 1
  /\ new_external' = << >>
  /\ new_export' = << >>
  /\ UNCHANGED <<files, input, objs>>

RerunNext == (Next /\ UNCHANGED reran) \/ DieAndRerun

RerunSpec == RerunInit /\ [][RerunNext]_rvars /\ WF_rvars(Next)
=============================================================================
