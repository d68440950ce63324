----------------------------- MODULE MC_StripRerun -----------------------------
(***************************************************************************)
(* The objects of MC_Strip, with the run allowed to die once and be run    *)
(* again.                                                                  *)
(***************************************************************************)
EXTENDS StripRerun, MC_Strip
=============================================================================
