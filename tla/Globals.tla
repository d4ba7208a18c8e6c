------------------------------- MODULE Globals -------------------------------
(***************************************************************************)
(* What dbginfo.c and run.c of the recorder share: the number of units     *)
(* that were processed (extern unit_count).                                *)
(***************************************************************************)
VARIABLE unit_count     \* units processed, with or without statements
=============================================================================
