------------------------------ MODULE GlobalAbort ------------------------------
(***************************************************************************)
(* The flag of qwr::GlobalAbortCallback: on_quit (dllmain.cpp) raises it,  *)
(* and every lookup of a provider polls it.                                *)
(***************************************************************************)
VARIABLE aborting

Abort == ~aborting /\ aborting' = TRUE
=============================================================================
