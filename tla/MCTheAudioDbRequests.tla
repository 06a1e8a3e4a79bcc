------------------------- MODULE MCTheAudioDbRequests -------------------------
(***************************************************************************)
(* The small instance of TheAudioDbRequests for TLC: its constants are     *)
(* model values, given in the .cfg.                                        *)
(***************************************************************************)
EXTENDS TheAudioDbRequests
=============================================================================
