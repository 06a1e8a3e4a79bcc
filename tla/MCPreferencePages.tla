-------------------------- MODULE MCPreferencePages --------------------------
(***************************************************************************)
(* The small instance of PreferencePages for TLC.                          *)
(***************************************************************************)
EXTENDS PreferencePages

(* A bound on what the run explores: the configuration is stored while nothing *)
(* is pending, and at the exit; an edit starts from a stored configuration.     *)
StoredBeforeEdits ==
    /\ disk' # disk => running' = "off" \/ cur = None \/ cur = ValuesOf(config)
    /\ cur' # cur => disk = config \/ None \in {cur, cur'}
=============================================================================
