------------------------ MODULE MCProviderPreferences ------------------------
(***************************************************************************)
(* Small instances of ProviderPreferences for TLC.                         *)
(***************************************************************************)
EXTENDS ProviderPreferences, Integers, TLC

(* Good keys are interchangeable, and so are client ids. *)
Interchangeable == Permutations(Eligible) \cup Permutations(Client)

(* Between two calls of Apply the user makes three edits or resets all. *)
Edited ==
    {f \in DOMAIN cur : cur[f] # saved[f]} \cup {k \in {asked} : k # None}
FewEdits == cur = Default \/ Cardinality(Edited) <= 3

(* Nothing relates the caches of two providers. *)
OneIsCached == Cardinality({x \in Provider : cached[x] # None}) <= 1
=============================================================================
