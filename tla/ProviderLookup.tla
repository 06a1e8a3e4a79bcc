---------------------------- MODULE ProviderLookup ----------------------------
(***************************************************************************)
(* What the artwork worker may rely on when it asks a provider             *)
(* (ThreadMain's call of ProcessFetchRequest): one lookup at a time, one   *)
(* answer per lookup, an answer to every lookup, and no aborted lookup     *)
(* unless the program quits.                                               *)
(***************************************************************************)
CONSTANT LookupOutcome      \* what a lookup can answer

VARIABLES
    asking,    \* is a provider being asked?
    outcome,   \* what the last lookup answered
    aborting   \* is the program quitting?

lookup == <<asking, outcome, aborting>>

Init == asking = FALSE /\ outcome \in LookupOutcome /\ aborting = FALSE

Ask == ~asking /\ asking' = TRUE /\ UNCHANGED <<outcome, aborting>>

Answer(o) ==
    /\ asking /\ asking' = FALSE /\ outcome' = o
    /\ o = "aborted" => aborting
    /\ UNCHANGED aborting

Abort == aborting' = TRUE /\ UNCHANGED <<asking, outcome>>

Next == Ask \/ (\E o \in LookupOutcome : Answer(o)) \/ Abort

Spec == Init /\ [][Next]_lookup /\ WF_lookup(\E o \in LookupOutcome : Answer(o))
=============================================================================
