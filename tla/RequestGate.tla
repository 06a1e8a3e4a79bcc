------------------------------ MODULE RequestGate ------------------------------
(***************************************************************************)
(* What the request layer of TheAudioDB promises to the service: one       *)
(* request at a time, none with a barred key, and no key is barred while a *)
(* request is under way.  How requests wait, are spaced and repeated is    *)
(* left to TheAudioDbRequests, which implements this specification.        *)
(***************************************************************************)
CONSTANTS Key, NoKey

VARIABLES
    inFlight,   \* the key of the request that is under way, or NoKey
    barred      \* the keys that are rejected or rate-limited

gateVars == <<inFlight, barred>>

GateInit == inFlight = NoKey /\ barred = {}

Send(k) ==
    /\ inFlight = NoKey /\ k \notin barred
    /\ inFlight' = k /\ UNCHANGED barred

Finish ==
    /\ inFlight # NoKey
    /\ inFlight' = NoKey /\ UNCHANGED barred

(* A table that is full forgets another key. *)
Bar(k) ==
    /\ inFlight = NoKey /\ k \notin barred
    /\ k \in barred' /\ barred' \subseteq barred \cup {k}
    /\ UNCHANGED inFlight

Release ==
    /\ barred' \subseteq barred
    /\ UNCHANGED inFlight

GateNext == Finish \/ Release \/ \E k \in Key : Send(k) \/ Bar(k)

GateSpec == GateInit /\ [][GateNext]_gateVars
=============================================================================
