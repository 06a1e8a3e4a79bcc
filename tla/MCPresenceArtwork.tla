--------------------------- MODULE MCPresenceArtwork ---------------------------
(***************************************************************************)
(* The small instance of PresenceArtwork for TLC: a stream with two titles *)
(* that MusicBrainz is asked for, and a file that is uploaded.             *)
(***************************************************************************)
EXTENDS PresenceArtwork

MCTextOf ==
    [t \in Track |-> IF t = "file" THEN [x \in Title |-> "file"] ELSE [x \in Title |-> x]]
MCLengthOf == [t \in Track |-> IF t = "file" THEN 1 ELSE 0]
MCListOf == [t \in Track |-> [x \in Title \cup {"file"} |->
    IF t = "file" THEN <<"upFile">> ELSE IF x = "live" THEN <<"mbLive">> ELSE <<"mbPlain">>]]
MCKeyOf == [r \in Request |-> r]

(* Bounds on what the run explores. *)
SmallStates ==
    /\ config.token # None /\ config.isEnabled /\ ~config.disableWhenPaused
    /\ posted <= 1 /\ timers <= 1 /\ disk = None
    /\ aborting => requestGen <= 1
=============================================================================
