-------------------------- MODULE MCDiscordPresence --------------------------
(***************************************************************************)
(* Small instances of DiscordPresence for TLC.                             *)
(***************************************************************************)
EXTENDS DiscordPresence

(* Streams have dynamic titles and no known length; a file has a length. *)
MCTextOf ==
    [t \in Track |-> IF t = "file" THEN [x \in Title |-> "file"] ELSE [x \in Title |-> x]]
MCLengthOf == [t \in Track |-> IF t = "file" THEN 1 ELSE 0]
=============================================================================
