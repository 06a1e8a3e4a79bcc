-------------------------- MODULE MCArtworkProviders --------------------------
(***************************************************************************)
(* The small instance of ArtworkProviders for TLC: no release, one, and a  *)
(* group of two; r1 is canonical, r3 is a pin that is not.                 *)
(***************************************************************************)
EXTENDS ArtworkProviders

SmallGroups == {<<>>, <<"r1">>, <<"r1", "r2">>}
=============================================================================
