---------------------------- MODULE MCServerSelect ----------------------------
(***************************************************************************)
(* Starts of the app without a bound, two sessions in each, and a list of  *)
(* up to two profiles, which may be equal.                                 *)
(***************************************************************************)
EXTENDS ServerSelect

CONSTANT p1
=============================================================================
