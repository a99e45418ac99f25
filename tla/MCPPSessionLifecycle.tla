------------------------ MODULE MCPPSessionLifecycle ------------------------
(***************************************************************************)
(* Two sessions, one after the other: what the first leaves behind meets   *)
(* the second.                                                             *)
(***************************************************************************)
EXTENDS PPSessionLifecycle
=============================================================================
