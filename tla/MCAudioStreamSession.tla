------------------------- MODULE MCAudioStreamSession -------------------------
(***************************************************************************)
(* A buffer of two frames and a half, and packets below and above a frame. *)
(***************************************************************************)
EXTENDS AudioStreamSession

Packets == {2, 5}
=============================================================================
