------------------------------ MODULE MCPPNetwork ------------------------------
(***************************************************************************)
(* Two frames, one smaller and one larger than a header, and a recv that    *)
(* takes more than a header and less than the longer message, so that it   *)
(* may bring the end of one chunk, a whole one and a part of a third.       *)
(***************************************************************************)
EXTENDS PPNetwork

SomeFrameSizes == {1, 3}
AnyAnswer == {AUTH_SUCCESS, AUTH_FAILED}
=============================================================================
