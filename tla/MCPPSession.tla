------------------------------ MODULE MCPPSession ------------------------------
(***************************************************************************)
(* PPSession on a small instance: headers of their real nine bytes, a hub  *)
(* items' body longer than a header and a recv that takes less than        *)
(* either, so that every message arrives in pieces and some pieces hold    *)
(* the end of one and the start of another.                                *)
(***************************************************************************)
EXTENDS PPSession

AnyAnswer == {AUTH_SUCCESS, AUTH_FAILED}
OurAnswer == {AUTH_SUCCESS}
=============================================================================
