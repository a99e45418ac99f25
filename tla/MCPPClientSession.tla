--------------------------- MODULE MCPPClientSession ---------------------------
(***************************************************************************)
(* PPClientSession for TLC, with the real sizes of the wire format: a      *)
(* 9-byte header, 16 bytes of input, 13 bytes of settings.                 *)
(***************************************************************************)
EXTENDS PPClientSession

Packet(code, size) == [valid |-> TRUE, code |-> code, size |-> size]

\* Nine bytes that do not start with the validation code: not a PinBox peer.
Junk == [valid |-> FALSE, code |-> 0, size |-> 0]

\* What PPSession.cpp and the test client build: the start and stop requests
\* are empty; 2 is the code the test client authenticates with.
Messages ==
    {Packet(AUTHENTICATION, 0), Packet(2, 0), Packet(START_CAPTURE, 0),
     Packet(HUB_REQUEST, 0), Packet(INPUT, 16), Packet(12, 13), Junk}
=============================================================================
