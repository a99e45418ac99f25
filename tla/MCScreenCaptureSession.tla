------------------------ MODULE MCScreenCaptureSession ------------------------
(***************************************************************************)
(* Two connections on the two network threads of server.cfg, and two       *)
(* streams one after the other or at a time.                               *)
(***************************************************************************)
EXTENDS ScreenCaptureSession

CONSTANTS s1, s2, t1, t2

TwoSessions == {s1, s2}
TwoThreads == {t1, t2}
RoundRobin == [s \in TwoSessions |-> IF s = s1 THEN t1 ELSE t2]
=============================================================================
