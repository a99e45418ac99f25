---------------------------- MODULE SessionProtocol ----------------------------
(***************************************************************************)
(* What a PinBox server session promises its client, message by message:  *)
(* every message the client writes gets exactly one verdict, in the order  *)
(* the messages were written, and only the authentication message turns   *)
(* verdicts from refusals into service.  Bytes, segments and buffers are   *)
(* below this level: PPClientSession implements it out of them.            *)
(***************************************************************************)
EXTENDS Naturals, Sequences

CONSTANTS
    Message,   \* the messages a peer may write: records [valid, code, size]
    AuthCode   \* the code of the authentication message

VARIABLES
    sent,           \* the messages written so far
    authenticated,  \* has the session accepted an authentication message?
    outcome         \* outcome[k] is the verdict on sent[k]

vars == <<sent, authenticated, outcome>>

IsAuthentication(m) == m.valid /\ m.code = AuthCode

\* The verdict a session in the state auth gives to message m.
Verdict(auth, m) ==
    CASE ~auth /\ IsAuthentication(m)  -> "welcomed"
      [] ~auth /\ ~IsAuthentication(m) -> "refused"
      [] auth /\ m.valid               -> "handled"
      [] auth /\ ~m.valid              -> "skipped"

Init ==
    /\ sent = << >>
    /\ authenticated = FALSE
    /\ outcome = << >>

Send ==
    /\ \E m \in Message : sent' = Append(sent, m)
    /\ UNCHANGED <<authenticated, outcome>>

Judge ==
    /\ Len(outcome) < Len(sent)
    /\ LET m == sent[Len(outcome) + 1] IN
         /\ outcome' = Append(outcome, Verdict(authenticated, m))
         /\ authenticated' = (authenticated \/ IsAuthentication(m))
    /\ UNCHANGED sent

Next == Send \/ Judge

Spec == Init /\ [][Next]_vars
=============================================================================
