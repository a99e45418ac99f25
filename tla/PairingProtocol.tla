---------------------------- MODULE PairingProtocol ----------------------------
(***************************************************************************)
(* What connecting to a server promises the user of the 3DS, message by    *)
(* message: the client asks, the server answers each request it owes an    *)
(* answer, in order, and the dialog closes as paired only behind the hub   *)
(* items of a server that accepted the client, decoded once.  Threads,     *)
(* buffers, bytes and what is waited for are below this level: PPSession   *)
(* implements it out of them.                                              *)
(***************************************************************************)
EXTENDS Naturals, Sequences

CONSTANTS
    AuthRequest, HubRequest,  \* what a client asks
    Welcome, Refusal, Items   \* what a server answers

VARIABLES
    shown,     \* the state the dialog goes by
    requests,  \* what the client has asked, in order
    read,      \* how many of the requests the server has read
    answers,   \* what the server has answered, in order
    accepted,  \* does the client know that it is welcome?
    decoded    \* the answers whose items were decoded, by their number

client == <<shown, requests, accepted, decoded>>
vars   == <<shown, requests, read, answers, accepted, decoded>>

Contains(seq, e) == \E i \in 1..Len(seq) : seq[i] = e

Init ==
    /\ shown = "CONNECTING"
    /\ requests = << >>
    /\ read = 0
    /\ answers = << >>
    /\ accepted = FALSE
    /\ decoded = << >>

Connect ==
    /\ shown = "CONNECTING"
    /\ shown' \in {"CONNECTED", "FAILED"}
    /\ UNCHANGED <<requests, read, answers, accepted, decoded>>

\* The dialog asks whenever it finds the manager idle, more than once if it is.
Authenticate ==
    /\ shown \in {"CONNECTED", "PAIRED"}
    /\ requests' = Append(requests, AuthRequest)
    /\ UNCHANGED <<shown, read, answers, accepted, decoded>>

Accept ==
    /\ shown = "CONNECTED"
    /\ ~accepted
    /\ Contains(answers, Welcome)
    /\ accepted' = TRUE
    /\ UNCHANGED <<shown, requests, read, answers, decoded>>

\* The hub items are asked for by a client that knows it is welcome, and once.
AskForItems ==
    /\ accepted
    /\ ~Contains(requests, HubRequest)
    /\ requests' = Append(requests, HubRequest)
    /\ UNCHANGED <<shown, read, answers, accepted, decoded>>

Decode ==
    /\ accepted
    /\ decoded = << >>
    /\ \E k \in 1..Len(answers) : answers[k] = Items /\ decoded' = <<k>>
    /\ UNCHANGED <<shown, requests, read, answers, accepted>>

Pair ==
    /\ shown = "CONNECTED"
    /\ decoded # << >>
    /\ shown' = "PAIRED"
    /\ UNCHANGED <<requests, read, answers, accepted, decoded>>

\* The server authenticates a client until it has accepted it, answers a request
\* for the items of an accepted client, and owes nothing to a second
\* authentication.  No other request ever reaches it.
Respond ==
    /\ read < Len(requests)
    /\ read' = read + 1
    /\ \/ /\ requests[read + 1] = AuthRequest
          /\ ~Contains(answers, Welcome)
          /\ \E answer \in {Welcome, Refusal} : answers' = Append(answers, answer)
       \/ /\ requests[read + 1] = AuthRequest
          /\ Contains(answers, Welcome)
          /\ answers' = answers
       \/ /\ requests[read + 1] = HubRequest
          /\ Contains(answers, Welcome)
          /\ answers' = Append(answers, Items)
    /\ UNCHANGED client

Next == Connect \/ Authenticate \/ Accept \/ AskForItems \/ Decode \/ Pair \/ Respond

Spec == Init /\ [][Next]_vars
=============================================================================
