---------------------------- MODULE Conversation ----------------------------
(***************************************************************************)
(* What a client's connection promises, whatever goroutines, retries and   *)
(* errors there are behind it (cconn of conn.go, Run of client.go): it is  *)
(* opened once or not at all, a test runs only on an open socket, the      *)
(* server is told before the socket of an opened connection is closed, and *)
(* the client returns with its socket closed.  Session.tla implements it.  *)
(***************************************************************************)

VARIABLES
    phase,       \* "opening", "testing", "closing" or "over"
    sock,        \* the socket: "open" or "closed"
    told         \* a close packet with the connection's token has been sent

vars == <<phase, sock, told>>

Init == phase = "opening" /\ sock = "open" /\ told = FALSE

\* The socket is closed before there is a connection, which the server then
\* cannot be told about.
Abandon ==
    /\ phase = "opening" /\ sock = "open" /\ ~told
    /\ sock' = "closed"
    /\ UNCHANGED <<phase, told>>

\* Open returns an error.
GiveUp ==
    /\ phase = "opening"
    /\ phase' = "over" /\ sock' = "closed"
    /\ told' \in {told, sock = "open"}

\* The test starts.
Establish ==
    /\ phase = "opening" /\ sock = "open" /\ ~told
    /\ phase' = "testing"
    /\ UNCHANGED <<sock, told>>

\* There is to be no test, or its parameters are refused.
Decline ==
    /\ phase = "opening" /\ ~told
    /\ phase' = "closing"
    /\ UNCHANGED <<sock, told>>

Tell ==
    /\ phase \in {"testing", "closing"} /\ sock = "open" /\ ~told
    /\ told' = TRUE
    /\ UNCHANGED <<phase, sock>>

CloseSocket ==
    /\ phase \in {"testing", "closing"} /\ sock = "open" /\ told
    /\ sock' = "closed"
    /\ UNCHANGED <<phase, told>>

\* The goroutines of the test have ended.
Finish ==
    /\ phase = "testing" /\ sock = "closed"
    /\ phase' = "closing"
    /\ UNCHANGED <<sock, told>>

Return ==
    /\ phase = "closing" /\ sock = "closed"
    /\ phase' = "over"
    /\ UNCHANGED <<sock, told>>

Next == Abandon \/ GiveUp \/ Establish \/ Decline \/ Tell \/ CloseSocket \/ Finish \/ Return

Spec == Init /\ [][Next]_vars /\ WF_vars(Next)
=============================================================================
