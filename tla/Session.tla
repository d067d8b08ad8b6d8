------------------------------ MODULE Session ------------------------------
(***************************************************************************)
(* The life of a client's connection: the open handshake with its timeouts *)
(* and retries (dial and open of conn.go), the goroutines of the test and  *)
(* how they stop (Run, send, receive, wait and close of client.go), and    *)
(* what the server does about opening and closing (sconn.go).              *)
(*                                                                         *)
(* What the test sends, receives and records is in RoundTrip.tla: here a   *)
(* goroutine of the test ends, for one reason or another.  The network may *)
(* lose, delay and reorder; it repeats nothing.                            *)
(***************************************************************************)
EXTENDS Integers

CONSTANT Tries           \* number of OpenTimeouts

ASSUME SessionAssumption == Tries \in Nat \ {0}

Proc == {"main", "opener", "send", "receive"}
Conn == 1..Tries         \* connections, by their token; 0 is no token

VARIABLES
    noTest,      \* ClientConfig.NoTest
    pc,          \* of each goroutine
    try,         \* the open timeout that runs
    openErr,     \* rerr of open's goroutine
    got,         \* the open reply it works on
    event,       \* the connection status Run has reported
    sock,        \* the client's socket: "open" or "closed"
    ctoken,      \* cconn.ctoken
    closed,      \* Client.closed
    lock,        \* holder of Client.closedM, or "none"
    err,         \* serr and rerr
    allSent,     \* history: send has returned no error
    \* network and server
    opens,       \* open requests on their way
    replies,     \* replies on their way: of open requests, and closing ones
    closes,      \* tokens of the close packets sent
    made, live   \* connections the server has made; those it keeps

runVars == <<noTest, event>>
openVars == <<try, openErr, got>>
connVars == <<sock, ctoken, closes>>
closeVars == <<closed, lock>>
testVars == <<err, allSent>>
netVars == <<opens, replies, made, live>>
vars == <<runVars, pc, openVars, connVars, closeVars, testVars, netVars>>

OpenReply(ct, close) == [kind |-> "open", token |-> ct, close |-> close]
Closing(ct) == [kind |-> "echo", token |-> ct, close |-> TRUE]

Goto(p, to) == pc' = [pc EXCEPT ![p] = to]
At(p, where) == pc[p] = where

-----------------------------------------------------------------------------
(* cconn.close: a close packet, if the token is known, then the socket     *)

ClosePacket == IF sock = "open" /\ ctoken # 0 THEN closes \cup {ctoken} ELSE closes

SendClose == closes' = ClosePacket /\ UNCHANGED <<sock, ctoken>>
CloseSocket == sock' = "closed" /\ UNCHANGED <<closes, ctoken>>
CloseConn == closes' = ClosePacket /\ sock' = "closed" /\ UNCHANGED ctoken

-----------------------------------------------------------------------------
(* open: the caller                                                        *)

SendOpen ==
    /\ At("main", "send")
    /\ IF sock = "open"
       THEN Goto("main", "select") /\ opens' = opens + 1
       ELSE Goto("main", "fail") /\ UNCHANGED opens
    /\ UNCHANGED <<runVars, openVars, connVars, closeVars, testVars, replies, made, live>>

\* Mutant of Timeout: one more request than there are timeouts.
TimeoutLate ==
    /\ At("main", "select")
    /\ try' = try + 1 /\ Goto("main", IF try <= Tries THEN "send" ELSE "fail")
    /\ UNCHANGED <<runVars, openErr, got, connVars, closeVars, testVars, netVars>>

\* No reply in time.  After the last timeout the socket is closed first, so
\* that no close packet is sent.
Timeout ==
    /\ At("main", "select")
    /\ IF try < Tries
       THEN try' = try + 1 /\ Goto("main", "send") /\ UNCHANGED connVars
       ELSE UNCHANGED try /\ Goto("main", "fail") /\ CloseSocket
    /\ UNCHANGED <<runVars, openErr, got, closeVars, testVars, netVars>>

CancelOpen ==
    /\ At("main", "select")
    /\ Goto("main", "fail")
    /\ UNCHANGED <<runVars, openVars, connVars, closeVars, testVars, netVars>>

\* Mutant of OpenResult: the goroutine goes on reading.
OpenResultGoesOn ==
    /\ At("main", "select") /\ At("opener", "report")
    /\ pc' = [pc EXCEPT !["opener"] = "read",
                        !["main"] = IF openErr = "none" THEN "opened" ELSE "fail"]
    /\ UNCHANGED <<runVars, openVars, connVars, closeVars, testVars, netVars>>

\* <-errC with errC <-: the channel has no buffer.
OpenResult ==
    /\ At("main", "select") /\ At("opener", "report")
    /\ pc' = [pc EXCEPT !["opener"] = "ended",
                        !["main"] = IF openErr = "none" THEN "opened" ELSE "fail"]
    /\ UNCHANGED <<runVars, openVars, connVars, closeVars, testVars, netVars>>

\* The deferred close of open; dial takes ServerClosed for no error.
OpenFails ==
    /\ At("main", "fail")
    /\ CloseConn
    /\ event' = IF openErr = "serverclosed" /\ At("opener", "ended")
                THEN "connectedclosed" ELSE event
    /\ Goto("main", "ended")
    /\ UNCHANGED <<noTest, openVars, closeVars, testVars, netVars>>

-----------------------------------------------------------------------------
(* open: the goroutine that reads replies                                  *)

\* receive closes the connection when the reply has the close flag.
ReadOpen(r) ==
    /\ At("opener", "read") /\ sock = "open"
    /\ r \in replies /\ replies' = replies \ {r}
    /\ got' = r
    /\ IF r.close THEN openErr' = "serverclosed" /\ CloseConn
       ELSE UNCHANGED <<openErr, connVars>>
    /\ Goto("opener", "parse")
    /\ UNCHANGED <<runVars, try, closeVars, testVars, opens, made, live>>

\* The rest of the loop: addFields and parseParams succeed and thereby set
\* rerr to nil again.
ParseOpen ==
    /\ At("opener", "parse")
    /\ openErr' = "none"
    /\ ctoken' = got.token
    /\ sock' = IF got.close THEN "closed" ELSE sock
    /\ Goto("opener", "report")
    /\ UNCHANGED <<runVars, try, got, closes, closeVars, testVars, netVars>>

\* The read or the reply is bad, or the socket is closed.
ReadOpenFails ==
    /\ At("opener", "read")
    /\ openErr' = IF sock = "open" THEN "fault" ELSE "closedsocket"
    /\ Goto("opener", "report")
    /\ UNCHANGED <<runVars, try, got, connVars, closeVars, testVars, netVars>>

-----------------------------------------------------------------------------
(* Run: from open to the test                                              *)

\* checkParameters refuses what the server has changed.
CheckFails ==
    /\ At("main", "opened")
    /\ Goto("main", "close")
    /\ UNCHANGED <<runVars, openVars, connVars, closeVars, testVars, netVars>>

Connected ==
    /\ At("main", "opened")
    /\ event' = "connected"
    /\ IF noTest THEN Goto("main", "close")
       ELSE pc' = [pc EXCEPT !["main"] = "wg", !["send"] = "init", !["receive"] = "init"]
    /\ UNCHANGED <<noTest, openVars, connVars, closeVars, testVars, netVars>>

\* wg.Wait.
TestEnds ==
    /\ At("main", "wg") /\ At("send", "ended") /\ At("receive", "ended")
    /\ Goto("main", "close")
    /\ UNCHANGED <<runVars, openVars, connVars, closeVars, testVars, netVars>>

-----------------------------------------------------------------------------
(* send and wait                                                           *)

\* A packet cannot be prepared: initCh is closed with nothing sent on it.
InitFails ==
    /\ At("send", "init")
    /\ err' = [err EXCEPT !["send"] = "fault"]
    /\ Goto("send", "check")
    /\ UNCHANGED <<runVars, openVars, connVars, closeVars, allSent, netVars>>

\* initCh <- true, received by receive.
InitDone ==
    /\ At("send", "init") /\ At("receive", "init")
    /\ pc' = [pc EXCEPT !["send"] = "sending", !["receive"] = "read"]
    /\ UNCHANGED <<runVars, openVars, connVars, closeVars, testVars, netVars>>

\* A send fails, or the sleep is cancelled.
SendFails(e) ==
    /\ At("send", "sending")
    /\ IF e = "closedsocket" THEN sock = "closed" ELSE e \in {"fault", "cancel"}
    /\ err' = [err EXCEPT !["send"] = e]
    /\ Goto("send", "check")
    /\ UNCHANGED <<runVars, openVars, connVars, closeVars, allSent, netVars>>

AllSent ==
    /\ At("send", "sending")
    /\ allSent' = TRUE
    /\ Goto("send", "wait")
    /\ UNCHANGED <<runVars, openVars, connVars, closeVars, err, netVars>>

\* Mutant of EndWait: the deferred close is missing.
EndWaitOpen ==
    /\ At("send", "wait")
    /\ Goto("send", "ended")
    /\ UNCHANGED <<runVars, openVars, connVars, closeVars, testVars, netVars>>

\* All replies are there, or the wait is over, or cancelled.
EndWait ==
    /\ At("send", "wait")
    /\ Goto("send", "close")
    /\ UNCHANGED <<runVars, openVars, connVars, closeVars, testVars, netVars>>

-----------------------------------------------------------------------------
(* receive                                                                 *)

ReceiveInitFails ==
    /\ At("receive", "init") /\ pc["send"] \in {"check", "close", "sock", "set", "ended"}
    /\ err' = [err EXCEPT !["receive"] = "init"]
    /\ Goto("receive", "check")
    /\ UNCHANGED <<runVars, openVars, connVars, closeVars, allSent, netVars>>

\* Mutant of ReceiveReply: receive closes the socket, with no close packet.
ReceiveReplyBare(r) ==
    /\ At("receive", "read") /\ sock = "open"
    /\ r \in replies /\ replies' = replies \ {r}
    /\ err' = [err EXCEPT !["receive"] = IF r.close THEN "serverclosed" ELSE "openflag"]
    /\ IF r.close THEN Goto("receive", "check") /\ CloseSocket
       ELSE Goto("receive", "check") /\ UNCHANGED connVars
    /\ UNCHANGED <<runVars, openVars, closeVars, allSent, opens, made, live>>

\* A reply with the close flag closes the connection (in receive of conn.go,
\* outside closedM); one with the open flag ends the test.
ReceiveReply(r) ==
    /\ At("receive", "read") /\ sock = "open"
    /\ r \in replies /\ replies' = replies \ {r}
    /\ err' = [err EXCEPT !["receive"] = IF r.close THEN "serverclosed" ELSE "openflag"]
    /\ IF r.close THEN Goto("receive", "sockonly") /\ SendClose
       ELSE Goto("receive", "check") /\ UNCHANGED connVars
    /\ UNCHANGED <<runVars, openVars, closeVars, allSent, opens, made, live>>

ReceiveCloses ==
    /\ At("receive", "sockonly")
    /\ CloseSocket
    /\ Goto("receive", "check")
    /\ UNCHANGED <<runVars, openVars, closeVars, testVars, netVars>>

\* The socket has been closed, or the read or the reply is bad.
ReceiveFails ==
    /\ At("receive", "read")
    /\ err' = [err EXCEPT !["receive"] = IF sock = "open" THEN "fault" ELSE "closedsocket"]
    /\ Goto("receive", "check")
    /\ UNCHANGED <<runVars, openVars, connVars, closeVars, allSent, netVars>>

-----------------------------------------------------------------------------
(* How a goroutine of the test ends, and Run: isClosed and Client.close    *)

\* Mutants of IsClosed: closedM is not locked; or it comes after close.
IsClosedUnlocked(p) ==
    err' = [err EXCEPT ![p] = IF closed THEN "none" ELSE @]
IsClosedLate(p) ==
    lock = "none" /\ err' = [err EXCEPT ![p] = "none"]

\* isClosed: an error is none once the client is closed.
IsClosed(p) ==
    lock = "none" /\ err' = [err EXCEPT ![p] = IF closed THEN "none" ELSE @]

Check(p) ==
    /\ At(p, "check")
    /\ IsClosed(p)
    /\ Goto(p, "close")
    /\ UNCHANGED <<runVars, openVars, connVars, closeVars, allSent, netVars>>

CloseLock(p) ==
    /\ At(p, "close") /\ lock = "none"
    /\ IF closed THEN Goto(p, "ended") /\ UNCHANGED <<lock, connVars>>
       ELSE Goto(p, "sock") /\ lock' = p /\ SendClose
    /\ UNCHANGED <<runVars, openVars, closed, testVars, netVars>>

CloseSock(p) ==
    /\ At(p, "sock")
    /\ CloseSocket
    /\ Goto(p, "set")
    /\ UNCHANGED <<runVars, openVars, closeVars, testVars, netVars>>

CloseUnlock(p) ==
    /\ At(p, "set")
    /\ closed' = TRUE /\ lock' = "none"
    /\ Goto(p, "ended")
    /\ UNCHANGED <<runVars, openVars, connVars, testVars, netVars>>

End(p) == CloseLock(p) \/ CloseSock(p) \/ CloseUnlock(p)

-----------------------------------------------------------------------------
(* The server                                                              *)

\* accept: every open request makes a connection of its own, unless it has
\* the close flag.
Accept ==
    /\ opens > 0 /\ opens' = opens - 1
    /\ IF noTest
       THEN replies' = replies \cup {OpenReply(0, TRUE)} /\ UNCHANGED <<made, live>>
       ELSE /\ made' = made + 1 /\ live' = live \cup {made + 1}
            /\ replies' = replies \cup {OpenReply(made + 1, FALSE)}
    /\ UNCHANGED <<runVars, pc, openVars, connVars, closeVars, testVars>>

\* serveEcho: a request of the test exceeds the duration limit.
ExceedDuration(ct) ==
    /\ ct \in live /\ ct = ctoken /\ At("receive", "read")
    /\ live' = live \ {ct}
    /\ replies' = replies \cup {Closing(ct)}
    /\ UNCHANGED <<runVars, pc, openVars, connVars, closeVars, testVars, opens, made>>

\* serveClose.
ServeClose(ct) ==
    /\ ct \in live /\ ct \in closes
    /\ live' = live \ {ct}
    /\ UNCHANGED <<runVars, pc, openVars, connVars, closeVars, testVars, opens, replies, made>>

-----------------------------------------------------------------------------
Init ==
    /\ noTest \in BOOLEAN /\ event = "none"
    /\ pc = [p \in Proc |-> CASE p = "main" -> "send" [] p = "opener" -> "read"
                              [] OTHER -> "none"]
    /\ try = 1 /\ openErr = "none" /\ got = OpenReply(0, FALSE)
    /\ sock = "open" /\ ctoken = 0 /\ closed = FALSE /\ lock = "none"
    /\ err = [p \in {"send", "receive"} |-> "none"] /\ allSent = FALSE
    /\ opens = 0 /\ replies = {} /\ closes = {} /\ made = 0 /\ live = {}

Main == SendOpen \/ Timeout \/ OpenResult \/ OpenFails \/ Connected \/ TestEnds \/ End("main")
Opener == ParseOpen \/ ReadOpenFails \/ \E r \in replies : ReadOpen(r)
Sender == InitDone \/ AllSent \/ SendFails("closedsocket") \/ EndWait
          \/ Check("send") \/ End("send")
Receiver == ReceiveInitFails \/ ReceiveCloses \/ Check("receive") \/ End("receive")
            \/ ReceiveFails \/ \E r \in replies : ReceiveReply(r)
ServerStep == Accept \/ \E ct \in live : ExceedDuration(ct) \/ ServeClose(ct)

Next ==
    \/ Main \/ CancelOpen \/ CheckFails
    \/ Opener
    \/ Sender \/ InitFails \/ SendFails("fault") \/ SendFails("cancel")
    \/ Receiver
    \/ ServerStep

\* The goroutines of the client are scheduled, its timers fire, and a test has
\* a finite duration.  A read returns only if its socket is closed: the
\* network and the server may do nothing at all.
Fairness ==
    /\ WF_vars(Main)
    /\ WF_vars(Sender)
    /\ WF_vars(Receiver /\ (At("receive", "read") => sock = "closed"))
    /\ WF_vars(Opener /\ (At("opener", "read") => sock = "closed"))

Spec == Init /\ [][Next]_vars /\ Fairness

-----------------------------------------------------------------------------
(* Properties                                                              *)

Errors == {"none", "fault", "closedsocket", "serverclosed", "openflag", "init", "cancel"}

\* The variables have the values of their declarations, and the server makes
\* no more connections than there are open timeouts.
TypeOK ==
    /\ noTest \in BOOLEAN /\ event \in {"none", "connected", "connectedclosed"}
    /\ DOMAIN pc = Proc /\ try \in 1..Tries
    /\ openErr \in {"none", "fault", "closedsocket", "serverclosed"}
    /\ sock \in {"open", "closed"} /\ ctoken \in {0} \cup Conn
    /\ closed \in BOOLEAN /\ lock \in Proc \cup {"none"}
    /\ err \in [{"send", "receive"} -> Errors] /\ allSent \in BOOLEAN
    /\ opens \in 0..Tries /\ made \in 0..Tries /\ live \subseteq Conn
    /\ closes \subseteq Conn

Tested == At("main", "ended") /\ pc["send"] = "ended"

\* open's goroutine and receive never both read the socket: a reply to an
\* echo request cannot be taken by the former, which would drop it.
OneReader == pc["receive"] # "none" => At("opener", "ended")

\* After a test a close packet with the connection's token has been sent
\* before the socket was closed, whoever closed first: send, receive, or
\* receive of conn.go because of a reply with the close flag.
CloseSent == Tested => ctoken \in closes

\* A test that the client itself closes shows no receive error: the error of
\* reading a closed socket is never reported, as close holds closedM while it
\* closes the socket.
ReceiveErrReal == Tested => err["receive"] # "closedsocket"

\* Comment of Run: "If an error occurs during the test, ... either or both of
\* the SendErr or ReceiveErr fields of Result will be non-nil": a test that
\* ended before everything was sent is not reported without error, although
\* each goroutine drops its error when it finds the client closed.
NoSilentStop ==
    Tested /\ ~allSent => \E p \in {"send", "receive"} : err[p] # "none"

\* What the client is doing, of all its goroutines.
Phase ==
    CASE At("main", "ended") -> "over"
      [] At("main", "wg") -> "testing"
      [] pc["main"] \in {"close", "sock", "set"} -> "closing"
      [] OTHER -> "opening"

\* The goroutines, retries and errors keep the promises of Conversation.tla:
\* no step of any of them starts a test on a closed socket, closes the socket
\* of an opened connection before the close packet was sent, or returns with
\* the socket open; and the client returns.
Talk == INSTANCE Conversation WITH phase <- Phase, told <- ctoken \in closes
Converses == Talk!Spec

\* Run returns: no reply, lost packet, retry or failure of a goroutine makes
\* the client hang.
RunReturns == <>At("main", "ended")

\* Comment in receive of client.go: "drop packets with open flag set"; so the
\* late reply to a repeated open request does no harm to the test.
OpenFlagDropped == Tested => err["receive"] # "openflag"

\* Run reports "connection accepted and closed" (ConnectedClosed), and not
\* "connection established", if the reply to open has the close flag.
AcceptedClosed == At("main", "ended") /\ got.close => event # "connected"
=============================================================================
