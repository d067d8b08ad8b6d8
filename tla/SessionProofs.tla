--------------------------- MODULE SessionProofs ---------------------------
(***************************************************************************)
(* Proofs about Session, for any number of open timeouts: only one         *)
(* goroutine reads the socket, a test's close packet is sent before its    *)
(* socket is closed, the errors a test is reported with are its own, and   *)
(* every step of every goroutine is one that Conversation allows.          *)
(***************************************************************************)
EXTENDS Session, TLAPS

Opening == {"send", "select", "opened", "fail"}
Closed == {"close", "sock", "set", "ended"}
Reply == [kind : {"open", "echo"}, token : Nat, close : BOOLEAN]

Types ==
    /\ noTest \in BOOLEAN /\ closed \in BOOLEAN
    /\ pc \in [Proc -> Opening \cup Closed \cup
                 {"wg", "read", "parse", "report", "none", "init", "sending", "wait", "check", "sockonly"}]
    /\ pc["main"] \in Opening \cup {"wg"} \cup Closed
    /\ pc["opener"] \in {"read", "parse", "report", "ended"}
    /\ pc["send"] \in {"none", "init", "sending", "wait", "check"} \cup Closed
    /\ pc["receive"] \in {"none", "init", "read", "sockonly", "check"} \cup Closed
    /\ sock \in {"open", "closed"} /\ ctoken \in Nat /\ closes \subseteq Nat \ {0}
    /\ made \in Nat /\ got \in Reply /\ replies \subseteq Reply

\* What an open reply says: with NoTest that the server has closed, else the
\* token of a connection.
Honest(r) == r.close = noTest /\ (noTest <=> r.token = 0)

\* What is known once a reply has been parsed.
Opened == IF noTest THEN ctoken = 0 /\ sock = "closed" ELSE ctoken # 0

Handshake ==
    /\ \A r \in replies : IF r.kind = "open" THEN Honest(r) ELSE At("opener", "ended")
    /\ pc["opener"] \in {"read", "parse"} => ctoken = 0 /\ closes = {}
    /\ At("opener", "parse") => Honest(got) /\ (noTest => sock = "closed")
    /\ At("opener", "report") /\ openErr = "none" => Opened
    /\ pc["main"] \in Opening => closes = {}
    /\ pc["main"] \in {"send", "select", "opened"} /\ ~noTest => sock = "open"
    /\ pc["main"] \in {"opened", "wg", "close", "sock", "set"} => At("opener", "ended") /\ Opened

Stopping ==
    /\ pc["send"] = "none" <=> pc["receive"] = "none"
    /\ pc["main"] \in Opening => pc["send"] = "none"
    /\ At("main", "wg") => pc["send"] # "none"
    /\ pc["main"] \in Closed => pc["send"] \in {"none", "ended"} /\ pc["receive"] \in {"none", "ended"}
    /\ pc["send"] # "none" => /\ At("opener", "ended") /\ ctoken # 0
                              /\ sock = "closed" => ctoken \in closes
    /\ closed => sock = "closed"
    /\ At("main", "ended") => sock = "closed"
    /\ \A p \in {"send", "receive"} : At(p, "ended") => closed
    /\ \A p \in Proc : /\ pc[p] \in {"sock", "sockonly"} /\ sock = "open" => ctoken \in closes
                       /\ At(p, "set") => sock = "closed"

IInv == Types /\ Handshake /\ Stopping

-----------------------------------------------------------------------------
\* A client that has not sent anything.
LEMMA InitIInv == Init => IInv
<1> SUFFICES ASSUME Init PROVE IInv
    OBVIOUS
<1> USE DEF Init, Opening, Closed, Proc, At
<1>1. Types
    <2>1. OpenReply(0, FALSE) \in Reply
        BY DEF OpenReply, Reply
    <2>2. noTest \in BOOLEAN /\ closed \in BOOLEAN
        BY Zenon
    <2> QED BY <2>1, <2>2 DEF Types
<1>2. Handshake
    BY DEF Handshake
<1>3. Stopping
    BY DEF Stopping
<1> QED BY <1>1, <1>2, <1>3 DEF IInv

\* Every step of main, of open's goroutine, of send, of receive and of the
\* server keeps the invariant.
LEMMA Step == IInv /\ [Next]_vars => IInv'
<1> SUFFICES ASSUME IInv, [Next]_vars PROVE IInv'
    OBVIOUS
<1> USE DEF IInv, Types, Handshake, Stopping, Opening, Closed, Reply, Honest, Opened, Proc, At,
            Goto, ClosePacket, SendClose, CloseSocket, CloseConn, IsClosed, OpenReply, Closing,
            runVars, openVars, connVars, closeVars, testVars, netVars
<1>1. CASE SendOpen
    BY <1>1, SMTT(20) DEF SendOpen
<1>2. CASE OpenResult
    BY <1>2, SMTT(20) DEF OpenResult
<1>3. CASE OpenFails
    BY <1>3, SMTT(20) DEF OpenFails
<1>4. CASE Connected
    BY <1>4, SMTT(20) DEF Connected
<1>5. CASE TestEnds
    BY <1>5, SMTT(20) DEF TestEnds
<1>6. CASE CancelOpen
    BY <1>6, SMTT(20) DEF CancelOpen
<1>7. CASE CheckFails
    BY <1>7, SMTT(20) DEF CheckFails
<1>8. CASE ParseOpen
    BY <1>8, SMTT(20) DEF ParseOpen
<1>9. CASE ReadOpenFails
    BY <1>9, SMTT(20) DEF ReadOpenFails
<1>10. CASE InitDone
    BY <1>10, SMTT(20) DEF InitDone
<1>11. CASE AllSent
    BY <1>11, SMTT(20) DEF AllSent
<1>12. CASE EndWait
    BY <1>12, SMTT(20) DEF EndWait
<1>13. CASE InitFails
    BY <1>13, SMTT(20) DEF InitFails
<1>14. CASE ReceiveInitFails
    BY <1>14, SMTT(20) DEF ReceiveInitFails
<1>15. CASE ReceiveCloses
    BY <1>15, SMTT(20) DEF ReceiveCloses
<1>16. CASE ReceiveFails
    BY <1>16, SMTT(20) DEF ReceiveFails
<1>17. CASE UNCHANGED vars
    BY <1>17, SMTT(20) DEF vars
<1>18. ASSUME NEW e \in {"closedsocket", "fault", "cancel"}, SendFails(e) PROVE IInv'
    BY <1>18, SMTT(20) DEF SendFails
<1>19. ASSUME NEW p \in {"send", "receive"}, Check(p) PROVE IInv'
    BY <1>19, SMTT(20) DEF Check
<1>20. ASSUME NEW p \in {"main", "send", "receive"}, CloseSock(p) PROVE IInv'
    BY <1>20, SMTT(20) DEF CloseSock
<1>21. ASSUME NEW p \in {"main", "send", "receive"}, CloseUnlock(p) PROVE IInv'
    BY <1>21, SMTT(20) DEF CloseUnlock
<1>22. ASSUME NEW ct \in live, ServeClose(ct) PROVE IInv'
    BY <1>22, SMTT(20) DEF ServeClose
<1>23. CASE Timeout
    <2>1. Types'
        <3>1. pc' = [pc EXCEPT !["main"] = "send"] \/ pc' = [pc EXCEPT !["main"] = "fail"]
            BY <1>23 DEF Timeout
        <3>2. sock' \in {"open", "closed"} /\ ctoken' = ctoken /\ closes' = closes
            BY <1>23 DEF Timeout
        <3>3. noTest' = noTest /\ closed' = closed /\ made' = made /\ got' = got /\ replies' = replies
            BY <1>23 DEF Timeout
        <3> QED BY <3>1, <3>2, <3>3
    <2>2. Handshake'
        <3>1. CASE try < Tries
            BY <1>23, <3>1 DEF Timeout
        <3>2. CASE ~(try < Tries)
            BY <1>23, <3>2 DEF Timeout
        <3> QED BY <3>1, <3>2
    <2>3. Stopping'
        <3>1. CASE try < Tries
            BY <1>23, <3>1 DEF Timeout
        <3>2. CASE ~(try < Tries)
            BY <1>23, <3>2 DEF Timeout
        <3> QED BY <3>1, <3>2
    <2> QED BY <2>1, <2>2, <2>3
<1>24. ASSUME NEW p \in {"main", "send", "receive"}, CloseLock(p) PROVE IInv'
    <2>1. Types'
        <3>1. pc' = [pc EXCEPT ![p] = "ended"] \/ pc' = [pc EXCEPT ![p] = "sock"]
            BY <1>24 DEF CloseLock
        <3>2. sock' = sock /\ ctoken' = ctoken /\ closes' \in {closes, closes \cup {ctoken}} /\ (ctoken = 0 => closes' = closes)
            BY <1>24 DEF CloseLock
        <3>3. noTest' = noTest /\ closed' = closed /\ made' = made /\ got' = got /\ replies' = replies
            BY <1>24 DEF CloseLock
        <3> QED BY <3>1, <3>2, <3>3
    <2>2. Handshake'
        BY <1>24 DEF CloseLock
    <2>3. Stopping'
        BY <1>24 DEF CloseLock
    <2> QED BY <2>1, <2>2, <2>3
<1>25. ASSUME NEW r \in replies, ReadOpen(r) PROVE IInv'
    <2>1. Types'
        <3>1. pc' = [pc EXCEPT !["opener"] = "parse"]
            BY <1>25 DEF ReadOpen
        <3>2. sock' \in {sock, "closed"} /\ ctoken' = ctoken /\ closes' = closes
            BY <1>25 DEF ReadOpen
        <3>3. noTest' = noTest /\ closed' = closed /\ made' = made /\ got' \in Reply /\ replies' \subseteq replies
            BY <1>25 DEF ReadOpen
        <3> QED BY <3>1, <3>2, <3>3
    <2>2. Handshake'
        <3>1. CASE r.close
            BY <1>25, <3>1 DEF ReadOpen
        <3>2. CASE ~(r.close)
            BY <1>25, <3>2 DEF ReadOpen
        <3> QED BY <3>1, <3>2
    <2>3. Stopping'
        BY <1>25 DEF ReadOpen
    <2> QED BY <2>1, <2>2, <2>3
<1>26. ASSUME NEW r \in replies, ReceiveReply(r) PROVE IInv'
    <2>1. Types'
        <3>1. pc' = [pc EXCEPT !["receive"] = "sockonly"] \/ pc' = [pc EXCEPT !["receive"] = "check"]
            BY <1>26 DEF ReceiveReply
        <3>2. sock' = sock /\ ctoken' = ctoken /\ closes' \in {closes, closes \cup {ctoken}} /\ (ctoken = 0 => closes' = closes)
            BY <1>26 DEF ReceiveReply
        <3>3. noTest' = noTest /\ closed' = closed /\ made' = made /\ got' = got /\ replies' \subseteq replies
            BY <1>26 DEF ReceiveReply
        <3> QED BY <3>1, <3>2, <3>3
    <2>2. Handshake'
        BY <1>26 DEF ReceiveReply
    <2>3. Stopping'
        BY <1>26 DEF ReceiveReply
    <2> QED BY <2>1, <2>2, <2>3
<1>27. CASE Accept
    <2>1. made' \in Nat /\ \E r \in Reply : r.kind = "open" /\ Honest(r) /\ replies' = replies \cup {r}
        <3>1. CASE noTest
            <4>1. OpenReply(0, TRUE) \in Reply /\ Honest(OpenReply(0, TRUE))
                BY <3>1
            <4> QED BY <1>27, <3>1, <4>1 DEF Accept
        <3>2. CASE ~noTest
            <4>1. OpenReply(made + 1, FALSE) \in Reply /\ Honest(OpenReply(made + 1, FALSE))
                <5>1. made + 1 \in Nat /\ made + 1 # 0
                    OBVIOUS
                <5>2. noTest = FALSE
                    BY <3>2
                <5> QED BY <5>1, <5>2
            <4> QED BY <1>27, <3>2, <4>1 DEF Accept
        <3> QED BY <3>1, <3>2
    <2>2. /\ noTest' = noTest /\ closed' = closed /\ got' = got /\ pc' = pc /\ openErr' = openErr
          /\ sock' = sock /\ ctoken' = ctoken /\ closes' = closes
        BY <1>27 DEF Accept
    <2>3. Types'
        BY <2>1, <2>2
    <2>4. Handshake'
        BY <2>1, <2>2
    <2>5. Stopping'
        BY <2>2
    <2> QED BY <2>3, <2>4, <2>5
<1>28. ASSUME NEW ct \in live, ExceedDuration(ct) PROVE IInv'
    <2>1. Types'
        <3>1. pc' = pc /\ sock' = sock /\ ctoken' = ctoken /\ closes' = closes
            BY <1>28 DEF ExceedDuration
        <3>2. noTest' = noTest /\ closed' = closed /\ got' = got /\ made' = made
            BY <1>28 DEF ExceedDuration
        <3>3. \E r \in Reply : replies' = replies \cup {r}
            BY <1>28 DEF ExceedDuration
        <3> QED BY <3>1, <3>2, <3>3
    <2>2. Handshake'
        BY <1>28 DEF ExceedDuration
    <2>3. Stopping'
        BY <1>28 DEF ExceedDuration
    <2> QED BY <2>1, <2>2, <2>3
<1> QED BY <1>1, <1>2, <1>3, <1>4, <1>5, <1>6, <1>7, <1>8, <1>9, <1>10, <1>11, <1>12, <1>13, <1>14, <1>15, <1>16, <1>17, <1>18, <1>19, <1>20, <1>21, <1>22, <1>23, <1>24, <1>25, <1>26, <1>27, <1>28
       DEF Next, Main, Opener, Sender, Receiver, ServerStep, End

-----------------------------------------------------------------------------
\* Every step of Session is one of Conversation, or changes nothing of it.
LEMMA ConversationStep == IInv /\ [Next]_vars => [Talk!Next]_(Talk!vars)
<1> SUFFICES ASSUME IInv, [Next]_vars PROVE [Talk!Next]_(Talk!vars)
    OBVIOUS
<1> USE DEF IInv, Types, Handshake, Stopping, Opening, Closed, Opened, Honest, Proc, At, Goto,
            ClosePacket, SendClose, CloseSocket, CloseConn, Phase,
            runVars, openVars, connVars, closeVars, testVars, netVars,
            Talk!vars, Talk!Next, Talk!Abandon, Talk!GiveUp, Talk!Establish, Talk!Decline,
            Talk!Tell, Talk!CloseSocket, Talk!Finish, Talk!Return
<1>1. CASE SendOpen
    BY <1>1, SMTT(20) DEF SendOpen
<1>2. CASE Timeout
    BY <1>2, SMTT(20) DEF Timeout
<1>3. CASE OpenResult
    BY <1>3, SMTT(20) DEF OpenResult
<1>4. CASE OpenFails
    BY <1>4, SMTT(20) DEF OpenFails
<1>5. CASE Connected
    BY <1>5, SMTT(20) DEF Connected
<1>6. CASE TestEnds
    BY <1>6, SMTT(20) DEF TestEnds
<1>7. CASE CancelOpen
    BY <1>7, SMTT(20) DEF CancelOpen
<1>8. CASE CheckFails
    BY <1>8, SMTT(20) DEF CheckFails
<1>9. CASE ParseOpen
    BY <1>9, SMTT(20) DEF ParseOpen
<1>10. CASE ReadOpenFails
    BY <1>10, SMTT(20) DEF ReadOpenFails
<1>11. CASE InitDone
    BY <1>11, SMTT(20) DEF InitDone
<1>12. CASE AllSent
    BY <1>12, SMTT(20) DEF AllSent
<1>13. CASE EndWait
    BY <1>13, SMTT(20) DEF EndWait
<1>14. CASE InitFails
    BY <1>14, SMTT(20) DEF InitFails
<1>15. CASE ReceiveInitFails
    BY <1>15, SMTT(20) DEF ReceiveInitFails
<1>16. CASE ReceiveCloses
    BY <1>16, SMTT(20) DEF ReceiveCloses
<1>17. CASE ReceiveFails
    BY <1>17, SMTT(20) DEF ReceiveFails
<1>18. CASE UNCHANGED vars
    BY <1>18, SMTT(20) DEF vars
<1>19. ASSUME NEW e \in {"closedsocket", "fault", "cancel"}, SendFails(e) PROVE [Talk!Next]_(Talk!vars)
    BY <1>19, SMTT(20) DEF SendFails
<1>20. ASSUME NEW p \in {"send", "receive"}, Check(p) PROVE [Talk!Next]_(Talk!vars)
    BY <1>20, SMTT(20) DEF Check
<1>21. ASSUME NEW p \in {"main", "send", "receive"}, CloseSock(p) PROVE [Talk!Next]_(Talk!vars)
    BY <1>21, SMTT(20) DEF CloseSock
<1>22. ASSUME NEW p \in {"main", "send", "receive"}, CloseUnlock(p) PROVE [Talk!Next]_(Talk!vars)
    BY <1>22, SMTT(20) DEF CloseUnlock
<1>23. ASSUME NEW p \in {"main", "send", "receive"}, CloseLock(p) PROVE [Talk!Next]_(Talk!vars)
    BY <1>23, SMTT(20) DEF CloseLock
<1>24. ASSUME NEW r \in replies, ReadOpen(r) PROVE [Talk!Next]_(Talk!vars)
    BY <1>24, SMTT(20) DEF ReadOpen
<1>25. ASSUME NEW r \in replies, ReceiveReply(r) PROVE [Talk!Next]_(Talk!vars)
    BY <1>25, SMTT(20) DEF ReceiveReply
<1>26. CASE Accept
    BY <1>26, SMTT(20) DEF Accept
<1>27. ASSUME NEW ct \in live, ExceedDuration(ct) PROVE [Talk!Next]_(Talk!vars)
    BY <1>27, SMTT(20) DEF ExceedDuration
<1>28. ASSUME NEW ct \in live, ServeClose(ct) PROVE [Talk!Next]_(Talk!vars)
    BY <1>28, SMTT(20) DEF ServeClose
<1> QED BY <1>1, <1>2, <1>3, <1>4, <1>5, <1>6, <1>7, <1>8, <1>9, <1>10, <1>11, <1>12, <1>13, <1>14, <1>15, <1>16, <1>17, <1>18, <1>19, <1>20, <1>21, <1>22, <1>23, <1>24, <1>25, <1>26, <1>27, <1>28
       DEF Next, Main, Opener, Sender, Receiver, ServerStep, End

-----------------------------------------------------------------------------
(* Who holds closedM, and which errors the goroutines of the test keep.    *)

Tester == {"send", "receive"}

LockTypes ==
    /\ lock \in Proc \cup {"none"} /\ err \in [Tester -> Errors] /\ allSent \in BOOLEAN

\* While a test runs its socket is closed under closedM, or by receive itself.
Locking ==
    /\ \A p \in Proc : pc[p] \in {"sock", "set"} <=> lock = p
    /\ lock # "none" => ~closed
    /\ pc["receive"] \in {"init", "read"} /\ sock = "closed" => closed \/ lock # "none"
    /\ At("receive", "check") /\ err["receive"] = "closedsocket" => closed \/ lock # "none"
    /\ At("receive", "sockonly") => err["receive"] = "serverclosed"
    /\ pc["receive"] \in {"none", "init", "read"} => err["receive"] = "none"
    /\ pc["receive"] \in Closed => err["receive"] # "closedsocket"

\* Why a goroutine of the test ends.
Reason(p) == err[p] # "none" \/ (p = "send" /\ allSent)

\* The goroutine that closes has a reason and keeps it.
Reasons ==
    /\ \A p \in Tester : /\ pc[p] \in {"check", "sockonly", "sock", "set"} => Reason(p)
                         /\ At(p, "close") => Reason(p) \/ closed
    /\ At("send", "wait") => allSent
    /\ closed /\ pc["send"] # "none" => \E p \in Tester : At(p, "ended") /\ Reason(p)

LInv == LockTypes /\ Locking /\ Reasons

\* Every step keeps it.
LEMMA LockStep == IInv /\ LInv /\ [Next]_vars => LInv'
<1> SUFFICES ASSUME IInv, LInv, [Next]_vars PROVE LInv'
    OBVIOUS
<1> USE DEF IInv, Types, Stopping, Opening, Closed, Proc, At, Goto, IsClosed,
            ClosePacket, SendClose, CloseSocket, CloseConn,
            LInv, LockTypes, Locking, Reasons, Reason, Tester, Errors,
            runVars, openVars, connVars, closeVars, testVars, netVars
<1>1. CASE SendOpen
    BY <1>1, SMTT(20) DEF SendOpen
<1>2. CASE Timeout
    BY <1>2, SMTT(20) DEF Timeout
<1>3. CASE OpenResult
    BY <1>3, SMTT(20) DEF OpenResult
<1>4. CASE OpenFails
    BY <1>4, SMTT(20) DEF OpenFails
<1>5. CASE Connected
    BY <1>5, SMTT(20) DEF Connected, Handshake, Opened
<1>6. CASE TestEnds
    BY <1>6, SMTT(20) DEF TestEnds
<1>7. CASE CancelOpen
    BY <1>7, SMTT(20) DEF CancelOpen
<1>8. CASE CheckFails
    BY <1>8, SMTT(20) DEF CheckFails
<1>9. CASE ParseOpen
    BY <1>9, SMTT(20) DEF ParseOpen
<1>10. CASE ReadOpenFails
    BY <1>10, SMTT(20) DEF ReadOpenFails
<1>11. CASE InitDone
    BY <1>11, SMTT(20) DEF InitDone
<1>12. CASE AllSent
    BY <1>12, SMTT(20) DEF AllSent
<1>13. CASE EndWait
    BY <1>13, SMTT(20) DEF EndWait
<1>14. CASE InitFails
    BY <1>14, SMTT(20) DEF InitFails
<1>15. CASE ReceiveInitFails
    BY <1>15, SMTT(20) DEF ReceiveInitFails
<1>16. CASE ReceiveCloses
    BY <1>16, SMTT(20) DEF ReceiveCloses
<1>17. CASE ReceiveFails
    BY <1>17, SMTT(20) DEF ReceiveFails
<1>18. CASE UNCHANGED vars
    BY <1>18, SMTT(20) DEF vars
<1>19. ASSUME NEW e \in {"closedsocket", "fault", "cancel"}, SendFails(e) PROVE LInv'
    BY <1>19, SMTT(20) DEF SendFails
<1>20. ASSUME NEW p \in {"send", "receive"}, Check(p) PROVE LInv'
    BY <1>20, SMTT(20) DEF Check
<1>21. ASSUME NEW p \in {"main", "send", "receive"}, CloseSock(p) PROVE LInv'
    BY <1>21, SMTT(20) DEF CloseSock
<1>22. ASSUME NEW p \in {"main", "send", "receive"}, CloseUnlock(p) PROVE LInv'
    BY <1>22, SMTT(20) DEF CloseUnlock
<1>23. ASSUME NEW p \in {"main", "send", "receive"}, CloseLock(p) PROVE LInv'
    BY <1>23, SMTT(20) DEF CloseLock
<1>24. ASSUME NEW r \in replies, ReadOpen(r) PROVE LInv'
    BY <1>24, SMTT(20) DEF ReadOpen
<1>25. ASSUME NEW r \in replies, ReceiveReply(r) PROVE LInv'
    BY <1>25, SMTT(20) DEF ReceiveReply
<1>26. CASE Accept
    BY <1>26, SMTT(20) DEF Accept
<1>27. ASSUME NEW ct \in live, ExceedDuration(ct) PROVE LInv'
    BY <1>27, SMTT(20) DEF ExceedDuration
<1>28. ASSUME NEW ct \in live, ServeClose(ct) PROVE LInv'
    BY <1>28, SMTT(20) DEF ServeClose
<1> QED BY <1>1, <1>2, <1>3, <1>4, <1>5, <1>6, <1>7, <1>8, <1>9, <1>10, <1>11, <1>12, <1>13, <1>14, <1>15, <1>16, <1>17, <1>18, <1>19, <1>20, <1>21, <1>22, <1>23, <1>24, <1>25, <1>26, <1>27, <1>28
       DEF Next, Main, Opener, Sender, Receiver, ServerStep, End

-----------------------------------------------------------------------------
(* How many connections the server makes, and what their tokens are.       *)

Counts ==
    /\ try \in 1..Tries /\ opens \in Nat
    /\ opens + made + (IF At("main", "send") THEN 1 ELSE 0) <= try
    /\ live \subseteq 1..made /\ closes \subseteq 1..made
    /\ ctoken \in 0..made /\ got.token \in 0..made
    /\ \A r \in replies : r.token \in 0..made
    /\ event \in {"none", "connected", "connectedclosed"}
    /\ openErr \in {"none", "fault", "closedsocket", "serverclosed"}

\* Every step keeps it.
LEMMA CountStep == IInv /\ Counts /\ [Next]_vars => Counts'
<1> SUFFICES ASSUME IInv, Counts, [Next]_vars PROVE Counts'
    OBVIOUS
<1> USE SessionAssumption DEF IInv, Types, Opening, Closed, Proc, At, Goto, Reply, Counts,
            ClosePacket, SendClose, CloseSocket, CloseConn, OpenReply, Closing,
            runVars, openVars, connVars, closeVars, testVars, netVars
<1>1. CASE SendOpen
    BY <1>1, SMTT(20) DEF SendOpen
<1>2. CASE Timeout
    <2>1. /\ opens' = opens /\ made' = made /\ live' = live /\ closes' = closes /\ ctoken' = ctoken
          /\ got' = got /\ replies' = replies /\ event' = event /\ openErr' = openErr
        BY <1>2 DEF Timeout
    <2>2. ~At("main", "send")
        BY <1>2 DEF Timeout
    <2>3. CASE try < Tries
        <3>1. try' = try + 1
            BY <1>2, <2>3 DEF Timeout
        <3> QED BY <2>1, <2>2, <2>3, <3>1
    <2>4. CASE ~(try < Tries)
        <3>1. try' = try /\ ~At("main", "send")'
            BY <1>2, <2>4 DEF Timeout
        <3> QED BY <2>1, <2>2, <3>1
    <2> QED BY <2>3, <2>4
<1>3. CASE OpenResult
    BY <1>3, SMTT(20) DEF OpenResult
<1>4. CASE OpenFails
    BY <1>4, SMTT(20) DEF OpenFails
<1>5. CASE Connected
    BY <1>5, SMTT(20) DEF Connected
<1>6. CASE TestEnds
    BY <1>6, SMTT(20) DEF TestEnds
<1>7. CASE CancelOpen
    BY <1>7, SMTT(20) DEF CancelOpen
<1>8. CASE CheckFails
    BY <1>8, SMTT(20) DEF CheckFails
<1>9. CASE ParseOpen
    BY <1>9, SMTT(20) DEF ParseOpen
<1>10. CASE ReadOpenFails
    BY <1>10, SMTT(20) DEF ReadOpenFails
<1>11. CASE InitDone
    BY <1>11, SMTT(20) DEF InitDone
<1>12. CASE AllSent
    BY <1>12, SMTT(20) DEF AllSent
<1>13. CASE EndWait
    BY <1>13, SMTT(20) DEF EndWait
<1>14. CASE InitFails
    BY <1>14, SMTT(20) DEF InitFails
<1>15. CASE ReceiveInitFails
    BY <1>15, SMTT(20) DEF ReceiveInitFails
<1>16. CASE ReceiveCloses
    BY <1>16, SMTT(20) DEF ReceiveCloses
<1>17. CASE ReceiveFails
    BY <1>17, SMTT(20) DEF ReceiveFails
<1>18. CASE UNCHANGED vars
    BY <1>18, SMTT(20) DEF vars
<1>19. ASSUME NEW e \in {"closedsocket", "fault", "cancel"}, SendFails(e) PROVE Counts'
    BY <1>19, SMTT(20) DEF SendFails
<1>20. ASSUME NEW p \in {"send", "receive"}, Check(p) PROVE Counts'
    BY <1>20, SMTT(20) DEF Check
<1>21. ASSUME NEW p \in {"main", "send", "receive"}, CloseSock(p) PROVE Counts'
    BY <1>21, SMTT(20) DEF CloseSock
<1>22. ASSUME NEW p \in {"main", "send", "receive"}, CloseUnlock(p) PROVE Counts'
    BY <1>22, SMTT(20) DEF CloseUnlock
<1>23. ASSUME NEW p \in {"main", "send", "receive"}, CloseLock(p) PROVE Counts'
    <2>1. /\ try' = try /\ opens' = opens /\ made' = made /\ live' = live
          /\ ctoken' = ctoken /\ event' = event
        BY <1>23 DEF CloseLock
    <2>2. got' = got /\ openErr' = openErr /\ replies' = replies
        BY <1>23 DEF CloseLock
    <2>3. ~At("main", "send")' \/ pc'["main"] = pc["main"]
        BY <1>23 DEF CloseLock
    <2>4. closes' \in {closes, closes \cup {ctoken}} /\ (ctoken = 0 => closes' = closes)
        BY <1>23 DEF CloseLock
    <2>5. closes' \subseteq 1..made
        BY <2>4
    <2> QED BY <2>1, <2>2, <2>3, <2>5
<1>24. ASSUME NEW r \in replies, ReadOpen(r) PROVE Counts'
    <2>1. /\ try' = try /\ opens' = opens /\ made' = made /\ live' = live
          /\ ctoken' = ctoken /\ event' = event
        BY <1>24 DEF ReadOpen
    <2>2. got' = r /\ openErr' \in {openErr, "serverclosed"} /\ replies' \subseteq replies
        BY <1>24 DEF ReadOpen
    <2>3. ~At("main", "send")' \/ pc'["main"] = pc["main"]
        BY <1>24 DEF ReadOpen
    <2>4. closes' \in {closes, closes \cup {ctoken}} /\ (ctoken = 0 => closes' = closes)
        BY <1>24 DEF ReadOpen
    <2>5. closes' \subseteq 1..made
        BY <2>4
    <2> QED BY <2>1, <2>2, <2>3, <2>5
<1>25. ASSUME NEW r \in replies, ReceiveReply(r) PROVE Counts'
    <2>1. /\ try' = try /\ opens' = opens /\ made' = made /\ live' = live
          /\ ctoken' = ctoken /\ event' = event
        BY <1>25 DEF ReceiveReply
    <2>2. got' = got /\ openErr' = openErr /\ replies' \subseteq replies
        BY <1>25 DEF ReceiveReply
    <2>3. ~At("main", "send")' \/ pc'["main"] = pc["main"]
        BY <1>25 DEF ReceiveReply
    <2>4. closes' \in {closes, closes \cup {ctoken}} /\ (ctoken = 0 => closes' = closes)
        BY <1>25 DEF ReceiveReply
    <2>5. closes' \subseteq 1..made
        BY <2>4
    <2> QED BY <2>1, <2>2, <2>3, <2>5
<1>26. CASE Accept
    <2>1. /\ try' = try /\ pc' = pc /\ closes' = closes /\ ctoken' = ctoken
          /\ got' = got /\ event' = event /\ openErr' = openErr /\ opens' = opens - 1 /\ opens > 0
        BY <1>26 DEF Accept
    <2>2. CASE noTest
        <3>1. made' = made /\ live' = live /\ replies' = replies \cup {OpenReply(0, TRUE)}
            BY <1>26, <2>2 DEF Accept
        <3> QED BY <2>1, <3>1
    <2>3. CASE ~noTest
        <3>1. /\ made' = made + 1 /\ live' = live \cup {made + 1}
              /\ replies' = replies \cup {OpenReply(made + 1, FALSE)}
            BY <1>26, <2>3 DEF Accept
        <3> QED BY <2>1, <3>1
    <2> QED BY <2>2, <2>3
<1>27. ASSUME NEW ct \in live, ExceedDuration(ct) PROVE Counts'
    BY <1>27, SMTT(20) DEF ExceedDuration
<1>28. ASSUME NEW ct \in live, ServeClose(ct) PROVE Counts'
    BY <1>28, SMTT(20) DEF ServeClose
<1> QED BY <1>1, <1>2, <1>3, <1>4, <1>5, <1>6, <1>7, <1>8, <1>9, <1>10, <1>11, <1>12, <1>13, <1>14, <1>15, <1>16, <1>17, <1>18, <1>19, <1>20, <1>21, <1>22, <1>23, <1>24, <1>25, <1>26, <1>27, <1>28
       DEF Next, Main, Opener, Sender, Receiver, ServerStep, End

-----------------------------------------------------------------------------
\* The invariants of a client that has not sent anything.
LEMMA InitOther == Init => LInv /\ Counts
<1> SUFFICES ASSUME Init PROVE LInv /\ Counts
    OBVIOUS
<1> USE DEF Init, Proc, At
<1>1. LockTypes
    <2>1. err \in [Tester -> Errors]
        BY DEF Tester, Errors
    <2>2. allSent \in BOOLEAN
        BY Zenon
    <2> QED BY <2>1, <2>2 DEF LockTypes
<1>2. Locking /\ Reasons
    BY DEF Locking, Reasons, Closed, Tester
<1>3. Counts
    BY SessionAssumption DEF Counts, OpenReply
<1> QED BY <1>1, <1>2, <1>3 DEF LInv

LEMMA Inductive == Spec => [](IInv /\ LInv /\ Counts)
<1>1. Init => IInv /\ LInv /\ Counts
    BY InitIInv, InitOther
<1>2. IInv /\ LInv /\ Counts /\ [Next]_vars => (IInv /\ LInv /\ Counts)'
    BY Step, LockStep, CountStep
<1> QED BY <1>1, <1>2, PTL DEF Spec

\* The variables keep their types, and the server makes no more connections
\* than there are open timeouts.
THEOREM TypeCorrect == Spec => []TypeOK
<1>1. IInv /\ LInv /\ Counts => TypeOK
    <2> SUFFICES ASSUME IInv, LInv, Counts PROVE TypeOK
        OBVIOUS
    <2> USE SessionAssumption DEF IInv, Types, LInv, LockTypes, Counts, Tester
    <2>1. opens \in 0..Tries /\ made \in 0..Tries
        BY DEF At
    <2>2. live \subseteq Conn /\ closes \subseteq Conn /\ ctoken \in {0} \cup Conn
        BY <2>1 DEF Conn
    <2>3. noTest \in BOOLEAN /\ closed \in BOOLEAN /\ allSent \in BOOLEAN
        OBVIOUS
    <2>4. DOMAIN pc = Proc /\ err \in [{"send", "receive"} -> Errors] /\ lock \in Proc \cup {"none"}
        OBVIOUS
    <2>5. /\ event \in {"none", "connected", "connectedclosed"} /\ try \in 1..Tries
          /\ openErr \in {"none", "fault", "closedsocket", "serverclosed"}
          /\ sock \in {"open", "closed"}
        OBVIOUS
    <2> QED BY <2>1, <2>2, <2>3, <2>4, <2>5 DEF TypeOK
<1> QED BY <1>1, Inductive, PTL

\* open's goroutine and receive never both read the socket.
THEOREM OneReaderHolds == Spec => []OneReader
<1>1. IInv => OneReader
    BY DEF IInv, Stopping, OneReader, At
<1> QED BY <1>1, Inductive, PTL

\* After a test a close packet with the connection's token has been sent.
THEOREM CloseSentHolds == Spec => []CloseSent
<1>1. IInv => CloseSent
    BY DEF IInv, Stopping, CloseSent, Tested, At
<1> QED BY <1>1, Inductive, PTL

\* The error of reading a socket the client itself closed is not reported.
THEOREM ReceiveErrRealHolds == Spec => []ReceiveErrReal
<1>1. IInv /\ LInv => ReceiveErrReal
    BY DEF IInv, Types, Stopping, LInv, Locking, ReceiveErrReal, Tested, At, Opening, Closed
<1> QED BY <1>1, Inductive, PTL

\* A test that ended before everything was sent has an error in its result.
THEOREM NoSilentStopHolds == Spec => []NoSilentStop
<1>1. IInv /\ LInv => NoSilentStop
    BY DEF IInv, Types, Stopping, LInv, Reasons, Reason, Tester, NoSilentStop, Tested, At
<1> QED BY <1>1, Inductive, PTL

\* Session implements the safety of Conversation: what the goroutines do to
\* the connection is what its promises allow.
THEOREM Implements == Spec => Talk!Init /\ [][Talk!Next]_(Talk!vars)
<1>1. Init => Talk!Init
    BY DEF Init, Talk!Init, Phase, At, Proc
<1> QED BY <1>1, Inductive, ConversationStep, PTL DEF Spec
=============================================================================
