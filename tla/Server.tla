------------------------------- MODULE Server -------------------------------
(***************************************************************************)
(* One listener of the server: the goroutine that reads a packet, handles  *)
(* it to the end and reads the next (readAndReply of server.go), with its  *)
(* connection manager and the connections it keeps.  A listener shares no  *)
(* connection with another one, so every handler below is one atomic step  *)
(* and all concurrency is in what arrives: requests of any client, late,   *)
(* repeated, from another address, for a token that is gone.               *)
(*                                                                         *)
(* A packet that cannot be sent, or whose payload cannot be filled, is the *)
(* choice out' = NoReply after the handler has changed the state.          *)
(***************************************************************************)
EXTENDS SConn, Sequences, FiniteSets

CONSTANTS
    Token,               \* the values newCtoken can draw
    NoToken,             \* ctoken 0, of a connection that was never stored
    Addr,                \* client addresses
    OpenParams,          \* what clients ask for in open requests
    RequestSeqno,        \* seqnos clients send
    RequestLength,       \* request lengths
    CheckExpiredCount,   \* sconns looked at by removeSomeExpired
    MaxTime,             \* bound: the clock stops here
    MaxUses              \* bound: requests served per connection

ASSUME ServerAssumption ==
    /\ NoToken \notin Token
    /\ OpenParams \subseteq Params
    /\ RequestSeqno \subseteq Seqno
    /\ RequestLength \subseteq Nat
    /\ CheckExpiredCount \in Nat \ {0}
    /\ MaxTime \in Nat /\ MaxUses \in Nat

VARIABLES
    now,      \* the clock
    sconns,   \* connmgr.sconns: the connections stored, by token
    out,      \* what the last handler sent, or NoReply
    hist      \* history of the last connection of each token (see below)

vars == <<now, sconns, out, hist>>

NoReply == [kind |-> "none"]
OpenReply(addr, ct, params, close) ==
    [kind |-> "open", addr |-> addr, token |-> ct, params |-> params, close |-> close]
EchoReply(addr, ct, sc, close) ==
    [kind |-> "echo", addr |-> addr, token |-> ct, seqno |-> sc.lastSeqno,
     count |-> sc.receivedCount, window |-> sc.receivedWindow, close |-> close]

Sconn == [raddr: Addr, params: Params, created: Nat, firstUsed: Nat \cup {Never},
          lastUsed: Nat \cup {Never}, packetBucket: 0..BucketSize,
          lastSeqno: Seqno, receivedCount: Nat, receivedWindow: ReceivedWindow]

(***************************************************************************)
(* The history of a connection, which no action reads: when requests were  *)
(* served (uses) and which seqnos (received); whether each was at least as *)
(* high as the one before (inOrder); how many were served past the idle    *)
(* timeout or the duration limit (overtime); how often the result of a     *)
(* one-way test was printed (reports).                                     *)
(***************************************************************************)
NoHistory == [uses |-> << >>, received |-> {}, inOrder |-> TRUE,
              overtime |-> 0, reports |-> 0]
History == [uses: Seq(Nat), received: SUBSET Seqno, inOrder: BOOLEAN,
            overtime: Nat, reports: Nat]

Live == DOMAIN sconns
ExpiredTokens == {ct \in Live : Expired(sconns[ct], now)}

-----------------------------------------------------------------------------
(* The connection manager                                                  *)

\* Mutant of Looked: the loop stops one sconn early.
LookedLess == {S \in SUBSET Live :
                 \/ Cardinality(S) = CheckExpiredCount - 1
                 \/ S = Live /\ Cardinality(Live) < CheckExpiredCount - 1}

\* The sconns removeSomeExpired may look at: Go's map order is random.
Looked == {S \in SUBSET Live :
             \/ Cardinality(S) = CheckExpiredCount
             \/ S = Live /\ Cardinality(Live) < CheckExpiredCount}

\* What is left when those of S that expired are deleted.
Swept(S) == Live \ (S \cap ExpiredTokens)

\* Mutant of Got: get does not delete.
GotKept(ct) == Live \cup {ct}

\* The sconns after get(ct): an expired one is deleted, and still returned.
Got(ct) == Live \ ({ct} \cap ExpiredTokens)

\* Mutant of Store: the call of remove is missing.
StoreKept(ct, sc, closed) ==
    sconns' = [c \in Got(ct) |-> IF c = ct THEN sc ELSE sconns[c]]

\* get(ct), then its sconn becomes sc, then remove(ct) if closed holds.
Store(ct, sc, closed) ==
    LET left == IF closed THEN Live \ {ct} ELSE Got(ct)
    IN  sconns' = [c \in left |-> IF c = ct THEN sc ELSE sconns[c]]

Send(reply) == out' \in {reply, NoReply}

-----------------------------------------------------------------------------
(* Open requests                                                           *)

\* accept.  A one-way recorder that cannot be allocated leaves the sconn
\* stored and sends no reply, which is Send's second outcome.
Accept(addr, params, S, ct) ==
    /\ ct \in Token \ Swept(S)
    /\ LET p  == RestrictParams(params)
           sc == NewSconn(addr, p, now)
       IN  /\ sconns' = [c \in Swept(S) \cup {ct} |->
                           IF c = ct THEN sc ELSE sconns[c]]
           /\ Send(OpenReply(addr, ct, p, FALSE))
    /\ hist' = [hist EXCEPT ![ct] = NoHistory]
    /\ UNCHANGED now

\* accept of a request with the close flag: the sconn is not stored.
AcceptClose(addr, params) ==
    /\ Send(OpenReply(addr, NoToken, RestrictParams(params), TRUE))
    /\ UNCHANGED <<now, sconns, hist>>

-----------------------------------------------------------------------------
(* Requests on a connection                                                *)

\* get finds no sconn: the packet is dropped.
InvalidToken(ct) ==
    /\ ct \notin Live
    /\ out' = NoReply
    /\ UNCHANGED <<now, sconns, hist>>

\* serve refuses the packet, after get: the sender is not the one that
\* opened the connection, or the echo request is too short or too large.
Refuse(ct, addr, length) ==
    /\ ct \in Live
    /\ addr # sconns[ct].raddr \/ BadLength(length)
    /\ Store(ct, sconns[ct], FALSE)
    /\ out' = NoReply
    /\ UNCHANGED <<now, hist>>

\* serveEcho and serveNoEcho up to the drop by the minimum interval.
DropShortInterval(ct, length) ==
    /\ ct \in Live
    /\ ~BadLength(length)
    /\ ShortInterval(sconns[ct], now)
    /\ Store(ct, ShortIntervalSconn(sconns[ct], now), FALSE)
    /\ out' = NoReply
    /\ UNCHANGED <<now, hist>>

\* serveEcho and serveNoEcho of a request that is served.  A one-way request
\* has no reply: its packet goes to the recorder.
Serve(ct, length, seqno) ==
    /\ ct \in Live
    /\ Len(hist[ct].uses) < MaxUses
    /\ ~BadLength(length)
    /\ ~ShortInterval(sconns[ct], now)
    /\ LET sc     == sconns[ct]
           sc2    == ServedSconn(sc, seqno, now)
           closed == DurationExceeded(sc2, now)
       IN  /\ Store(ct, sc2, closed)
           /\ IF sc.params.TripMode = "round"
              THEN Send(EchoReply(sc.raddr, ct, sc2, closed))
              ELSE out' = NoReply
           /\ hist' = [hist EXCEPT ![ct] =
                [uses     |-> Append(@.uses, now),
                 received |-> @.received \cup {seqno},
                 inOrder  |-> @.inOrder /\ (@.uses = << >> \/ seqno >= sc.lastSeqno),
                 overtime |-> IF Expired(sc, now) \/ closed
                              THEN @.overtime + 1 ELSE @.overtime,
                 reports  |-> @.reports]]
    /\ UNCHANGED now

\* serve of a close request: the result of a one-way test is printed.
Close(ct) ==
    /\ ct \in Live
    /\ Store(ct, sconns[ct], TRUE)
    /\ hist' = IF sconns[ct].params.TripMode = "oneway"
               THEN [hist EXCEPT ![ct].reports = @ + 1] ELSE hist
    /\ out' = NoReply
    /\ UNCHANGED now

-----------------------------------------------------------------------------
Tick ==
    /\ now < MaxTime
    /\ now' = now + 1
    /\ out' = NoReply
    /\ UNCHANGED <<sconns, hist>>

Init ==
    /\ now = 0
    /\ sconns = [ct \in {} |-> NewSconn({}, {}, 0)]
    /\ out = NoReply
    /\ hist = [ct \in Token |-> NoHistory]

Open ==
    \E addr \in Addr, params \in OpenParams :
        \/ \E S \in Looked : \E ct \in Token : Accept(addr, params, S, ct)
        \/ AcceptClose(addr, params)

Request ==
    \E ct \in Token :
        \/ InvalidToken(ct)
        \/ \E addr \in Addr, length \in RequestLength : Refuse(ct, addr, length)
        \/ \E length \in RequestLength : DropShortInterval(ct, length)
        \/ \E length \in RequestLength, seqno \in RequestSeqno : Serve(ct, length, seqno)
        \/ Close(ct)

Next == Open \/ Request \/ Tick

Spec == Init /\ [][Next]_vars

-----------------------------------------------------------------------------
(* Properties                                                              *)

\* The variables hold what their declarations in server.go and sconn.go
\* allow; in particular the bucket is never negative nor above the burst.
TypeOK ==
    /\ now \in Nat
    /\ Live \subseteq Token /\ sconns \in [Live -> Sconn]
    /\ out.kind \in {"none", "open", "echo"}
    /\ hist \in [Token -> History]

\* Every bit the server returns in a received window stands for a seqno that
\* was received on the connection, in whatever order requests arrive
\* (serveEcho; doc/irtt.md: "any packet marked LostDown is guaranteed to be
\* marked properly").
WindowSound ==
    \A ct \in Live : \A k \in sconns[ct].receivedWindow :
        SeqSub(sconns[ct].lastSeqno, k) \in hist[ct].received

\* While requests arrive in order the window also misses none.
WindowCompleteInOrder ==
    \A ct \in Live :
        hist[ct].inOrder => WindowHolds(sconns[ct].receivedWindow,
                                       sconns[ct].lastSeqno, hist[ct].received)

\* doc/irtt.md: the window "contains the receipt status of the previous 64
\* packets", with no condition on the order of arrival.
WindowComplete ==
    \A ct \in Live : WindowHolds(sconns[ct].receivedWindow,
                                     sconns[ct].lastSeqno, hist[ct].received)

\* Between any two requests served on a connection, no more were served than
\* the burst and one per minimum interval of the time between them, whatever
\* the dropped requests in between did to the bucket.
RateLimit ==
    \A ct \in Token : LET u == hist[ct].uses IN
        \A j \in 1..Len(u) : \A i \in 1..j :
            (j - i + 1) * MinInterval <= BucketSize + (u[j] - u[i])

\* Past the idle timeout or the duration limit at most one request is still
\* served: get returns the sconn it just deleted, and serveEcho replies to
\* the request that exceeds the duration.
OvertimeOnce == \A ct \in Token : hist[ct].overtime <= 1

\* The result of a one-way test is printed once at most, however often the
\* close request is repeated.
ReportedOnce == \A ct \in Token : hist[ct].reports <= 1

\* A connection used again and still stored was not idle for longer than the
\* timeout in between: none survives its timeout by a late request.
NeverRevived ==
    [][\A ct \in Live \cap DOMAIN sconns' :
         /\ sconns[ct].lastUsed # Never
         /\ sconns'[ct].lastUsed > sconns[ct].lastUsed
         => ~Expired(sconns[ct], now)]_vars

\* The close flag of an echo reply tells the client the truth: with it the
\* connection is gone; without it, it is gone only if it had expired.
CloseFlagHonest ==
    [][LET ct == out'.token IN
       out'.kind = "echo" =>
         IF out'.close THEN ct \notin DOMAIN sconns'
         ELSE ct \in DOMAIN sconns' \/ Expired(sconns[ct], now)]_vars

Opened == ~(DOMAIN sconns' \subseteq Live)

\* While the table is no larger than checkExpiredCount, opening a connection
\* deletes every expired one (removeSomeExpired).
OpenSweeps ==
    [][Opened /\ Cardinality(Live) <= CheckExpiredCount
         => \A ct \in DOMAIN sconns' : ~Expired(sconns'[ct], now)]_vars

\* doc/irtt-server.md: --timeout is the "Timeout for closing connections if no
\* requests received on a connection"; so opening also deletes a connection
\* that was created that long ago and never used.
UnusedSwept ==
    [][Opened /\ Cardinality(Live) <= CheckExpiredCount /\ Timeout # 0
         => \A ct \in DOMAIN sconns' :
              sconns'[ct].lastUsed = Never
                => now - sconns'[ct].created <= Timeout + TimeoutGrace]_vars
=============================================================================
