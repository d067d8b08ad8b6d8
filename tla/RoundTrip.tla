----------------------------- MODULE RoundTrip -----------------------------
(***************************************************************************)
(* A round-trip test from end to end: the send and receive goroutines of   *)
(* the client with the Recorder they share (client.go, recorder.go), a     *)
(* network that loses, repeats and reorders packets both ways, the echo of *)
(* the server with its received window and count (serveEcho of sconn.go),  *)
(* and the result computed when both goroutines have ended (newResult of   *)
(* result.go).  In a one-way test the server records what it receives and  *)
(* answers nothing (serveNoEcho, onewayrecorder.go).                       *)
(*                                                                         *)
(* The connection is open; a request that the server drops for any of its  *)
(* limits is a request lost.  The client asked for both received stats.    *)
(***************************************************************************)
EXTENDS Window, Sequences, FiniteSets

CONSTANTS
    Multiply,            \* packets sent at each interval
    MaxSend,             \* bound: requests sent
    MaxServed,           \* bound: requests the server receives, repeats included
    MaxReceived          \* bound: replies the client receives, repeats included

ASSUME RoundTripAssumption ==
    /\ Multiply \in Nat \ {0}
    /\ MaxSend \in Nat /\ MaxSend <= SeqMod
    /\ MaxServed \in Nat /\ MaxReceived \in Nat

VARIABLES
    \* send goroutine
    spc,         \* "presend", "send", "postsend", "wait", "ended"
    seqno,       \* seqno[j]: of the packet j of the next batch
    j,           \* the packet of the batch being sent
    \* receive goroutine: "run" or "ended"
    rpc,
    failed,      \* recordReceive found no round trip for a reply
    closed,      \* Client.closed
    \* Recorder
    rtd,         \* RoundTripData; that of seqno s is rtd[s + 1]
    sendN,       \* SendCallStats.N
    rttN,        \* RTTStats.N
    duplicates, late, lastSeqno, serverReceived,
    \* server
    trip,        \* params.TripMode, "round" or "oneway"
    sc,          \* lastSeqno, receivedWindow and receivedCount of the sconn
    owr,         \* its OneWayRecorder: trips says of each seqno whether Arrived,
                 \* n is SendDelayStats.N
    \* network
    requests, replies,
    \* history: seqnos the server received; whether in order; whether once each
    served, inOrder, once

sendVars == <<spc, seqno, j>>
recVars  == <<rtd, sendN, rttN, duplicates, late, lastSeqno, serverReceived>>
serverVars == <<trip, sc, owr, served, inOrder, once>>
vars == <<sendVars, rpc, failed, closed, recVars, serverVars, requests, replies>>

NoReplyYet == [received |-> FALSE, window |-> {}]
RoundTripData == [received: BOOLEAN, window: ReceivedWindow]

-----------------------------------------------------------------------------
(* send                                                                    *)

\* recordPreSend
PreSend ==
    /\ spc = "presend"
    /\ Len(rtd) < MaxSend
    /\ rtd' = Append(rtd, NoReplyYet)
    /\ spc' = "send"
    /\ UNCHANGED <<seqno, j, rpc, failed, closed, sendN, rttN, duplicates, late,
                   lastSeqno, serverReceived, serverVars, requests, replies>>

\* conn.send; it fails once the connection is closed.
SendOk ==
    /\ spc = "send" /\ ~closed
    /\ requests' = requests \cup {seqno[j]}
    /\ spc' = "postsend"
    /\ UNCHANGED <<seqno, j, rpc, failed, closed, recVars, serverVars, replies>>

\* conn.send fails: removeLastStamps, and the goroutine ends and closes.
SendError ==
    /\ spc = "send"
    /\ rtd' = SubSeq(rtd, 1, Len(rtd) - 1)
    /\ spc' = "ended" /\ closed' = TRUE
    /\ UNCHANGED <<seqno, j, rpc, failed, sendN, rttN, duplicates, late, lastSeqno,
                   serverReceived, serverVars, requests, replies>>

\* Mutant of PostSend: the seqnos of the next batch leave one out.
PostSendSkip ==
    /\ spc = "postsend"
    /\ sendN' = sendN + 1
    /\ j' = 0 /\ spc' \in {"presend", "wait"}
    /\ seqno' = [k \in 0..Multiply-1 |-> seqno[k] + Multiply + 1]
    /\ UNCHANGED <<rpc, failed, closed, rtd, rttN, duplicates, late, lastSeqno,
                   serverReceived, serverVars, requests, replies>>

\* recordPostSend; after the batch the packets are given their next seqnos,
\* and the test may be over.
PostSend ==
    /\ spc = "postsend"
    /\ sendN' = sendN + 1
    /\ IF j + 1 < Multiply
       THEN /\ j' = j + 1 /\ spc' = "presend" /\ UNCHANGED seqno
       ELSE /\ j' = 0 /\ spc' \in {"presend", "wait"}
            /\ seqno' = [k \in 0..Multiply-1 |-> seqno[k] + Multiply]
    /\ UNCHANGED <<rpc, failed, closed, rtd, rttN, duplicates, late, lastSeqno,
                   serverReceived, serverVars, requests, replies>>

\* The sleep before the next batch is cancelled, which ends the goroutine.
Cancel ==
    /\ spc = "presend" /\ j = 0 /\ sendN > 0
    /\ spc' = "ended" /\ closed' = TRUE
    /\ UNCHANGED <<seqno, j, rpc, failed, recVars, serverVars, requests, replies>>

\* wait: at once if every packet has its reply, or when the timer fires.
EndWait ==
    /\ spc = "wait"
    /\ spc' = "ended" /\ closed' = TRUE
    /\ UNCHANGED <<seqno, j, rpc, failed, recVars, serverVars, requests, replies>>

-----------------------------------------------------------------------------
(* The server                                                              *)

\* What serveEcho and serveNoEcho record of a request on the sconn.
Served(s) ==
    /\ s \in requests /\ sc.receivedCount < MaxServed
    /\ sc' = [lastSeqno |-> s, receivedCount |-> sc.receivedCount + 1,
              receivedWindow |-> SlideWindow(sc.receivedWindow, sc.lastSeqno, s)]
    /\ served' = served \cup {s}
    /\ inOrder' = (inOrder /\ (served = {} \/ s >= sc.lastSeqno))
    /\ once' = (once /\ s \notin served)
    /\ UNCHANGED <<sendVars, rpc, failed, closed, recVars, requests, trip>>

Echo(s) ==
    /\ trip = "round" /\ Served(s)
    /\ replies' = replies \cup {[seqno |-> s, count |-> sc'.receivedCount,
                                 window |-> sc'.receivedWindow]}
    /\ UNCHANGED owr

\* Mutant of Grown: there is no slot after that of the request.
GrownShort(trips, s) ==
    [i \in DOMAIN trips \cup 1..(s + 1) |-> i \in DOMAIN trips /\ trips[i]]

\* recordReceive of the one-way recorder first makes the trips longer than
\* the seqno by two, and cuts off the last for a duplicate.
Grown(trips, s) ==
    [i \in DOMAIN trips \cup 1..(s + 2) |-> i \in DOMAIN trips /\ trips[i]]

RecordOneWay(s) ==
    LET trips == Grown(owr.trips, s)
    IN  IF trips[s + 1]
        THEN owr' = [owr EXCEPT !.trips = SubSeq(trips, 1, Len(trips) - 1),
                                !.duplicates = @ + 1]
        ELSE owr' = [owr EXCEPT !.trips = [trips EXCEPT ![s + 1] = TRUE], !.n = @ + 1,
                                !.late = IF s < owr.lastSeqno THEN @ + 1 ELSE @,
                                !.lastSeqno = s]

\* The trips that say Arrived.
Marked == {s \in 0..Len(owr.trips)-1 : owr.trips[s + 1]}

OneWay(s) ==
    /\ trip = "oneway" /\ Served(s)
    /\ RecordOneWay(s)
    /\ UNCHANGED replies

-----------------------------------------------------------------------------
(* receive                                                                 *)

\* Mutant of IsLate: the seqno just before the last one is not late.
IsLateByOne(s) == s + 1 < lastSeqno

IsLate(s) == s < lastSeqno

\* Mutant of Record: a duplicate is counted as a round trip.
RecordDuplicate(r) ==
    /\ rtd' = [rtd EXCEPT ![r.seqno + 1] = [received |-> TRUE, window |-> r.window]]
    /\ rttN' = rttN + 1
    /\ late' = IF IsLate(r.seqno) THEN late + 1 ELSE late
    /\ lastSeqno' = r.seqno /\ serverReceived' = r.count
    /\ UNCHANGED <<rpc, failed, closed, duplicates>>

\* recordReceive of a reply whose round trip is known.
Record(r) ==
    /\ IF rtd[r.seqno + 1].received
       THEN /\ duplicates' = duplicates + 1
            /\ UNCHANGED <<rtd, rttN, late, lastSeqno, serverReceived>>
       ELSE /\ late' = IF IsLate(r.seqno) THEN late + 1 ELSE late
            /\ lastSeqno' = r.seqno
            /\ rtd' = [rtd EXCEPT ![r.seqno + 1] =
                         [received |-> TRUE, window |-> r.window]]
            /\ rttN' = rttN + 1
            /\ serverReceived' = r.count
            /\ UNCHANGED duplicates
    /\ UNCHANGED <<rpc, failed, closed>>

\* A reply with an unknown seqno: receive returns an error, and closes.
Unknown ==
    /\ failed' = TRUE /\ rpc' = "ended" /\ closed' = TRUE
    /\ UNCHANGED <<rtd, rttN, duplicates, late, lastSeqno, serverReceived>>

Receive(r) ==
    /\ rpc = "run" /\ ~closed /\ rttN + duplicates < MaxReceived
    /\ r \in replies
    /\ IF r.seqno < Len(rtd) THEN Record(r) ELSE Unknown
    /\ UNCHANGED <<sendVars, sendN, serverVars, requests, replies>>

\* The read returns an error, of itself (an ICMP error, a reply refused) or
\* because the connection is closed.
ReadError ==
    /\ rpc = "run"
    /\ rpc' = "ended" /\ closed' = TRUE
    /\ UNCHANGED <<sendVars, failed, recVars, serverVars, requests, replies>>

-----------------------------------------------------------------------------
Init ==
    /\ spc = "presend" /\ seqno = [k \in 0..Multiply-1 |-> k] /\ j = 0
    /\ rpc = "run" /\ failed = FALSE /\ closed = FALSE
    /\ rtd = << >> /\ sendN = 0 /\ rttN = 0 /\ duplicates = 0 /\ late = 0
    /\ lastSeqno = 0 /\ serverReceived = 0
    /\ trip \in {"round", "oneway"}
    /\ owr = [trips |-> << >>, n |-> 0, duplicates |-> 0, late |-> 0, lastSeqno |-> 0]
    /\ sc = [lastSeqno |-> InvalidSeqno, receivedCount |-> 0, receivedWindow |-> {}]
    /\ requests = {} /\ replies = {}
    /\ served = {} /\ inOrder = TRUE /\ once = TRUE

Next ==
    \/ PreSend \/ SendOk \/ SendError \/ PostSend \/ Cancel \/ EndWait
    \/ \E s \in requests : Echo(s) \/ OneWay(s)
    \/ \E r \in replies : Receive(r)
    \/ ReadError

Spec == Init /\ [][Next]_vars

-----------------------------------------------------------------------------
(* The result                                                              *)

Ended == spc = "ended" /\ rpc = "ended"
Sent == 0..Len(rtd)-1
Received(s) == rtd[s + 1].received

\* Result.PacketsReceived
PacketsReceived == rttN + duplicates

\* Reply i says of an earlier packet s whether the server had received it.
Tells(i, s) ==
    /\ i \in Sent /\ Received(i) /\ 0 \in rtd[i + 1].window
    /\ s < i /\ i - s < WindowBits
TellsReceived(i, s) == Tells(i, s) /\ i - s \in rtd[i + 1].window

\* The lost status of packet s in the result: "down" if any reply says that
\* the server received it, else "up" if any reply says anything of it.
Lost(s) ==
    IF Received(s) THEN "false"
    ELSE IF \E i \in Sent : TellsReceived(i, s) THEN "down"
    ELSE IF \E i \in Sent : Tells(i, s) THEN "up"
    ELSE "true"

\* Mutant of Attribute: a round trip with a reply is marked lost.
AttributeAll(lost, i) ==
    [s \in DOMAIN lost |->
       IF s = i /\ Received(i) THEN "false"
       ELSE IF ~Tells(i, s) THEN lost[s]
       ELSE IF TellsReceived(i, s) THEN "down"
       ELSE IF lost[s] \in {"true", "up"} THEN "up" ELSE lost[s]]

\* One turn of the loop of newResult: the window of reply i updates the lost
\* status of the packets before it.
Attribute(lost, i) ==
    [s \in DOMAIN lost |->
       IF s = i /\ Received(i) THEN "false"
       ELSE IF ~Tells(i, s) THEN lost[s]
       ELSE IF TellsReceived(i, s) THEN IF lost[s] # "false" THEN "down" ELSE lost[s]
       ELSE IF lost[s] \in {"true", "up"} THEN "up" ELSE lost[s]]

\* The lost statuses after n turns.
LostAfter[n \in 0..Len(rtd)] ==
    IF n = 0 THEN [s \in Sent |-> "true"] ELSE Attribute(LostAfter[n - 1], n - 1)

LostLoop == LostAfter[Len(rtd)]

-----------------------------------------------------------------------------
(* Properties                                                              *)

\* The variables of the client, the server and the network have the types the
\* code declares, and no seqno is above the last one recorded.
TypeOK ==
    /\ spc \in {"presend", "send", "postsend", "wait", "ended"}
    /\ seqno \in [0..Multiply-1 -> Nat] /\ j \in 0..Multiply-1
    /\ rpc \in {"run", "ended"} /\ failed \in BOOLEAN /\ closed \in BOOLEAN
    /\ rtd \in Seq(RoundTripData) /\ Len(rtd) <= MaxSend
    /\ sendN \in Nat /\ rttN \in Nat /\ duplicates \in Nat /\ late \in Nat
    /\ lastSeqno \in Nat /\ serverReceived \in Nat
    /\ trip \in {"round", "oneway"}
    /\ owr \in [trips: Seq(BOOLEAN), n: Nat, duplicates: Nat, late: Nat, lastSeqno: Seqno]
    /\ sc \in [lastSeqno: Seqno, receivedCount: Nat, receivedWindow: ReceivedWindow]
    /\ requests \subseteq Seqno
    /\ replies \subseteq [seqno: Seqno, count: Nat, window: ReceivedWindow]
    /\ served \subseteq Seqno /\ inOrder \in BOOLEAN /\ once \in BOOLEAN

\* doc/irtt.md: "any packet marked LostDown is guaranteed to be marked
\* properly": the server did receive it, whatever the network did (serveEcho,
\* recordReceive, newResult).
LostDownSound ==
    Ended => \A s \in Sent : Lost(s) = "down" => s \in served /\ ~Received(s)

\* Where requests arrive in order, the marking LostUp is right too: the
\* caveats of doc/irtt.md are about late requests only.
LostUpExact ==
    Ended /\ inOrder => \A s \in Sent : Lost(s) = "up" => s \notin served

\* The nested loop of newResult, with its one pass over the replies in order,
\* computes the status that the replies together justify.
LoopAgrees == Ended => \A s \in Sent : LostLoop[s] = Lost(s)

\* No reply of the server is one that the client has no round trip for:
\* recordPreSend comes before the send, and removeLastStamps only takes back
\* a round trip whose request was not sent.
NoUnknownSeqno == ~failed

\* When the result is computed, the unsigned subtraction SendCallStats.N -
\* RTTStats.N of the packet loss cannot wrap, although a reply may be recorded
\* before recordPostSend of its request, and duplicates arrive.
NoLossUnderflow ==
    /\ rttN = Cardinality({s \in Sent : Received(s)})
    /\ Ended => rttN <= sendN

\* Nor can that of the upstream loss, as long as the network repeats no request.
\* With requests and replies in order, what the client received exceeds what
\* the server did by its duplicates at most, so that the subtraction of the
\* downstream loss cannot wrap as long as there are none.  With a duplicate it
\* can: one request and its reply twice, all in order, give 1 - 2.
NoDirectionUnderflow ==
    /\ Ended /\ once => serverReceived <= sendN
    /\ Ended /\ inOrder /\ late = 0 => PacketsReceived <= serverReceived + duplicates

\* The one-way recorder counts each request once, and as received or as a
\* duplicate; while requests come in order or at most one comes twice it marks
\* those that came and no others, and in order the unsigned subtraction of the
\* result's loss gives the packets that are missing up to the last.  A second
\* duplicate may cut off the mark of a request, which then counts anew, and a
\* late last packet makes the subtraction wrap (onewayresult.go).
OneWayLoss ==
    trip = "oneway" =>
      /\ owr.n + owr.duplicates = sc.receivedCount
      /\ owr.duplicates <= 1 \/ inOrder => Marked = served /\ owr.n = Cardinality(served)
      /\ inOrder => owr.late = 0
      /\ inOrder /\ served # {} =>
           owr.lastSeqno + 1 - owr.n = Cardinality((0..owr.lastSeqno) \ served)

\* doc/irtt-client.md: upstream_loss_percent is "100 * (packets_sent -
\* server_packets_received / packets_sent)", with no condition on duplicates.
UpstreamLoss == Ended => serverReceived <= sendN
=============================================================================
