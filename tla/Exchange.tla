------------------------------ MODULE Exchange ------------------------------
(***************************************************************************)
(* One client and one server from the server's start to the end of a test  *)
(* of two requests, down to the bytes of each packet: the addresses the    *)
(* server listens on, the negotiation of the parameters (cconn.open and    *)
(* accept), the checks of the client, and echo and one-way requests with   *)
(* their received stats, timestamps, fills and HMAC.                       *)
(*                                                                         *)
(* Every combination of settings the code branches on is a scenario.  The  *)
(* network neither loses nor repeats, which are RoundTrip.tla's, and the   *)
(* requests are within the server's limits of time, which are Server.tla's. *)
(* A packet sent and never answered is one the program dropped.            *)
(***************************************************************************)
EXTENDS Packet, Params, Listen

CONSTANT
    Scenario     \* settings: [client, server, bound, ipVer, SetSrcIP, target], and
                 \* delay, a bound: how long each packet of the test may travel

\* What the client's configuration and the server's let through; and the
\* buffer the server reads into, as large as the MTU of its interface, has
\* room for the reply to the longest open request, whatever it restricts.
ASSUME ScenarioAssumption == \A s \in Scenario :
    /\ LET p == s.client.params
       IN  /\ p = [x \in DOMAIN NoParams |-> p[x]]
           /\ p.ProtocolVersion = ProtocolVersion
           /\ p.Duration \in Nat /\ p.Interval \in Nat /\ p.Length \in Nat
           /\ p.ReceivedStats \in SUBSET {"count", "window"} /\ p.TripMode \in {"round", "oneway"}
           /\ p.StampAt \in (SUBSET {"receive", "send"}) \cup {{"midpoint"}}
           /\ p.Clock \in (SUBSET {"wall", "mono"}) \ {{}}
           /\ Named(p.Group, maxGroupLen) /\ Named(p.ServerFill, maxServerFillLen)
    /\ LET c == s.server
       IN  /\ c.MinInterval \in Nat /\ c.MaxDuration \in Nat /\ c.Timeout \in Nat /\ c.MaxLength \in Nat
           /\ c.AllowStamp \in {"none", "single", "dual"}
           /\ Named(c.DefaultFill, maxServerFillLen)
           /\ c.AllowFills \subseteq Seq(STRING)
           /\ c.MTU \in Nat /\ c.MTU >= maxHeaderLen + 8
           /\ c.MTU >= 28 + Len(paramBytes(AcceptedFill(c, restrictParams(c, s.client.params))))
    /\ s.delay \subseteq Nat /\ s.bound \in Seq(Bound)

VARIABLES
    sc,          \* the scenario
    pc,          \* the next step
    err,         \* why the client or the server gave up, or "none"
    now,         \* the true time
    lconn,       \* the listener that gets the client's packets
    spkt,        \* the packet the listener reads into, over and over
    conn,        \* the sconn, or NoConn
    params,      \* the parameters the client uses
    cpkt, rpkt,  \* the packets the client sends from and receives into
    msg,         \* the bytes that travel, with the address they come from
    trips,       \* what the client, or of a one-way test the server, recorded
    truth        \* history: when each request was sent, received and answered

vars == <<sc, pc, err, now, lconn, spkt, conn, params, cpkt, rpkt, msg, trips, truth>>

None == "none"
NoConn == [params |-> NoParams, token |-> 0]
NoTruth == [sent |-> 0, received |-> 0, replied |-> 0, got |-> 0]
Token == 7                           \* the token newCtoken draws

\* What the time sources give: the clocks of client and server that tick
\* alike, and monotonic clocks that have nothing to do with each other.
ClientTime(t, c) == KeepClocks([wall |-> 1000 + t, mono |-> 10 + t], c)
ServerTime(t, c) == KeepClocks([wall |-> 1000 + t, mono |-> 500 + t], c)
BothClocks == {"wall", "mono"}

Fail(e) == pc' = "done" /\ err' = e

-----------------------------------------------------------------------------
(* The server starts: makeListeners, newListener                           *)

Serves(l, target) == l.port = target.port /\
                     (l.ip = target.ip \/ l.ip = IF target.ip \in IPv4s THEN ZeroIP4 ELSE ZeroIP6)

MakeListeners ==
    /\ pc = "listen"
    /\ LET e == ListenError(sc.bound, sc.ipVer)
           ls == {l \in SX!ToSet(Resolved(sc.bound, sc.ipVer)) : Serves(l, sc.target)}
       IN  IF e # None \/ ls = {}
           THEN Fail(IF e # None THEN e ELSE "OpenTimeout") /\ UNCHANGED <<lconn, spkt>>
           ELSE /\ lconn' \in ls
                /\ spkt' = newPacket(0, sc.server.MTU, sc.server.key)
                /\ pc' = "open" /\ UNCHANGED err
    /\ UNCHANGED <<sc, now, conn, params, cpkt, rpkt, msg, trips, truth>>

\* lconn.send: from the address the request was sent to when SetSrcIP is on
\* and the listener's is unspecified, else as the kernel chooses.
ReplySources ==
    IF ~Unspecified(lconn.ip) THEN {lconn.ip}
    ELSE IF sc.SetSrcIP THEN {sc.target.ip}
    ELSE {ip \in SX!ToSet(SX!FlattenSeq([i \in DOMAIN Ifaces |-> Ifaces[i].ips])) :
            ip \in IPv4s <=> sc.target.ip \in IPv4s}

\* A connected socket: what comes from another address does not arrive.
Arrives == msg.src = sc.target.ip

-----------------------------------------------------------------------------
(* Opening                                                                 *)

\* cconn.open: the request
OpenRequest ==
    /\ pc = "open"
    /\ LET p == updateHMAC(setPayload(setFlagBits(newPacket(0, maxHeaderLen, sc.client.key),
                                                  {"open"}), paramBytes(sc.client.params)))
       IN  IF p.ok THEN msg' = [bytes |-> bytes(p), src |-> 0] /\ pc' = "accept" /\ UNCHANGED err
           ELSE Fail("panic") /\ UNCHANGED msg
    /\ UNCHANGED <<sc, now, lconn, spkt, conn, params, cpkt, rpkt, trips, truth>>

\* accept, and the reply
Accepted(ps) == AcceptedFill(sc.server, restrictParams(sc.server, ps))
OpenReplyPacket(p, ps) ==
    updateHMAC(setPayload(setFlagBits(setConnToken(p, Token), {"reply"}), paramBytes(ps)))

\* readOneAndReply of an open request; an error drops it, and every repeat.
Accept ==
    /\ pc = "accept"
    /\ LET r == Received(spkt, msg.bytes)
           p == readReset(r)
       IN  IF readError(r) # None \/ ~parses(payload(p))
           THEN Fail("OpenTimeout") /\ spkt' = p /\ UNCHANGED <<conn, msg>>
           ELSE /\ LET ps == Accepted(parseParams(payload(p)))
                   IN  /\ conn' = [params |-> ps, token |-> Token, fill |-> FillOf(sc.server, ps),
                                   count |-> 0, window |-> 0, lastSeqno |-> -1]
                       /\ spkt' = OpenReplyPacket(p, ps)
                /\ \E src \in ReplySources : msg' = [bytes |-> bytes(spkt'), src |-> src]
                /\ pc' = "opened" /\ UNCHANGED err
    /\ UNCHANGED <<sc, now, lconn, params, cpkt, rpkt, trips, truth>>

\* cconn.open: the reply
Opened ==
    /\ pc = "opened"
    /\ LET r == Received(newPacket(0, maxHeaderLen, sc.client.key), msg.bytes)
           p == addFields(readReset(r), fopenReply, FALSE)
       IN  IF ~Arrives THEN Fail("OpenTimeout") /\ UNCHANGED <<params, cpkt>>
           ELSE IF readError(r) # None THEN Fail(readError(r)) /\ UNCHANGED <<params, cpkt>>
           ELSE IF ~fbufValid(p) \/ ~parses(payload(p))
           THEN Fail("ShortParamBuffer") /\ UNCHANGED <<params, cpkt>>
           ELSE /\ params' = parseParams(payload(p))
                \* newPacket of the client; ctoken is that of the connection
                /\ cpkt' = setConnToken(newPacket(0, params'.Length, sc.client.key), ctoken(p))
                /\ pc' = "check" /\ UNCHANGED err
    /\ UNCHANGED <<sc, now, lconn, spkt, conn, rpkt, msg, trips, truth>>

\* Run, up to the start of the goroutines
Check ==
    /\ pc = "check"
    /\ err' = checkParameters(sc.client.params, params, sc.client.loose)
    /\ pc' = IF err' = None THEN "prepare" ELSE "close"
    /\ rpkt' = newPacket(0, params.Length, sc.client.key)
    /\ UNCHANGED <<sc, now, lconn, spkt, conn, params, cpkt, msg, trips, truth>>

-----------------------------------------------------------------------------
(* The client's test: send and receive                                     *)

OneWay == params.TripMode = "oneway"

\* send: the packet both requests are sent from
Prepared ==
    LET p1 == zeroReceivedStats(addFields(cpkt, fechoRequest, TRUE), params.ReceivedStats)
        p2 == IF OneWay
              THEN setTimestamp(p1, {"send"}, [receive |-> NoTime, send |-> ClientTime(now, params.Clock)])
              ELSE stampZeroes(p1, params.StampAt, params.Clock)
        p3 == setLen(setSeqno(p2, 0), params.Length)
    IN  updateHMAC(fillPayload(p3, IF sc.client.filler = << >> THEN Zero
                                   ELSE <<"fill", sc.client.filler>>))

Prepare ==
    /\ pc = "prepare"
    /\ cpkt' = Prepared
    /\ params' = [params EXCEPT !.Length = cpkt'.len]
    /\ pc' = "send"
    /\ UNCHANGED <<sc, err, now, lconn, spkt, conn, rpkt, msg, trips, truth>>

\* The timestamp of a one-way request is set as it is sent.
ToSend == IF OneWay
          THEN setTimestamp(cpkt, {"send"}, [receive |-> NoTime, send |-> ClientTime(now, params.Clock)])
          ELSE cpkt

\* recordPreSend, the send, and the packet prepared for the next one
Send ==
    /\ pc = "send"
    /\ msg' = [bytes |-> bytes(ToSend), src |-> 0]
    /\ cpkt' = updateHMAC(setSeqno(ToSend, Len(truth) + 1))
    /\ truth' = Append(truth, [NoTruth EXCEPT !.sent = now])
    /\ trips' = IF OneWay THEN trips
                ELSE Append(trips, [client |-> [send |-> ClientTime(now, BothClocks), receive |-> NoTime],
                                    server |-> [send |-> NoTime, receive |-> NoTime], window |-> 0])
    /\ pc' = "serve"
    /\ UNCHANGED <<sc, err, now, lconn, spkt, conn, params, rpkt>>

\* After a request and its reply, or when it has none
Next1 == IF Len(truth) < 2 THEN "send" ELSE "close"

\* receive: the fields expected of the reply
Expected(p) ==
    addTimestampFields(addReceivedStatsFields(addFields(p, fechoReply, FALSE), params.ReceivedStats),
                       params.StampAt, params.Clock)

\* recordReceive of the Recorder
Recorded(p) ==
    [trips EXCEPT ![seqno(p) + 1] =
       [client |-> [send |-> @.client.send, receive |-> ClientTime(now', BothClocks)],
        server |-> timestamp(p),
        window |-> IF isset(p, fRWindow) THEN getNumber(p, fRWindow) ELSE 0]]

\* receive of a reply; any error ends the goroutine, which closes.
Receive ==
    /\ pc = "receive"
    /\ \E d \in sc.delay : now' = now + d
    /\ LET r == Received(rpkt, msg.bytes)
           p == Expected(readReset(r))
           e == IF ~Arrives THEN "Lost"
                ELSE IF readError(r) # None THEN readError(r)
                ELSE IF p.len < params.Length THEN "ShortReply"
                ELSE IF seqno(p) \notin 0..(Len(trips) - 1) THEN "UnexpectedSequenceNumber"
                ELSE None
       IN  /\ rpkt' = IF Arrives THEN p ELSE rpkt
           /\ trips' = IF e = None THEN Recorded(p) ELSE trips
           /\ truth' = IF e = None THEN [truth EXCEPT ![Len(truth)].got = now'] ELSE truth
           /\ pc' = IF e \in {None, "Lost"} THEN Next1 ELSE "close"
           /\ err' = IF e \in {None, "Lost"} THEN err ELSE e
    /\ UNCHANGED <<sc, lconn, spkt, conn, params, cpkt, msg>>

-----------------------------------------------------------------------------
(* The server's part of the test                                           *)

TooLarge(p) == sc.server.MaxLength > 0 /\ p.len > sc.server.MaxLength

\* The two requests come in order: the window and the count as a number.
Counted(c, s) == [c EXCEPT !.count = @ + 1, !.lastSeqno = s,
                           !.window = @ * 2^(s - c.lastSeqno) + 1]

\* serveEcho: the reply made of the request, received a unit of time before
\* it is answered
EchoStamp(at, c) ==
    LET received == ServerTime(now' - 1, BothClocks)
        sent == ServerTime(now', c)
        mid == Midpoint(received, sent)
    IN  IF at = {"midpoint"} THEN [receive |-> mid, send |-> mid]
        ELSE [receive |-> IF "receive" \in at THEN KeepClocks(received, c) ELSE NoTime,
              send |-> IF "send" \in at THEN sent ELSE NoTime]

EchoReply(p, c) ==
    LET ps == c.params
        p1 == setLen(setFlagBits(p, {"reply"}), 0)
        p2 == IF "count" \in ps.ReceivedStats THEN setReceivedCount(p1, c.count) ELSE p1
        p3 == IF "window" \in ps.ReceivedStats THEN setReceivedWindow(p2, c.window) ELSE p2
        p4 == IF ps.StampAt # {} THEN setTimestamp(p3, ps.StampAt, EchoStamp(ps.StampAt, ps.Clock))
              ELSE removeTimestamps(p3)
        p5 == setLen(p4, ps.Length)
    IN  updateHMAC(IF c.fill = sc.server.NoFill THEN p5 ELSE fillPayload(p5, <<"fill", c.fill>>))

\* serveNoEcho: the fields it takes the request to have, and the OneWayRecorder
OneWayFields(p) ==
    addTimestampFields(addReceivedStatsFields(p, {"count", "window"}), {"send"}, BothClocks)
OneWayTrip(p) ==
    [oneway |-> TRUE,
     client |-> [send |-> timestamp(p).send, receive |-> NoTime],
     server |-> [receive |-> ServerTime(now' - 1, BothClocks), send |-> NoTime],
     window |-> getNumber(p, fRWindow)]

\* readOneAndReply of an echo or a one-way request; an error drops it.
Serve ==
    /\ pc = "serve"
    /\ \E d \in sc.delay : now' = now + d + 1
    /\ LET r == Received(spkt, msg.bytes)
           p == addFields(readReset(r), fechoRequest, FALSE)
           c == Counted(conn, seqno(p))
           dropped == \/ readError(r) # None
                      \/ ~fbufValid(p) \/ ctoken(p) # conn.token \/ TooLarge(p)
       IN  IF dropped
           THEN /\ spkt' = readReset(r) /\ pc' = Next1
                /\ UNCHANGED <<conn, msg, trips, truth>>
           ELSE /\ conn' = c
                /\ IF c.params.TripMode = "round"
                   THEN /\ spkt' = EchoReply(p, c)
                        /\ \E src \in ReplySources : msg' = [bytes |-> bytes(spkt'), src |-> src]
                        /\ pc' = "receive" /\ UNCHANGED trips
                   ELSE /\ spkt' = OneWayFields(p)
                        /\ trips' = Append(trips, OneWayTrip(spkt'))
                        /\ pc' = Next1 /\ UNCHANGED msg
                /\ truth' = [truth EXCEPT ![Len(truth)].received = now' - 1, ![Len(truth)].replied = now']
    /\ UNCHANGED <<sc, err, lconn, params, cpkt, rpkt>>

-----------------------------------------------------------------------------
(* Closing                                                                 *)

\* cconn.close
ClosePacket ==
    updateHMAC(setConnToken(setFlagBits(setFields(newPacket(0, maxHeaderLen, sc.client.key),
                                                  fcloseRequest, TRUE), {"close"}), ctoken(cpkt)))

\* The client closes and serveClose removes the sconn.
Close ==
    /\ pc = "close"
    /\ LET r == Received(spkt, bytes(ClosePacket))
           p == addFields(readReset(r), fRequest, FALSE)
       IN  /\ spkt' = p
           /\ conn' = IF readError(r) = None /\ fbufValid(p) /\ ctoken(p) = conn.token
                         /\ "close" \in flags(p) THEN NoConn ELSE conn
    /\ pc' = "done"
    /\ UNCHANGED <<sc, err, now, lconn, params, cpkt, rpkt, msg, trips, truth>>

-----------------------------------------------------------------------------
NoPacket == newPacket(0, 0, NoKey)

Init ==
    /\ sc \in Scenario
    /\ pc = "listen" /\ err = None /\ now = 0
    /\ lconn = [ip |-> 0, port |-> 0, zone |-> 0] /\ conn = NoConn
    /\ spkt = NoPacket /\ cpkt = NoPacket /\ rpkt = NoPacket
    /\ params = sc.client.params
    /\ msg = [bytes |-> << >>, src |-> 0]
    /\ trips = << >> /\ truth = << >>

Next == MakeListeners \/ OpenRequest \/ Accept \/ Opened \/ Check
        \/ Prepare \/ Send \/ Serve \/ Receive \/ Close

Spec == Init /\ [][Next]_vars

-----------------------------------------------------------------------------
(* Properties                                                              *)

Opt(b, T) == IF b THEN T ELSE {}
HeaderRoom == maxHeaderLen - (IF sc.client.key = NoKey THEN 0 ELSE 16)
\* open reads and writes packets of the longest header: what the parameters
\* take with the fields before them must not be longer.
Fits == /\ 4 + Len(paramBytes(sc.client.params)) <= HeaderRoom
        /\ 12 + Len(paramBytes(Accepted(sc.client.params))) <= HeaderRoom
Tested == pc \in {"prepare", "send", "serve", "receive"}

\* The states are well formed, and no packet of client or server ever holds
\* more fields than bytes, which fbuf.go says of its buffers: except where
\* the server takes a one-way request to have more fields than were sent, or
\* dropped an open request that was too short for them.
TypeOK ==
    /\ pc \in {"listen", "open", "accept", "opened", "check", "prepare",
               "send", "serve", "receive", "close", "done"}
    /\ \A p \in {cpkt, rpkt} \cup Opt(~OneWay /\ err # "OpenTimeout", {spkt}) :
         p.ok /\ p.len \in 0..Cap(p) /\ SumLens(p.flen) <= p.len
    /\ Len(truth) \in 0..2 /\ Len(trips) <= Len(truth)

\* After the server accepted, both sides hold the same parameters, those the
\* client asked for as the server restricts them, though they went there and
\* back as bytes; and the test keeps them but for the length its header needs.
ParamsAgreed ==
    /\ pc = "check" /\ Fits => /\ params = conn.params /\ ctoken(cpkt) = conn.token
                               /\ params = Accepted(sc.client.params)
    /\ Tested /\ Fits => [params EXCEPT !.Length = 0] = [conn.params EXCEPT !.Length = 0]

\* What restrictParams of the server does, checkParameters of the client
\* takes, though they are written apart: a loose client refuses only what a
\* server with a very short timeout does to the interval, a strict client
\* tests with exactly what it asked for, and no client with more than that, or
\* more often than once in minRestrictedInterval unless it asked to.
RestrictionAccepted ==
    /\ err = "InvalidServerRestriction" =>
         /\ sc.server.Timeout > 0
         /\ sc.server.Timeout \div maxIntervalTimeoutFactor < minRestrictedInterval
    /\ err = "ServerRestriction" => ~sc.client.loose
    /\ pc = "prepare" /\ Fits =>
         LET asked == sc.client.params
         IN  /\ ~sc.client.loose => params = asked
             /\ params.Duration <= asked.Duration /\ params.Length <= asked.Length
             /\ params.Interval >= asked.Interval \/ params.Interval >= minRestrictedInterval
             /\ params.StampAt = {} <=> (asked.StampAt = {} \/ sc.server.AllowStamp = "none")

\* The reasons for which a test is not answered.
Refused == err \in {"ServerRestriction", "InvalidServerRestriction"}
Unheard == lconn.port = 0 \/ (Unspecified(lconn.ip) /\ ReplySources # {sc.target.ip})
HeaderTooLong == sc.server.MaxLength > 0 /\ cpkt.len > sc.server.MaxLength
StampedAfterHMAC == OneWay /\ sc.client.key # NoKey

\* With the same key on both sides, addresses that reach each other,
\* parameters that fit in an open packet and packets that fit in the server's
\* buffer, the server takes every packet of the client and the client every
\* reply: both requests are recorded and the close request removes the sconn.
\* Not so when the header alone is longer than the server's MaxLength, and
\* not for one-way requests with HMAC, whose timestamp is set after the HMAC.
Answered ==
    pc = "done" /\ ~Refused /\ ~Unheard /\ Fits /\ sc.client.key = sc.server.key =>
      /\ conn = NoConn
      /\ params.Length <= sc.server.MTU /\ ~HeaderTooLong /\ ~StampedAfterHMAC =>
           /\ err = None /\ Len(trips) = 2
           /\ ~OneWay => \A i \in 1..2 : truth[i].got > 0

\* What a recorded round trip must be, from when its request was really sent,
\* received and answered and its reply got: the clocks of the stamps agreed
\* on, and what the recorder computes of them.
MeasuredTrip(trip, t, at, c) ==
    LET first == IF at \in {{"send"}} THEN t.replied ELSE t.received
        last == IF "send" \in at THEN t.replied ELSE t.received
    IN  /\ trip.server.receive = (IF at = {} \/ at = {"send"} THEN NoTime ELSE ServerTime(t.received, c))
        /\ trip.server.send = (IF at = {"midpoint"} THEN ServerTime(t.received, c)
                               ELSE IF "send" \in at THEN ServerTime(t.replied, c) ELSE NoTime)
        /\ RTT(trip) = (t.got - t.sent) - (IF at = {"receive", "send"} THEN t.replied - t.received ELSE 0)
        /\ SendDelay(trip) = IF at # {} /\ "wall" \in c THEN first - t.sent ELSE InvalidDuration
        /\ ReceiveDelay(trip) = IF at # {} /\ "wall" \in c THEN t.got - last ELSE InvalidDuration

\* What a recorded one-way trip must be: the server takes the request to have
\* all stats and both clocks, so the send time is right only as far as it has.
MeasuredOneWay(trip, t, rs, c) ==
    /\ trip.server.receive = ServerTime(t.received, BothClocks)
    /\ rs = {"count", "window"} /\ "wall" \in c => trip.client.send.wall = ClientTime(t.sent, c).wall
    /\ rs = {"count", "window"} /\ c = BothClocks => trip.client.send = ClientTime(t.sent, c)

\* Whatever stats, stamps, clocks, lengths, fills and keys were agreed on,
\* the numbers a side writes into the fields of its packet are the ones the
\* other side reads out of them, and the delays, the RTT and the variation
\* between the packets are those of the network.  Not so for a midpoint of
\* the monotonic clock alone, which the server sends with both clocks.
MeasuresRight ==
    LET at == params.StampAt
        got == {i \in DOMAIN trips : OneWay \/ truth[i].got > 0}
        Way(t) == t.received + (IF at = {"send"} THEN 1 ELSE 0) - t.sent
        Back(t) == t.got - t.replied + (IF "send" \in at THEN 0 ELSE 1)
    IN  pc \in {"send", "close", "done"} /\ ~(at = {"midpoint"} /\ params.Clock = {"mono"}) =>
          /\ \A i \in got :
               IF OneWay THEN MeasuredOneWay(trips[i], truth[i], params.ReceivedStats, params.Clock)
               ELSE /\ MeasuredTrip(trips[i], truth[i], at, params.Clock)
                    /\ trips[i].window = IF "window" \in params.ReceivedStats THEN 2^i - 1 ELSE 0
          /\ got = {1, 2} /\ ~OneWay /\ at # {} =>
               /\ SendIPDV(trips[2], trips[1]) = Way(truth[2]) - Way(truth[1])
               /\ ReceiveIPDV(trips[2], trips[1]) = Back(truth[2]) - Back(truth[1])

\* The server fills its replies with a fill of its own choice or one that its
\* patterns allow, and the one it told the client, unless it was started with
\* another filler than the default one whose name it tells.  A reply that is
\* not filled holds the payload of its request and nothing an earlier packet
\* left in the buffer.
FillAgreed ==
    /\ pc \in {"check", "receive"} =>
         /\ conn.fill = sc.server.Filler \/ \E p \in sc.server.AllowFills : Matches(p, conn.fill)
         /\ Fits /\ params.ServerFill # << >>
              /\ ~(params.ServerFill = sc.server.DefaultFill /\ sc.server.Filler # sc.server.DefaultFill)
            => conn.fill = params.ServerFill
    /\ pc = "receive" =>
         SX!ToSet(payload(spkt)) \subseteq
           {IF conn.fill # sc.server.NoFill THEN <<"fill", conn.fill>>
            ELSE IF sc.client.filler = << >> THEN Zero ELSE <<"fill", sc.client.filler>>}

\* Where the server sends from the address the request was sent to, or listens
\* on it alone, every reply reaches the client's connected socket: that of open
\* and those of the test.
RepliesArrive ==
    pc \in {"opened", "receive"} /\ (sc.SetSrcIP \/ ~Unspecified(lconn.ip)) => Arrives

\* The server listens once on each address it was told to and on no other,
\* though the comparison its addresses are sorted by is not an order; at most
\* one of them serves a target, but for a link-local one of several interfaces.
ListensOnce ==
    pc = "open" =>
      LET r == Resolved(sc.bound, sc.ipVer)
      IN  /\ SX!IsInjective(r)
          /\ SX!ToSet(r) = UNION {SX!ToSet(BoundAddrs(sc.bound[i], sc.ipVer)) : i \in DOMAIN sc.bound}
          /\ \A l1, l2 \in SX!ToSet(r) :
               Serves(l1, sc.target) /\ Serves(l2, sc.target) =>
                 l1 = l2 \/ (l1.ip = l2.ip /\ l1.ip \in LinkLocal)

\* The server listens as it was told to (ListensOnce), and its replies arrive
\* (RepliesArrive).
ListenersRight == ListensOnce /\ RepliesArrive
=============================================================================
