---------------------------- MODULE ExchangeProofs --------------------------
(***************************************************************************)
(* What the exchange of client and server agrees on, for any settings.     *)
(* First the inductive invariant IInv, which says what the packets of open *)
(* hold, what both sides know of each other and where packets go, and its  *)
(* theorems.  The second part follows the requests and replies of a test   *)
(* through each side, for the invariant TestInv, which says what they hold *)
(* and what was recorded of them, and the theorems that follow from both.  *)
(***************************************************************************)
EXTENDS PacketProofs, Exchange

-----------------------------------------------------------------------------
(* The opening of a connection                                             *)

\* What the client asks for, and what the server leaves of it.
Asked == sc.client.params
Supplied == Accepted(Asked)

\* The request that open sends.
Request == updateHMAC(setPayload(setFlagBits(newPacket(0, maxHeaderLen, sc.client.key), {"open"}),
                                 paramBytes(Asked)))

\* q is the reply that accept makes of what the client asked for.
Replied(q) ==
    /\ sc.server.key = sc.client.key /\ q.key = sc.client.key /\ Cap(q) = sc.server.MTU
    /\ Sendable(q, HeaderOf(q.key) \cup {fConnToken})
    /\ payload(q) = paramBytes(Supplied) /\ ctoken(q) = Token
    /\ flags(q) \subseteq {"open", "reply", "close", "hmac"}
    /\ q.len = 12 + KeyLen(q.key) + Len(paramBytes(Supplied))

\* What travels while the connection is opened.
OpeningInv ==
    /\ pc \in {"open", "accept"} => spkt = newPacket(0, sc.server.MTU, sc.server.key)
    /\ pc = "accept" => /\ 4 + Len(paramBytes(Asked)) <= HeaderRoom
                        /\ msg.bytes = bytes(Request)
    /\ pc = "opened" => Replied(spkt) /\ msg.bytes = bytes(spkt)

\* The connection has the parameters of what the server makes of the request.
Connected ==
    /\ "params" \in DOMAIN conn /\ "token" \in DOMAIN conn
    /\ conn.params = Supplied /\ conn.token = Token

\* All but the fill is right even when the reply was cut.
Known(ps) == \A x \in DOMAIN NoParams \ {"ServerFill"} : ps[x] = Supplied[x]

\* What the sides know of each other from then on.
AgreedInv ==
    /\ pc \in {"opened", "check"} \/ Tested => Connected
    /\ pc = "check" => Known(params)
    /\ pc = "check" /\ Fits => params = Supplied /\ ctoken(cpkt) = Token
    /\ pc = "prepare" => Known(params) /\ checkParameters(Asked, params, sc.client.loose) = None
    /\ pc = "prepare" /\ Fits => params = Supplied
    /\ Tested /\ Fits => [params EXCEPT !.Length = 0] = [Supplied EXCEPT !.Length = 0]

\* Why a test was refused.
RefusedInv ==
    /\ err = "InvalidServerRestriction" =>
         /\ sc.server.Timeout > 0
         /\ sc.server.Timeout \div maxIntervalTimeoutFactor < minRestrictedInterval
    /\ err = "ServerRestriction" => ~sc.client.loose

\* Where the client's packets go and the server's come from.
ReachedInv ==
    /\ pc \notin {"listen", "done"} => Serves(lconn, sc.target)
    /\ pc \in {"opened", "receive"} /\ (sc.SetSrcIP \/ ~Unspecified(lconn.ip)) => Arrives

\* The inductive invariant.
IInv == sc \in Scenario /\ OpeningInv /\ AgreedInv /\ RefusedInv /\ ReachedInv

\* What is known of the parameters asked for and supplied.
LEMMA Settings ==
    ASSUME sc \in Scenario
    PROVE  /\ ParamsTyped(Asked) /\ Asked.ProtocolVersion = ProtocolVersion /\ ServerShaped(sc.server)
           /\ ParamsShaped(Asked) /\ IsBytes(paramBytes(Asked))
           /\ ParamsShaped(Supplied) /\ IsBytes(paramBytes(Supplied)) /\ Allowed(Supplied, sc.server, Asked)
           /\ Short(Supplied)
           /\ sc.server.MTU \in Nat /\ sc.server.MTU >= 100
           /\ sc.server.MTU >= 28 + Len(paramBytes(Supplied))
<1> DEFINE c == sc.server
<1>1. /\ Asked = [x \in DOMAIN NoParams |-> Asked[x]]
      /\ Asked.ProtocolVersion = ProtocolVersion
      /\ Asked.Duration \in Nat /\ Asked.Interval \in Nat /\ Asked.Length \in Nat
      /\ Named(Asked.Group, maxGroupLen) /\ Named(Asked.ServerFill, maxServerFillLen)
      /\ c.MinInterval \in Nat /\ c.MaxDuration \in Nat /\ c.Timeout \in Nat /\ c.MaxLength \in Nat
      /\ c.AllowStamp \in {"none", "single", "dual"}
      /\ Named(c.DefaultFill, maxServerFillLen)
      /\ c.MTU \in Nat /\ c.MTU >= maxHeaderLen + 8
      /\ c.MTU >= 28 + Len(paramBytes(AcceptedFill(c, restrictParams(c, Asked))))
    BY ScenarioAssumption DEF Asked
<1>2. Supplied = AcceptedFill(c, restrictParams(c, Asked))
    BY DEF Supplied, Accepted
<1> HIDE DEF Asked, Supplied, c
<1>3. Len(Asked.Group) \in Nat /\ Len(Asked.ServerFill) \in Nat /\ Len(c.DefaultFill) \in Nat
    BY SMTT(30), <1>1 DEF Named
<1>4. ParamsTyped(Asked) /\ ParamsShaped(Asked)
    BY <1>1, <1>3 DEF ParamsTyped, ParamsShaped
<1>5. ServerShaped(c)
    BY <1>1, <1>3 DEF ServerShaped
<1>6. ParamsShaped(Supplied) /\ Allowed(Supplied, c, Asked)
    BY <1>2, <1>3, <1>4, AllowedIs
<1>7. IsBytes(paramBytes(Asked)) /\ IsBytes(paramBytes(Supplied))
    BY <1>4, <1>6, ParamBytesOf DEF EncodingOf
<1>8. c.MTU >= 100 /\ c.MTU >= 28 + Len(paramBytes(Supplied))
    BY <1>1, <1>2, Caps
<1>9. Short(Supplied)
    <2>1. Supplied.Group = Asked.Group /\ Supplied.ProtocolVersion = ProtocolVersion
        BY <1>6 DEF Allowed
    <2> QED BY <1>1, <1>6, <2>1 DEF Short, Named
<1> QED BY <1>1, <1>4, <1>5, <1>6, <1>7, <1>8, <1>9 DEF c

\* The room for parameters in an open packet.
LEMMA RoomIs == HeaderRoom = 92 - KeyLen(sc.client.key) /\ KeyLen(sc.client.key) \in {0, 16}
BY Caps DEF HeaderRoom, KeyLen

\* The server's new packet.
LEMMA ListenerPacket ==
    ASSUME sc \in Scenario
    PROVE  LET s == newPacket(0, sc.server.MTU, sc.server.key)
           IN  /\ Well(s) /\ s.key = sc.server.key /\ Cap(s) = sc.server.MTU
<1>1. sc.server.MTU \in Int /\ Greater(sc.server.MTU, 92) = sc.server.MTU
    BY Settings DEF Greater
<1> QED BY <1>1, NewPacketIs

-----------------------------------------------------------------------------
(* open, and accept                                                        *)

\* A request that is not too long is what the server reads.
LEMMA RequestIs ==
    ASSUME sc \in Scenario, 4 + Len(paramBytes(Asked)) <= HeaderRoom
    PROVE  /\ Sendable(Request, HeaderOf(Request.key)) /\ Request.key = sc.client.key
           /\ payload(Request) = paramBytes(Asked)
           /\ flags(Request) = {"open"} \cup HMACFlag(sc.client.key)
           /\ Request.len <= 92
<1> DEFINE key == sc.client.key
           b == paramBytes(Asked)
<1>1. IsBytes(b)
    BY Settings
<1>2. 4 + KeyLen(key) + Len(b) <= 92
    BY <1>1, RoomIs DEF IsBytes
<1>3. Request = updateHMAC(setPayload(setFlagBits(newPacket(0, maxHeaderLen, key), {"open"}), b))
    BY DEF Request
<1> HIDE DEF key, b
<1>4. /\ Sendable(Request, HeaderOf(key)) /\ payload(Request) = b /\ Request.key = key
      /\ Request.len = 4 + KeyLen(key) + Len(b)
      /\ flags(Request) = {"open"} \cup HMACFlag(key)
    BY <1>1, <1>2, <1>3, OpenRequestIs
<1> QED BY <1>2, <1>4 DEF key, b

\* Parameters that are too long for the request make the client panic.
LEMMA RequestTooLong ==
    ASSUME sc \in Scenario, ~(4 + Len(paramBytes(Asked)) <= HeaderRoom)
    PROVE  ~Request.ok
<1> DEFINE key == sc.client.key
           b == paramBytes(Asked)
<1>1. IsBytes(b)
    BY Settings
<1>2. 4 + KeyLen(key) + Len(b) > 92
    BY <1>1, RoomIs DEF IsBytes
<1>3. Request = updateHMAC(setPayload(setFlagBits(newPacket(0, maxHeaderLen, key), {"open"}), b))
    BY DEF Request
<1> HIDE DEF key, b
<1> QED BY <1>1, <1>2, <1>3, OpenPanics

\* The state after OpenRequest.
LEMMA OpenRequestStep ==
    ASSUME IInv, OpenRequest
    PROVE  OpeningInv'
<1>1. sc \in Scenario /\ sc' = sc /\ spkt' = spkt /\ pc = "open"
      /\ spkt = newPacket(0, sc.server.MTU, sc.server.key)
    BY DEF IInv, OpeningInv, OpenRequest
<1>2. \/ Request.ok /\ msg'.bytes = bytes(Request) /\ pc' = "accept"
      \/ pc' = "done"
    <2>1. Request = updateHMAC(setPayload(setFlagBits(newPacket(0, maxHeaderLen, sc.client.key),
                                                  {"open"}), paramBytes(sc.client.params)))
        BY DEF Request, Asked
    <2> HIDE DEF Request
    <2> QED BY <2>1 DEF OpenRequest, Fail
<1>3. Request.ok => 4 + Len(paramBytes(Asked)) <= HeaderRoom
    BY <1>1, RequestTooLong
<1>4. HeaderRoom' = HeaderRoom /\ Asked' = Asked /\ Request' = Request
    BY <1>1 DEF HeaderRoom, Asked, Request
<1> QED BY <1>1, <1>2, <1>3, <1>4 DEF OpeningInv

\* What the server reads of the request, and what it replies.
LEMMA AcceptedIs ==
    ASSUME sc \in Scenario, 4 + Len(paramBytes(Asked)) <= HeaderRoom
    PROVE  LET r == Received(newPacket(0, sc.server.MTU, sc.server.key), bytes(Request))
               p == readReset(r)
           IN  /\ readError(r) = "none" <=> sc.server.key = sc.client.key
               /\ sc.server.key = sc.client.key =>
                    /\ parses(payload(p)) /\ parseParams(payload(p)) = Asked
                    /\ Replied(OpenReplyPacket(p, Supplied))
<1> DEFINE s == newPacket(0, sc.server.MTU, sc.server.key)
           q == Request
           r == Received(s, bytes(q))
           t == readReset(r)
           b == paramBytes(Supplied)
           key == sc.client.key
<1>1. /\ Sendable(q, HeaderOf(q.key)) /\ q.key = key /\ payload(q) = paramBytes(Asked)
      /\ flags(q) = {"open"} \cup HMACFlag(key) /\ q.len <= 92
    BY RequestIs
<1>2. Well(s) /\ s.key = sc.server.key /\ Cap(s) = sc.server.MTU
    BY ListenerPacket
<1>3. /\ sc.server.MTU \in Nat /\ sc.server.MTU >= 100 /\ sc.server.MTU >= 28 + Len(b)
      /\ ParamsShaped(Asked) /\ IsBytes(b)
    BY Settings
<1>4. q.len \in Nat
    <2>1. Well(q)
        BY <1>1 DEF Sendable, Framed
    <2> QED BY <2>1, Bounds
<1>5. HMACFlag(key) \subseteq {"hmac"} /\ (key = NoKey => HMACFlag(key) = {})
    BY DEF HMACFlag
<1> HIDE DEF q, s, b, key
<1>6. q.len <= Cap(s)
    BY <1>1, <1>2, <1>3, <1>4
<1>7. readError(Received(s, bytes(q))) = "none" <=> s.key = q.key
    <2>1. flags(q) \subseteq {"open", "reply", "close", "hmac"}
        BY <1>1, <1>5
    <2> DEFINE F == HeaderOf(q.key)
    <2>2. Sendable(q, F)
        BY <1>1
    <2> HIDE DEF F
    <2> QED BY <1>2, <1>6, <2>1, <2>2, KeysDecide, BufferIs
<1>8. ASSUME s.key = key
      PROVE  parses(payload(t)) /\ parseParams(payload(t)) = Asked /\ Replied(OpenReplyPacket(t, Supplied))
    <2>1. payload(readReset(Received(s, bytes(q)))) = payload(q)
        BY <1>1, <1>2, <1>6, <1>8, RequestRead
    <2>2. payload(t) = paramBytes(Asked)
        BY <1>1, <2>1
    <2>3. parses(payload(t)) /\ parseParams(payload(t)) = Asked
        BY <1>3, <2>2, ParamsRead
    <2> DEFINE F == HeaderOf(q.key)
    <2>4. Sendable(q, F) /\ s.key = q.key
        BY <1>1, <1>8
    <2>5. /\ Well(t) /\ t.len = q.len /\ t.tlen = q.len /\ Cap(t) = Cap(s) /\ t.key = q.key
          /\ Layout(t, HeaderOf(q.key)) /\ get(t, fMagic) = Magic /\ flags(t) = flags(q)
        <3> HIDE DEF F
        <3>1. /\ Well(readReset(Received(s, bytes(q))))
              /\ readReset(Received(s, bytes(q))).len = q.len
              /\ readReset(Received(s, bytes(q))).tlen = q.len
              /\ Cap(readReset(Received(s, bytes(q)))) = Cap(s)
              /\ readReset(Received(s, bytes(q))).key = q.key
              /\ Layout(readReset(Received(s, bytes(q))), HeaderOf(q.key))
              /\ get(readReset(Received(s, bytes(q))), fMagic) = Magic
              /\ flags(readReset(Received(s, bytes(q)))) = flags(q)
            BY <1>2, <1>6, <2>4, ReadBack, BufferIs DEF Sendable
        <3> QED BY <3>1
    <2> HIDE DEF t
    <2>6. KeyLen(t.key) \in {0, 16}
        BY DEF KeyLen
    <2>7. t.len + 8 <= Cap(t) /\ t.tlen <= Cap(t) /\ 12 + KeyLen(t.key) + Len(b) <= Cap(t)
        <3>1. Len(b) \in Nat
            BY <1>3 DEF IsBytes
        <3> QED BY SMTT(30), <1>1, <1>2, <1>3, <1>4, <2>5, <2>6, <3>1
    <2>8. t.key = NoKey => "hmac" \notin flags(t)
        BY <1>1, <1>5, <2>5
    <2> DEFINE n == Token
               u == updateHMAC(setPayload(setFlagBits(setConnToken(t, n), {"reply"}), b))
    <2>9. Layout(t, HeaderOf(t.key)) /\ Well(t) /\ get(t, fMagic) = Magic
        BY <2>5
    <2> HIDE DEF n
    <2>10. IsReply(u, t, n, b)
        <3>1. Replyable(t, b)
            BY <1>3, <2>7, <2>8, <2>9 DEF Replyable
        <3> QED BY ONLY <3>1, OpenReplyIs
    <2>11. u = OpenReplyPacket(t, Supplied) /\ n = Token
        BY DEF OpenReplyPacket, b, n
    <2>12. flags(u) \subseteq {"open", "reply", "close", "hmac"}
        BY <1>1, <1>5, <2>5, <2>10 DEF key, IsReply
    <2> HIDE DEF u
    <2>13. Replied(u)
        BY <1>1, <1>2, <1>8, <2>5, <2>10, <2>11, <2>12 DEF Replied, IsReply, b, key
    <2> QED BY <2>3, <2>11, <2>13
<1> QED BY <1>1, <1>2, <1>7, <1>8 DEF q, s, key

\* The state after Accept.
LEMMA AcceptStep ==
    ASSUME IInv, Accept
    PROVE  (pc' = "done" /\ err' = "OpenTimeout") \/ (pc' = "opened" /\ OpeningInv' /\ Connected')
<1>1. /\ sc \in Scenario /\ sc' = sc /\ pc = "accept"
      /\ spkt = newPacket(0, sc.server.MTU, sc.server.key)
      /\ 4 + Len(paramBytes(Asked)) <= HeaderRoom /\ msg.bytes = bytes(Request)
    BY DEF IInv, OpeningInv, Accept
<1> DEFINE r == Received(spkt, msg.bytes)
           p == readReset(r)
<1>2. /\ readError(r) = None <=> sc.server.key = sc.client.key
      /\ sc.server.key = sc.client.key =>
            /\ parses(payload(p)) /\ parseParams(payload(p)) = Asked
            /\ Replied(OpenReplyPacket(p, Supplied))
    BY <1>1, AcceptedIs DEF None
<1> HIDE DEF r
<1>3. CASE readError(r) # None \/ ~parses(payload(p))
    BY <1>3 DEF Accept, Fail, r
<1>4. CASE ~(readError(r) # None \/ ~parses(payload(p)))
    <2>1. Replied(OpenReplyPacket(p, Supplied)) /\ Accepted(parseParams(payload(p))) = Supplied
        BY <1>2, <1>4 DEF Supplied
    <2>2. /\ conn' = [params |-> Supplied, token |-> Token, fill |-> FillOf(sc.server, Supplied),
                      count |-> 0, window |-> 0, lastSeqno |-> -1]
          /\ spkt' = OpenReplyPacket(p, Supplied)
          /\ msg'.bytes = bytes(spkt')
          /\ pc' = "opened"
        BY <1>4, <2>1 DEF Accept, r
    <2>3. Asked' = Asked /\ Supplied' = Supplied
        BY <1>1 DEF Asked, Supplied, Accepted
    <2>4. Replied(spkt')
        BY <2>1, <2>2
    <2>5. Replied(spkt)'
        BY <1>1, <2>3, <2>4 DEF Replied
    <2>6. Connected'
        BY <2>2, <2>3 DEF Connected
    <2> QED BY <2>2, <2>5, <2>6 DEF OpeningInv
<1> QED BY <1>3, <1>4

\* What the client reads of the reply: all of it, or its start when no HMAC
\* tells it that the rest is missing.
LEMMA OpenedIs ==
    ASSUME sc \in Scenario, NEW q, Replied(q)
    PROVE  LET r == Received(newPacket(0, maxHeaderLen, sc.client.key), bytes(q))
               p == addFields(readReset(r), fopenReply, FALSE)
           IN  /\ readError(r) = "none" => Known(parseParams(payload(p))) /\ ctoken(p) = Token
               /\ Fits => /\ readError(r) = "none" /\ fbufValid(p) /\ parses(payload(p))
                          /\ parseParams(payload(p)) = Supplied /\ ctoken(p) = Token
<1> DEFINE key == sc.client.key
           s == newPacket(0, maxHeaderLen, key)
           p == addFields(readReset(Received(s, bytes(q))), fopenReply, FALSE)
           b == paramBytes(Supplied)
           F == HeaderOf(q.key) \cup {fConnToken}
<1>1. Well(s) /\ s.key = key /\ Cap(s) = 92
    <2>1. 92 \in Int /\ Greater(92, 92) = 92 /\ s = newPacket(0, 92, key)
        BY Caps DEF Greater
    <2> HIDE DEF s, key
    <2> QED BY <2>1, NewPacketIs
<1>2. /\ q.key = key /\ Sendable(q, F) /\ payload(q) = b /\ ctoken(q) = Token
      /\ q.len = 12 + KeyLen(key) + Len(b)
    BY DEF Replied
<1>3. ParamsShaped(Supplied) /\ IsBytes(b) /\ Len(b) \in Nat /\ KeyLen(key) \in {0, 16}
    BY Settings DEF IsBytes, KeyLen
<1>4. Fits => q.len <= 92
    BY <1>2, <1>3, RoomIs DEF Fits, Supplied, Asked
<1>5. F = HeaderOf(q.key) \cup fopenReply
    BY DEF fopenReply, HeaderOf
<1> HIDE DEF key, s, b, F
<1>6. CASE q.len <= 92
    <2>1. q.len <= Cap(s) /\ s.key = q.key
        BY <1>1, <1>2, <1>6
    <2> DEFINE G == fopenReply
    <2>2. F = HeaderOf(q.key) \cup G
        BY <1>5
    <2>3. Carries(p, q) /\ Well(p)
        <3>1. p = addFields(readReset(Received(s, bytes(q))), G, FALSE)
            OBVIOUS
        <3> HIDE DEF G, p
        <3> QED BY <1>1, <1>2, <2>1, <2>2, <3>1, FieldsRead, BufferIs DEF Sendable
    <2> HIDE DEF p
    <2>4. payload(p) = payload(q) /\ \A g \in Field \ {fHMAC} : get(p, g) = get(q, g)
        BY <1>2, <2>3, AsSent DEF Sendable
    <2>5. fConnToken \in Field \ {fHMAC}
        BY FieldFacts DEF fConnToken, fHMAC
    <2>6. ctoken(p) = Token
        BY <1>2, <2>4, <2>5 DEF ctoken, getNumber
    <2>7. parses(payload(p)) /\ parseParams(payload(p)) = Supplied
        BY <1>2, <1>3, <2>4, ParamsRead DEF b
    <2>8. Known(Supplied)
        BY DEF Known
    <2>9. fbufValid(p)
        BY <2>3, Caps DEF Well, fbufValid
    <2>10. readError(Received(s, bytes(q))) = "none"
        <3>1. Buffer(s) /\ flags(q) \subseteq {"open", "reply", "close", "hmac"}
            BY <1>1, BufferIs DEF Replied
        <3> QED BY <1>2, <2>1, <3>1, KeysDecide
    <2> QED BY <2>6, <2>7, <2>8, <2>9, <2>10 DEF p, s, key
<1>7. CASE ~(q.len <= 92)
    <2> DEFINE n == Cap(s) - SumLens(q.flen)
    <2>1. q.len > Cap(s) /\ s.key = q.key
        BY <1>1, <1>2, <1>3, <1>7
    <2>2. payload(p) = SubSeq(b, 1, n) /\ SumLens(q.flen) = 12 + KeyLen(q.key) /\ n <= Len(b)
        <3>1. F = HeaderOf(q.key) \cup {fConnToken}
            BY DEF F
        <3> QED BY <1>1, <1>2, <2>1, <3>1, CutRead
    <2> HIDE DEF p
    <2>3. ASSUME q.key # NoKey PROVE readError(Received(s, bytes(q))) # "none"
        <3>1. Framed(q, F) /\ Sealed(q) /\ flags(q) \subseteq {"open", "reply", "close", "hmac"}
            BY <1>2, <2>3 DEF Sendable, Replied
        <3>2. Hashed(q)
            BY <2>3, <3>1, SealedHashed
        <3>3. Buffer(s)
            BY <1>1, BufferIs
        <3> QED BY <2>1, <2>3, <3>1, <3>2, <3>3, CutRefused
    <2>4. ASSUME q.key = NoKey PROVE Known(parseParams(payload(p)))
        <3>1. Short(Supplied)
            BY Settings
        <3>2. n \in Nat /\ n >= 78
            <4>1. KeyLen(q.key) = 0 /\ Cap(s) = 92 /\ SumLens(q.flen) = 12 + KeyLen(q.key)
                BY <1>1, <2>2, <2>4 DEF KeyLen
            <4> QED BY <4>1
        <3> HIDE DEF n
        <3> QED BY <1>3, <2>2, <3>1, <3>2, StartRead DEF Known, b
    <2>5. ctoken(p) = Token
        <3> DEFINE c == CutTo(q, Cap(s))
                   G == fopenReply
        <3>1. Framed(q, F) /\ Buffer(s)
            BY <1>1, <1>2, BufferIs DEF Sendable
        <3>2. /\ Framed(c, F) /\ c.len = Cap(s) /\ c.key = q.key /\ \A g : get(c, g) = get(q, g)
              /\ Received(s, bytes(q)) = Received(s, bytes(c))
            BY <2>1, <3>1, CutIs
        <3> HIDE DEF c
        <3>3. p = addFields(readReset(Received(s, bytes(c))), G, FALSE)
            BY <3>2 DEF p
        <3>4. Framed(c, F) /\ Buffer(s) /\ c.len <= Cap(s) /\ s.key = c.key /\ F = HeaderOf(c.key) \cup G
            BY <1>1, <1>5, <2>1, <3>1, <3>2
        <3> HIDE DEF G
        <3> DEFINE w == addFields(readReset(Received(s, bytes(c))), G, FALSE)
        <3>5. /\ Well(w) /\ Carries(w, c) /\ w.tlen = c.len /\ w.key = c.key /\ Cap(w) = Cap(s)
              /\ \A g \in Field \ {fHMAC} : get(w, g) = get(c, g)
              /\ payload(w) = payload(c) /\ flags(w) = flags(c)
            BY ONLY <3>4, FieldsRead
        <3> HIDE DEF w
        <3>6. fConnToken \in Field \ {fHMAC} /\ p = w
            BY <3>3, FieldFacts DEF fConnToken, fHMAC, w
        <3>7. get(p, fConnToken) = get(q, fConnToken)
            BY <3>2, <3>5, <3>6
        <3> QED BY <1>2, <3>7 DEF ctoken, getNumber
    <2> QED BY <1>4, <1>7, <2>3, <2>4, <2>5 DEF p, s, key
<1> QED BY <1>6, <1>7

\* The errors of reading and of listening are not those of a refusal.
LEMMA ErrorNames ==
    /\ \A r : readError(r) \notin {"ServerRestriction", "InvalidServerRestriction"}
    /\ \A b, v : ListenError(b, v) \notin {"ServerRestriction", "InvalidServerRestriction"}
<1>1. ASSUME NEW r PROVE packetError(r) \in {"BadMagic", "InvalidFlagBitsSet", "NoHMAC",
                                             "UnexpectedHMAC", "BadHMAC", "none"}
    BY DEF packetError
<1>2. ASSUME NEW r PROVE readError(r) \notin {"ServerRestriction", "InvalidServerRestriction"}
    BY <1>1 DEF readError
<1>3. ASSUME NEW b PROVE IfaceError(b) \in {"NoMatchingInterfaces", "NoMatchingInterfacesUp", "none"}
    BY DEF IfaceError
<1>4. ASSUME NEW b, NEW v PROVE ListenError(b, v) \notin {"ServerRestriction", "InvalidServerRestriction"}
    <2> DEFINE failed == {i \in DOMAIN b : "iface" \in DOMAIN b[i] /\ IfaceError(b[i]) # "none"}
               x == b[CHOOSE i \in failed : \A j \in failed : i <= j]
    <2>1. ListenError(b, v) \in {IfaceError(x), "UnspecifiedWithSpecifiedAddresses",
                                 "NoSuitableAddressFound", "none"}
        BY DEF ListenError
    <2> HIDE DEF x
    <2> QED BY <1>3, <2>1
<1> QED BY <1>2, <1>4

\* The state after Opened.
LEMMA OpenedStep ==
    ASSUME IInv, Opened
    PROVE  \/ pc' = "done" /\ err' \notin {"ServerRestriction", "InvalidServerRestriction"}
           \/ /\ pc' = "check" /\ err' = err
              /\ Known(params)' /\ (Fits => params' = Supplied /\ ctoken(cpkt') = Token)
<1>1. /\ sc \in Scenario /\ sc' = sc /\ pc = "opened" /\ Replied(spkt) /\ msg.bytes = bytes(spkt)
    BY DEF IInv, OpeningInv, Opened
<1> DEFINE key == sc.client.key
           r == Received(newPacket(0, maxHeaderLen, key), msg.bytes)
           p == addFields(readReset(r), fopenReply, FALSE)
           ps == parseParams(payload(p))
<1>2. (readError(r) = "none" => Known(ps)) /\ (Fits => ps = Supplied /\ ctoken(p) = Token)
    BY <1>1, OpenedIs
<1>3. \/ pc' = "done" /\ err' \in {"OpenTimeout", readError(r), "ShortParamBuffer"}
      \/ /\ pc' = "check" /\ err' = err /\ params' = ps /\ readError(r) = "none"
         /\ cpkt' = setConnToken(newPacket(0, params'.Length, key), ctoken(p))
    <2> HIDE DEF p, r
    <2> QED BY DEF Opened, Fail, None, p, r
<1> HIDE DEF r, ps
<1>4. CASE pc' = "done" /\ err' \in {"OpenTimeout", readError(r), "ShortParamBuffer"}
    BY <1>4, ErrorNames
<1> DEFINE ct == ctoken(p)
           l == params'.Length
           x == newPacket(0, l, key)
<1>5. CASE /\ pc' = "check" /\ err' = err /\ params' = ps /\ readError(r) = "none"
           /\ cpkt' = setConnToken(x, ct)
    <2>1. l \in Int
        <3>1. l = Supplied.Length
            BY <1>2, <1>5, ParamNames DEF Known
        <3>2. Allowed(Supplied, sc.server, Asked) /\ ServerShaped(sc.server) /\ ParamsTyped(Asked)
            BY <1>1, Settings
        <3>3. Supplied.Length \in {sc.server.MaxLength, Asked.Length}
            BY <3>2 DEF Allowed
        <3>4. sc.server.MaxLength \in Nat /\ Asked.Length \in Nat
            BY <3>2 DEF ServerShaped, ParamsTyped
        <3> HIDE DEF l
        <3> QED BY <3>1, <3>3, <3>4
    <2> HIDE DEF l, key, p
    <2>2. Well(x) /\ Layout(x, HeaderOf(key)) /\ Cap(x) = Greater(l, 92)
          /\ x.len = SumLens(x.flen) /\ x.tlen = x.len
        BY <2>1, NewPacketIs
    <2> HIDE DEF x, ct
    <2> DEFINE f == fConnToken
    <2>3. f \in Field /\ fcaps[f] = 8
        BY FieldFacts, Caps DEF fConnToken
    <2>4. x.len <= 20
        <3> DEFINE H == HeaderOf(key)
        <3>1. H \subseteq 1..4 /\ fMagic \in H /\ fFlags \in H /\ fConnToken \notin H
            BY HeaderIs
        <3> HIDE DEF H
        <3>2. Layout(x, H)
            BY <2>2 DEF H
        <3>3. /\ x.flen[fHMAC] = (IF fHMAC \in H THEN 16 ELSE 0)
              /\ x.flen[fConnToken] = (IF fConnToken \in H THEN 8 ELSE 0)
              /\ SumLens(x.flen) = 4 + x.flen[fHMAC] + x.flen[fConnToken]
            BY <3>1, <3>2, OpenLayout
        <3> QED BY <2>2, <3>1, <3>3
    <2>5. Room(x, f)
        <3>1. Greater(l, 92) \in Int /\ Greater(l, 92) >= 92
            BY <2>1 DEF Greater
        <3>2. x.len \in Nat
            BY <2>2, Bounds
        <3> QED BY <2>2, <2>3, <2>4, <3>1, <3>2 DEF Room
    <2>6. getNumber(setNumber(x, f, ct), f) = ct
        <3> HIDE DEF f
        <3> QED BY <2>2, <2>3, <2>5, NumberSet
    <2>7. ctoken(cpkt') = ct
        BY <1>5, <2>6 DEF ctoken, setConnToken
    <2>8. Supplied' = Supplied
        BY <1>1 DEF Supplied, Accepted, Asked
    <2>9. Known(params)'
        BY <1>2, <1>5, <2>8 DEF Known
    <2> QED BY <1>2, <1>5, <2>7, <2>9 DEF ct
<1> QED BY <1>3, <1>4, <1>5 DEF x

-----------------------------------------------------------------------------
(* The invariant, step by step                                             *)

\* What does not change with the scenario.
LEMMA Fixed ==
    ASSUME sc' = sc
    PROVE  /\ Asked' = Asked /\ Supplied' = Supplied /\ HeaderRoom' = HeaderRoom /\ (Fits' <=> Fits)
           /\ \A q : Replied(q)' <=> Replied(q)
<1>1. Asked' = Asked /\ Supplied' = Supplied /\ HeaderRoom' = HeaderRoom
    BY DEF Asked, Supplied, Accepted, HeaderRoom
<1>2. Fits' <=> Fits
    BY <1>1 DEF Fits, Accepted
<1> QED BY <1>1, <1>2 DEF Replied

\* Where a reply that is sent from the right address comes from.
LEMMA SourceRight ==
    ASSUME Serves(lconn, sc.target), sc.SetSrcIP \/ ~Unspecified(lconn.ip), NEW src \in ReplySources
    PROVE  src = sc.target.ip
<1>1. CASE ~Unspecified(lconn.ip)
    <2>1. lconn.ip # ZeroIP4 /\ lconn.ip # ZeroIP6 /\ src = lconn.ip
        BY <1>1 DEF Unspecified, ReplySources
    <2> QED BY <2>1 DEF Serves
<1>2. CASE Unspecified(lconn.ip)
    BY <1>2 DEF ReplySources
<1> QED BY <1>1, <1>2

\* The inductive invariant holds at the start.
LEMMA InitRight == ASSUME Init PROVE IInv
<1>1. sc \in Scenario /\ pc = "listen" /\ err = None
    BY DEF Init
<1>2. OpeningInv
    BY <1>1 DEF OpeningInv
<1>3. AgreedInv
    BY <1>1 DEF AgreedInv, Tested
<1>4. RefusedInv
    BY <1>1 DEF RefusedInv, None
<1>5. ReachedInv
    BY <1>1 DEF ReachedInv
<1> QED BY <1>1, <1>2, <1>3, <1>4, <1>5 DEF IInv

\* The end of a test that failed.
LEMMA Ended ==
    ASSUME IInv, sc' = sc, pc' = "done",
           err' = err \/ err' \notin {"ServerRestriction", "InvalidServerRestriction"}
    PROVE  IInv'
<1>1. sc \in Scenario /\ RefusedInv
    BY DEF IInv
<1>2. OpeningInv'
    BY DEF OpeningInv
<1>3. AgreedInv'
    BY DEF AgreedInv, Tested
<1>4. RefusedInv'
    BY <1>1 DEF RefusedInv
<1>5. ReachedInv'
    BY DEF ReachedInv
<1> QED BY <1>1, <1>2, <1>3, <1>4, <1>5 DEF IInv

\* MakeListeners keeps it.
LEMMA MakeListenersRight == ASSUME IInv, MakeListeners PROVE IInv'
<1>1. sc \in Scenario /\ sc' = sc /\ RefusedInv
    BY DEF IInv, MakeListeners
<1> DEFINE e == ListenError(sc.bound, sc.ipVer)
           ls == {l \in SX!ToSet(Resolved(sc.bound, sc.ipVer)) : Serves(l, sc.target)}
<1>2. \/ pc' = "done" /\ err' \in {e, "OpenTimeout"}
      \/ /\ lconn' \in ls /\ spkt' = newPacket(0, sc.server.MTU, sc.server.key)
         /\ pc' = "open" /\ err' = err
    <2> HIDE DEF e, ls
    <2> QED BY DEF MakeListeners, Fail, e, ls
<1>3. CASE pc' = "done" /\ err' \in {e, "OpenTimeout"}
    BY <1>1, <1>3, Ended, ErrorNames
<1>4. CASE /\ lconn' \in ls /\ spkt' = newPacket(0, sc.server.MTU, sc.server.key)
           /\ pc' = "open" /\ err' = err
    <2>1. Serves(lconn', sc.target)
        BY <1>4
    <2>2. OpeningInv'
        BY <1>1, <1>4 DEF OpeningInv
    <2>3. AgreedInv'
        BY <1>4 DEF AgreedInv, Tested
    <2>4. RefusedInv'
        BY <1>1, <1>4 DEF RefusedInv
    <2>5. ReachedInv'
        BY <1>1, <1>4, <2>1 DEF ReachedInv, Serves
    <2> QED BY <1>1, <2>2, <2>3, <2>4, <2>5 DEF IInv
<1> QED BY <1>2, <1>3, <1>4

\* OpenRequest keeps it.
LEMMA OpenRequestRight == ASSUME IInv, OpenRequest PROVE IInv'
<1>1. sc \in Scenario /\ sc' = sc /\ lconn' = lconn /\ RefusedInv /\ Serves(lconn, sc.target)
    BY DEF IInv, OpenRequest, ReachedInv
<1>2. (pc' = "accept" /\ err' = err) \/ (pc' = "done" /\ err' = "panic")
    BY DEF OpenRequest, Fail
<1>3. CASE pc' = "done" /\ err' = "panic"
    BY <1>1, <1>3, Ended
<1>4. CASE pc' = "accept" /\ err' = err
    <2>1. OpeningInv'
        BY OpenRequestStep
    <2>2. AgreedInv'
        BY <1>4 DEF AgreedInv, Tested
    <2>3. RefusedInv'
        BY <1>1, <1>4 DEF RefusedInv
    <2>4. ReachedInv'
        BY <1>1, <1>4 DEF ReachedInv, Serves
    <2> QED BY <1>1, <2>1, <2>2, <2>3, <2>4 DEF IInv
<1> QED BY <1>2, <1>3, <1>4

\* Accept keeps it.
LEMMA AcceptRight == ASSUME IInv, Accept PROVE IInv'
<1>1. sc \in Scenario /\ sc' = sc /\ lconn' = lconn /\ RefusedInv /\ Serves(lconn, sc.target)
    BY DEF IInv, Accept, ReachedInv
<1>2. CASE pc' = "done" /\ err' = "OpenTimeout"
    BY <1>1, <1>2, Ended
<1>3. CASE pc' = "opened" /\ OpeningInv' /\ Connected'
    <2>1. err' = err /\ \E src \in ReplySources : msg'.src = src
        BY <1>3 DEF Accept, Fail
    <2>2. AgreedInv'
        BY <1>3 DEF AgreedInv, Tested
    <2>3. RefusedInv'
        BY <1>1, <2>1 DEF RefusedInv
    <2>4. (sc.SetSrcIP \/ ~Unspecified(lconn.ip)) => msg'.src = sc.target.ip
        BY <1>1, <2>1, SourceRight
    <2>5. ReachedInv'
        BY <1>1, <1>3, <2>4 DEF ReachedInv, Serves, Arrives, Unspecified
    <2> QED BY <1>1, <1>3, <2>2, <2>3, <2>5 DEF IInv
<1> QED BY <1>2, <1>3, AcceptStep

\* Opened keeps it.
LEMMA OpenedRight == ASSUME IInv, Opened PROVE IInv'
<1>1. /\ sc \in Scenario /\ sc' = sc /\ lconn' = lconn /\ conn' = conn /\ RefusedInv
      /\ Serves(lconn, sc.target) /\ Connected
    BY DEF IInv, Opened, ReachedInv, AgreedInv
<1>2. CASE pc' = "done" /\ err' \notin {"ServerRestriction", "InvalidServerRestriction"}
    BY <1>1, <1>2, Ended
<1>3. CASE /\ pc' = "check" /\ err' = err
           /\ Known(params)' /\ (Fits => params' = Supplied /\ ctoken(cpkt') = Token)
    <2>1. OpeningInv'
        BY <1>3 DEF OpeningInv
    <2>2. Connected' /\ Supplied' = Supplied /\ (Fits' <=> Fits)
        BY <1>1, Fixed DEF Connected
    <2>3. AgreedInv'
        BY <1>3, <2>2 DEF AgreedInv, Tested
    <2>4. RefusedInv'
        BY <1>1, <1>3 DEF RefusedInv
    <2>5. ReachedInv'
        BY <1>1, <1>3 DEF ReachedInv, Serves
    <2> QED BY <1>1, <2>1, <2>3, <2>4, <2>5 DEF IInv
<1> QED BY <1>2, <1>3, OpenedStep

\* What checkParameters says of parameters that are right in what can be
\* invalid.
LEMMA CheckedIs ==
    ASSUME sc \in Scenario, Known(params)
    PROVE  LET r == checkParameters(Asked, params, sc.client.loose)
           IN  /\ r \in {"none", "ServerRestriction", "InvalidServerRestriction"}
               /\ r = "InvalidServerRestriction" =>
                    /\ sc.server.Timeout > 0
                    /\ sc.server.Timeout \div maxIntervalTimeoutFactor < minRestrictedInterval
               /\ r = "ServerRestriction" => ~sc.client.loose
               /\ r = "none" => /\ params.Duration <= Asked.Duration /\ params.Length <= Asked.Length
                                /\ params.Interval >= Asked.Interval \/ params.Interval >= minRestrictedInterval
               /\ r = "none" /\ ~sc.client.loose =>
                    /\ params.Duration = Asked.Duration /\ params.Interval = Asked.Interval
                    /\ params.Length = Asked.Length /\ params.StampAt = Asked.StampAt
                    /\ params.Clock = Asked.Clock /\ params.DSCP = Asked.DSCP
                    /\ params.ServerFill = Asked.ServerFill
<1> DEFINE cfg == sc.server
           asked == Asked
           loose == sc.client.loose
           q == Supplied
           p == params
<1>1. ServerShaped(cfg) /\ ParamsTyped(asked) /\ Allowed(q, cfg, asked)
    BY Settings
<1>2. q.ProtocolVersion = ProtocolVersion
    BY <1>1 DEF Allowed
<1>3. p.ProtocolVersion = ProtocolVersion /\ p.Duration = q.Duration /\ p.Interval = q.Interval
      /\ p.Length = q.Length
    BY <1>2, ParamNames DEF Known
<1> HIDE DEF cfg, asked, loose, q, p
<1>4. LET r == checkParameters(asked, p, loose)
      IN  /\ r \in {"none", "ServerRestriction", "InvalidServerRestriction"}
          /\ r = "InvalidServerRestriction" =>
               cfg.Timeout > 0 /\ cfg.Timeout \div maxIntervalTimeoutFactor < minRestrictedInterval
          /\ r = "ServerRestriction" => ~loose
          /\ r = "none" => /\ p.Duration <= asked.Duration /\ p.Length <= asked.Length
                           /\ p.Interval >= asked.Interval \/ p.Interval >= minRestrictedInterval
          /\ r = "none" /\ ~loose =>
               /\ p.Duration = asked.Duration /\ p.Interval = asked.Interval
               /\ p.Length = asked.Length /\ p.StampAt = asked.StampAt /\ p.Clock = asked.Clock
               /\ p.DSCP = asked.DSCP /\ p.ServerFill = asked.ServerFill
    BY ONLY <1>1, <1>3, AllowedChecked
<1> QED BY <1>4 DEF cfg, asked, loose, p

\* Check keeps it.
LEMMA CheckRight == ASSUME IInv, Check PROVE IInv'
<1>1. /\ sc \in Scenario /\ sc' = sc /\ lconn' = lconn /\ conn' = conn /\ params' = params
      /\ Serves(lconn, sc.target) /\ Connected /\ Known(params) /\ (Fits => params = Supplied)
    BY DEF IInv, Check, ReachedInv, AgreedInv
<1>2. /\ err' = checkParameters(Asked, params, sc.client.loose)
      /\ pc' = IF err' = None THEN "prepare" ELSE "close"
    BY DEF Check, Asked
<1>3. OpeningInv'
    BY <1>2 DEF OpeningInv
<1>4. Connected' /\ Supplied' = Supplied /\ Asked' = Asked /\ (Fits' <=> Fits) /\ Known(params)'
    BY <1>1, Fixed DEF Connected, Known
<1>5. AgreedInv'
    <2>1. pc' # "check" /\ (Tested' => pc' = "prepare")
        BY <1>2 DEF Tested
    <2>2. Fits' => [params EXCEPT !.Length = 0]' = [Supplied EXCEPT !.Length = 0]'
        BY <1>1, <1>4
    <2>3. (pc = "prepare" => checkParameters(Asked, params, sc.client.loose) = None)'
        BY <1>1, <1>2, <1>4
    <2> QED BY <1>1, <1>4, <2>1, <2>2, <2>3 DEF AgreedInv, Tested
<1>6. RefusedInv'
    BY <1>1, <1>2, CheckedIs DEF RefusedInv
<1>7. ReachedInv'
    BY <1>1, <1>2 DEF ReachedInv, Serves
<1> QED BY <1>1, <1>3, <1>5, <1>6, <1>7 DEF IInv

\* A step of the test or its end that leaves what was agreed on as it is.
LEMMA Kept ==
    ASSUME IInv, sc' = sc, lconn' = lconn, Tested \/ pc = "close",
           Tested' => Connected /\ Connected', pc' \in {"send", "serve", "receive", "close", "done"},
           err' = err \/ err' \notin {"ServerRestriction", "InvalidServerRestriction"},
           Tested' /\ Fits => [params EXCEPT !.Length = 0]' = [params EXCEPT !.Length = 0],
           Tested' => Tested,
           pc' = "receive" /\ (sc.SetSrcIP \/ ~Unspecified(lconn.ip)) => Arrives'
    PROVE  IInv'
<1>1. /\ sc \in Scenario /\ RefusedInv /\ Serves(lconn, sc.target)
      /\ Tested /\ Fits => [params EXCEPT !.Length = 0] = [Supplied EXCEPT !.Length = 0]
    BY DEF IInv, ReachedInv, AgreedInv, Tested
<1>2. OpeningInv'
    BY DEF OpeningInv
<1>3. Supplied' = Supplied /\ (Fits' <=> Fits)
    BY Fixed
<1>4. AgreedInv'
    <2>1. (Tested /\ Fits => [params EXCEPT !.Length = 0] = [Supplied EXCEPT !.Length = 0])'
        BY <1>1, <1>3
    <2>2. pc' \notin {"opened", "check", "prepare"}
        OBVIOUS
    <2> QED BY <2>1, <2>2 DEF AgreedInv
<1>5. RefusedInv'
    BY <1>1 DEF RefusedInv
<1>6. ReachedInv'
    BY <1>1 DEF ReachedInv, Serves, Unspecified
<1> QED BY <1>1, <1>2, <1>4, <1>5, <1>6 DEF IInv

\* Prepare keeps it.
LEMMA PrepareRight == ASSUME IInv, Prepare PROVE IInv'
<1>1. /\ sc' = sc /\ lconn' = lconn /\ conn' = conn /\ err' = err /\ pc' = "send" /\ pc = "prepare"
      /\ Connected /\ params' = [params EXCEPT !.Length = cpkt'.len] /\ (Fits => params = Supplied)
      /\ sc \in Scenario
    BY DEF IInv, Prepare, AgreedInv, Tested
<1>2. Connected'
    BY <1>1, Fixed DEF Connected
<1>3. Fits => [params EXCEPT !.Length = 0]' = [params EXCEPT !.Length = 0]
    <2> SUFFICES ASSUME Fits PROVE [params' EXCEPT !.Length = 0] = [params EXCEPT !.Length = 0]
        OBVIOUS
    <2> DEFINE l == cpkt'.len
               ps == params
    <2>1. DOMAIN ps = DOMAIN NoParams /\ ps = [x \in DOMAIN ps |-> ps[x]]
        BY <1>1, Settings DEF ParamsShaped
    <2>2. params' = [ps EXCEPT !.Length = l]
        BY <1>1
    <2> HIDE DEF l, ps
    <2>3. [[ps EXCEPT !.Length = l] EXCEPT !.Length = 0] = [ps EXCEPT !.Length = 0]
        BY <2>1
    <2> QED BY <2>2, <2>3 DEF ps
<1>4. Tested /\ Tested'
    BY <1>1 DEF Tested
<1> QED BY <1>1, <1>2, <1>3, <1>4, Kept

\* Send keeps it.
LEMMA SendRight == ASSUME IInv, Send PROVE IInv'
<1>1. /\ sc' = sc /\ lconn' = lconn /\ conn' = conn /\ err' = err /\ params' = params
      /\ pc' = "serve" /\ pc = "send" /\ Connected
    BY DEF IInv, Send, AgreedInv, Tested
<1>2. Connected'
    BY <1>1, Fixed DEF Connected
<1>3. Tested /\ Tested' /\ [params EXCEPT !.Length = 0]' = [params EXCEPT !.Length = 0]
    BY <1>1 DEF Tested
<1> QED BY <1>1, <1>2, <1>3, Kept

\* Serve keeps it.
LEMMA ServeRight == ASSUME IInv, Serve PROVE IInv'
<1>1. /\ sc' = sc /\ lconn' = lconn /\ err' = err /\ params' = params
      /\ pc = "serve" /\ Connected /\ Serves(lconn, sc.target) /\ Next1 \in {"send", "close"}
    BY DEF IInv, Serve, AgreedInv, Tested, ReachedInv, Next1
<1>2. \/ conn' = conn /\ pc' = Next1
      \/ /\ \E s : conn' = Counted(conn, s)
         /\ \/ pc' = Next1
            \/ pc' = "receive" /\ \E src \in ReplySources : msg'.src = src
    <2> DEFINE r == Received(spkt, msg.bytes)
               p == addFields(readReset(r), fechoRequest, FALSE)
               c == Counted(conn, seqno(p))
               dropped == \/ readError(r) # None
                          \/ ~fbufValid(p) \/ ctoken(p) # conn.token \/ TooLarge(p)
    <2>1. IF dropped THEN conn' = conn /\ pc' = Next1
          ELSE /\ conn' = c
               /\ IF c.params.TripMode = "round"
                  THEN /\ \E src \in ReplySources : msg' = [bytes |-> bytes(spkt'), src |-> src]
                       /\ pc' = "receive"
                  ELSE pc' = Next1
        BY Zenon DEF Serve
    <2> HIDE DEF dropped, p, r
    <2>2. CASE dropped
        BY <2>1, <2>2
    <2>3. CASE ~dropped
        <3>1. conn' = c
            BY <2>1, <2>3
        <3>2. pc' = Next1 \/ (pc' = "receive" /\ \E src \in ReplySources : msg' = [bytes |-> bytes(spkt'), src |-> src])
            BY <2>1, <2>3
        <3>3. pc' = Next1 \/ (pc' = "receive" /\ \E src \in ReplySources : msg'.src = src)
            BY <3>2
        <3> QED BY <3>1, <3>3
    <2> QED BY <2>2, <2>3
<1>3. Connected'
    <2>1. ASSUME NEW s, conn' = Counted(conn, s)
          PROVE  conn'.params = conn.params /\ conn'.token = conn.token /\ DOMAIN conn' = DOMAIN conn
        BY <1>1, <2>1 DEF Connected, Counted
    <2>2. conn'.params = conn.params /\ conn'.token = conn.token /\ DOMAIN conn' = DOMAIN conn
        BY <1>2, <2>1
    <2> QED BY <1>1, <2>2, Fixed DEF Connected
<1>4. pc' = "receive" /\ (sc.SetSrcIP \/ ~Unspecified(lconn.ip)) => msg'.src = sc.target.ip
    BY <1>1, <1>2, SourceRight
<1>5. pc' = "receive" /\ (sc.SetSrcIP \/ ~Unspecified(lconn.ip)) => Arrives'
    BY <1>1, <1>4 DEF Arrives
<1>6. Tested /\ [params EXCEPT !.Length = 0]' = [params EXCEPT !.Length = 0]
      /\ pc' \in {"send", "serve", "receive", "close", "done"}
    BY <1>1, <1>2 DEF Tested
<1> QED BY <1>1, <1>3, <1>5, <1>6, Kept

\* Receive keeps it.
LEMMA ReceiveRight == ASSUME IInv, Receive PROVE IInv'
<1>1. /\ sc' = sc /\ lconn' = lconn /\ conn' = conn /\ params' = params /\ pc = "receive" /\ Connected
      /\ Next1 \in {"send", "close"}
    BY DEF IInv, Receive, AgreedInv, Tested, Next1
<1>2. pc' \in {"send", "close"}
      /\ (err' = err \/ err' \notin {"ServerRestriction", "InvalidServerRestriction"})
    <2> DEFINE r == Received(rpkt, msg.bytes)
               p == Expected(readReset(r))
               e == IF ~Arrives THEN "Lost"
                    ELSE IF readError(r) # None THEN readError(r)
                    ELSE IF p.len < params.Length THEN "ShortReply"
                    ELSE IF seqno(p) \notin 0..(Len(trips) - 1) THEN "UnexpectedSequenceNumber"
                    ELSE None
    <2>1. e \in {"Lost", readError(r), "ShortReply", "UnexpectedSequenceNumber", None}
        <3> HIDE DEF r, p
        <3> QED OBVIOUS
    <2>2. /\ pc' = IF e \in {None, "Lost"} THEN Next1 ELSE "close"
          /\ err' = IF e \in {None, "Lost"} THEN err ELSE e
        <3> HIDE DEF r, p
        <3> QED BY DEF Receive, r, p
    <2> HIDE DEF e, r
    <2> QED BY <1>1, <2>1, <2>2, ErrorNames DEF None
<1>3. Connected'
    BY <1>1, Fixed DEF Connected
<1>4. Tested /\ [params EXCEPT !.Length = 0]' = [params EXCEPT !.Length = 0]
    BY <1>1 DEF Tested
<1> QED BY <1>1, <1>2, <1>3, <1>4, Kept

\* Close keeps it.
LEMMA CloseRight == ASSUME IInv, Close PROVE IInv'
<1>1. sc' = sc /\ err' = err /\ pc' = "done"
    BY DEF Close
<1> QED BY <1>1, Ended

\* So every step does.
LEMMA NextRight == ASSUME IInv, [Next]_vars PROVE IInv'
<1>1. CASE MakeListeners
    BY <1>1, MakeListenersRight
<1>2. CASE OpenRequest
    BY <1>2, OpenRequestRight
<1>3. CASE Accept
    BY <1>3, AcceptRight
<1>4. CASE Opened
    BY <1>4, OpenedRight
<1>5. CASE Check
    BY <1>5, CheckRight
<1>6. CASE Prepare
    BY <1>6, PrepareRight
<1>7. CASE Send
    BY <1>7, SendRight
<1>8. CASE Serve
    BY <1>8, ServeRight
<1>9. CASE Receive
    BY <1>9, ReceiveRight
<1>10. CASE Close
    BY <1>10, CloseRight
<1>11. CASE UNCHANGED vars
    <2>1. /\ sc' = sc /\ pc' = pc /\ err' = err /\ lconn' = lconn /\ spkt' = spkt /\ conn' = conn
          /\ params' = params /\ cpkt' = cpkt /\ msg' = msg
        BY <1>11 DEF vars
    <2>2. /\ Asked' = Asked /\ Supplied' = Supplied /\ HeaderRoom' = HeaderRoom /\ (Fits' <=> Fits)
          /\ Request' = Request
        BY <2>1, Fixed DEF Request
    <2>3. OpeningInv'
        BY <2>1, <2>2 DEF IInv, OpeningInv, Replied
    <2>4. AgreedInv'
        BY <2>1, <2>2 DEF IInv, AgreedInv, Connected, Known, Tested
    <2>5. RefusedInv' /\ ReachedInv' /\ sc' \in Scenario
        BY <2>1 DEF IInv, RefusedInv, ReachedInv, Serves, Arrives, Unspecified
    <2> QED BY <2>3, <2>4, <2>5 DEF IInv
<1> QED BY <1>1, <1>2, <1>3, <1>4, <1>5, <1>6, <1>7, <1>8, <1>9, <1>10, <1>11 DEF Next

-----------------------------------------------------------------------------
(* What it gives                                                           *)

\* It holds in every state of an exchange.
LEMMA Invariant == Spec => []IInv
<1>1. Init => IInv
    BY InitRight
<1>2. IInv /\ [Next]_vars => IInv'
    BY NextRight
<1> QED BY <1>1, <1>2, PTL DEF Spec

\* Both sides hold the same parameters.
THEOREM ParamsAgreedHolds == Spec => []ParamsAgreed
<1>1. ASSUME IInv PROVE ParamsAgreed
    <2>1. CASE pc = "check" /\ Fits
        <3>1. params = Supplied /\ ctoken(cpkt) = Token /\ conn.params = Supplied /\ conn.token = Token
            BY <1>1, <2>1 DEF IInv, AgreedInv, Connected
        <3>2. Supplied = Accepted(sc.client.params) /\ ~Tested
            BY <2>1 DEF Supplied, Asked, Tested
        <3> QED BY <3>1, <3>2 DEF ParamsAgreed
    <2>2. CASE Tested /\ Fits
        <3>1. [params EXCEPT !.Length = 0] = [Supplied EXCEPT !.Length = 0] /\ conn.params = Supplied
            BY <1>1, <2>2 DEF IInv, AgreedInv, Connected
        <3>2. pc # "check"
            BY <2>2 DEF Tested
        <3> QED BY <3>1, <3>2 DEF ParamsAgreed
    <2>3. CASE ~(pc = "check" /\ Fits) /\ ~(Tested /\ Fits)
        BY <2>3 DEF ParamsAgreed
    <2> QED BY <2>1, <2>2, <2>3
<1> QED BY <1>1, Invariant, PTL

\* The stamps that a server with any other setting than none leaves.
LEMMA StampsKept ==
    ASSUME NEW a \in {"none", "single", "dual"}, NEW at
    PROVE  RestrictStamp(a, at) = {} <=> (at = {} \/ a = "none")
BY DEF RestrictStamp

\* The client takes what the server may do, and refuses what it may not.
THEOREM RestrictionAcceptedHolds == Spec => []RestrictionAccepted
<1>1. ASSUME IInv PROVE RestrictionAccepted
    <2>1. ASSUME pc = "prepare", Fits
          PROVE  /\ ~sc.client.loose => params = Asked
                 /\ params.Duration <= Asked.Duration /\ params.Length <= Asked.Length
                 /\ params.Interval >= Asked.Interval \/ params.Interval >= minRestrictedInterval
                 /\ params.StampAt = {} <=> (Asked.StampAt = {} \/ sc.server.AllowStamp = "none")
        <3>1. /\ sc \in Scenario /\ params = Supplied /\ Known(params)
              /\ checkParameters(Asked, params, sc.client.loose) = "none"
            BY <1>1, <2>1 DEF IInv, AgreedInv, None
        <3>2. /\ Allowed(params, sc.server, Asked) /\ ServerShaped(sc.server)
              /\ ParamsShaped(Asked) /\ ParamsShaped(params) /\ Asked.ProtocolVersion = ProtocolVersion
            BY <3>1, Settings
        <3>3. /\ params.Duration <= Asked.Duration /\ params.Length <= Asked.Length
              /\ params.Interval >= Asked.Interval \/ params.Interval >= minRestrictedInterval
              /\ ~sc.client.loose =>
                   /\ params.Duration = Asked.Duration /\ params.Interval = Asked.Interval
                   /\ params.Length = Asked.Length /\ params.StampAt = Asked.StampAt
                   /\ params.Clock = Asked.Clock /\ params.DSCP = Asked.DSCP
                   /\ params.ServerFill = Asked.ServerFill
            BY <3>1, CheckedIs
        <3>4. ASSUME ~sc.client.loose PROVE params = Asked
            <4> DEFINE p == params
                       q == Asked
            <4>1. /\ p.ProtocolVersion = q.ProtocolVersion
                  /\ \A x \in {"IntervalOffset", "ReceivedStats", "TripMode", "Multiply", "Group", "Clock"} :
                       p[x] = q[x]
                BY <3>2 DEF Allowed
            <4>2. /\ p.Duration = q.Duration /\ p.Interval = q.Interval /\ p.Length = q.Length
                  /\ p.StampAt = q.StampAt /\ p.DSCP = q.DSCP /\ p.ServerFill = q.ServerFill
                BY <3>3, <3>4
            <4>3. /\ DOMAIN p = DOMAIN NoParams /\ p = [x \in DOMAIN p |-> p[x]]
                  /\ DOMAIN q = DOMAIN NoParams /\ q = [x \in DOMAIN q |-> q[x]]
                BY <3>2 DEF ParamsShaped
            <4>4. DOMAIN NoParams = {"ProtocolVersion", "Duration", "Interval", "IntervalOffset", "Length",
                                     "ReceivedStats", "StampAt", "TripMode", "Multiply", "Group", "Clock",
                                     "DSCP", "ServerFill"}
                BY DEF NoParams
            <4> HIDE DEF p, q
            <4>5. \A x \in DOMAIN NoParams : p[x] = q[x]
                BY <4>1, <4>2, <4>4
            <4>6. p = q
                BY <4>3, <4>5
            <4> QED BY <4>6 DEF p, q
        <3>5. params.StampAt = RestrictStamp(sc.server.AllowStamp, Asked.StampAt)
              /\ sc.server.AllowStamp \in {"none", "single", "dual"}
            BY <3>2 DEF Allowed, ServerShaped
        <3>6. params.StampAt = {} <=> (Asked.StampAt = {} \/ sc.server.AllowStamp = "none")
            BY <3>5, StampsKept
        <3> QED BY <3>3, <3>4, <3>6
    <2>2. RefusedInv
        BY <1>1 DEF IInv
    <2> QED BY <2>1, <2>2 DEF RestrictionAccepted, RefusedInv, Asked
<1> QED BY <1>1, Invariant, PTL

\* Replies come from where the client's socket takes them.
THEOREM RepliesArriveHolds == Spec => []RepliesArrive
<1>1. IInv => RepliesArrive
    BY DEF IInv, ReachedInv, RepliesArrive
<1> QED BY <1>1, Invariant, PTL

-----------------------------------------------------------------------------
(* The packets of a test                                                   *)

\* What was agreed on that the packets depend on.
Key == sc.client.key
At == Supplied.StampAt
Ck == Supplied.Clock
Rs == Supplied.ReceivedStats
OneWayTest == Supplied.TripMode = "oneway"

\* What these can be.
LEMMA AgreedIs ==
    ASSUME sc \in Scenario
    PROVE  /\ At \in (SUBSET {"receive", "send"}) \cup {{"midpoint"}}
           /\ Ck \in (SUBSET BothClocks) \ {{}} /\ Rs \in SUBSET {"count", "window"}
           /\ Supplied.TripMode \in {"round", "oneway"} /\ Asked.TripMode = Supplied.TripMode
           /\ Supplied.Length \in Nat /\ Asked.Length \in Nat /\ sc.server.MaxLength \in Nat
           /\ sc.delay \subseteq Nat
<1>1. /\ Asked.ReceivedStats \in SUBSET {"count", "window"} /\ Asked.TripMode \in {"round", "oneway"}
      /\ Asked.StampAt \in (SUBSET {"receive", "send"}) \cup {{"midpoint"}}
      /\ Asked.Clock \in (SUBSET {"wall", "mono"}) \ {{}}
      /\ Asked.Length \in Nat /\ sc.server.MaxLength \in Nat /\ sc.delay \subseteq Nat
      /\ sc.server.AllowStamp \in {"none", "single", "dual"}
    BY ScenarioAssumption DEF Asked
<1>2. Allowed(Supplied, sc.server, Asked)
    BY Settings
<1>3. /\ Supplied.Length = (IF sc.server.MaxLength > 0 /\ Asked.Length > sc.server.MaxLength
                            THEN sc.server.MaxLength ELSE Asked.Length)
      /\ Supplied.StampAt = RestrictStamp(sc.server.AllowStamp, Asked.StampAt)
      /\ Supplied.ReceivedStats = Asked.ReceivedStats /\ Supplied.TripMode = Asked.TripMode
      /\ Supplied.Clock = Asked.Clock
    BY <1>2 DEF Allowed
<1> HIDE DEF Asked, Supplied
<1>4. RestrictStamp(sc.server.AllowStamp, Asked.StampAt) \in (SUBSET {"receive", "send"}) \cup {{"midpoint"}}
    BY <1>1 DEF RestrictStamp
<1> QED BY <1>1, <1>3, <1>4 DEF At, Ck, Rs, BothClocks

\* The fields of timestamps that are asked for.
LEMMA AtFieldsIs ==
    ASSUME NEW at, NEW c
    PROVE  /\ AtFields(at, c) \subseteq 8..13
           /\ 8 \in AtFields(at, c) <=> "receive" \in at /\ "wall" \in c
           /\ 9 \in AtFields(at, c) <=> "receive" \in at /\ "mono" \in c
           /\ 10 \in AtFields(at, c) <=> "midpoint" \in at /\ "wall" \in c
           /\ 11 \in AtFields(at, c) <=> "midpoint" \in at /\ "mono" \in c
           /\ 12 \in AtFields(at, c) <=> "send" \in at /\ "wall" \in c
           /\ 13 \in AtFields(at, c) <=> "send" \in at /\ "mono" \in c
<1>1. AtFields(at, c) \subseteq 8..13
    BY StampTable DEF AtFields
<1>2. \A f \in 8..13 : f \in AtFields(at, c) <=> StampOf[f] \in at /\ ClockOf[f] \in c
    BY StampTable DEF AtFields
<1> QED BY <1>1, <1>2, StampTable

\* Those of stats.
LEMMA StatsFieldsIs ==
    ASSUME NEW rs
    PROVE  /\ StatsFields(rs) \subseteq {6, 7}
           /\ 6 \in StatsFields(rs) <=> "count" \in rs
           /\ 7 \in StatsFields(rs) <=> "window" \in rs
BY DEF StatsFields, fRCount, fRWindow

\* The fields of a request, of its reply, and those the client takes that to
\* have; a midpoint is sent with both clocks.
TestHeader == HeaderOf(Key) \cup {fConnToken, fSeqno}
ReqFields == TestHeader \cup StatsFields(Rs) \cup (IF OneWayTest THEN AtFields({"send"}, Ck) ELSE AtFields(At, Ck))
RepFields == TestHeader \cup StatsFields(Rs) \cup (IF At = {"midpoint"} THEN {10, 11} ELSE AtFields(At, Ck))
ExpFields == TestHeader \cup StatsFields(Rs) \cup AtFields(At, Ck)

\* How long fields are.
FLen(F) == SumLens(Lens(F))

\* It is a number of at most 92 that grows with the fields.
LEMMA FLenIs ==
    /\ \A F : FLen(F) \in Nat /\ FLen(F) <= 92
    /\ \A F, p : Layout(p, F) => SumLens(p.flen) = FLen(F)
    /\ \A F, G : F \cap Field \subseteq G => FLen(F) <= FLen(G)
    /\ \A F : fMagic \in F /\ fFlags \in F /\ fHMAC \in F => FLen(F) >= 20
<1>1. ASSUME NEW F PROVE \E p : Layout(p, F) /\ FLen(F) = SumLens(p.flen)
    <2> DEFINE p == [flen |-> Lens(F)]
    <2>1. Layout(p, F) /\ FLen(F) = SumLens(p.flen)
        BY DEF Layout, Lens, FLen
    <2> QED BY <2>1
<1>2. ASSUME NEW F PROVE FLen(F) \in Nat /\ FLen(F) <= 92
    BY <1>1, LayoutIs
<1>3. ASSUME NEW F, NEW p, Layout(p, F) PROVE SumLens(p.flen) = FLen(F)
    BY <1>3 DEF Layout, Lens, FLen
<1>4. ASSUME NEW F, NEW G, F \cap Field \subseteq G PROVE FLen(F) <= FLen(G)
    <2>1. PICK p : Layout(p, F) /\ FLen(F) = SumLens(p.flen)
        BY <1>1
    <2>2. PICK q : Layout(q, G) /\ FLen(G) = SumLens(q.flen)
        BY <1>1
    <2>3. SumLens(p.flen) <= SumLens(q.flen)
        BY <1>4, <2>1, <2>2, LayoutMore
    <2> QED BY <2>1, <2>2, <2>3
<1>5. ASSUME NEW F, fMagic \in F, fFlags \in F, fHMAC \in F PROVE FLen(F) >= 20
    <2>1. PICK p : Layout(p, F) /\ FLen(F) = SumLens(p.flen)
        BY <1>1
    <2>2. /\ p.flen[fHMAC] = 16 /\ p.flen[fConnToken] = (IF fConnToken \in F THEN 8 ELSE 0)
          /\ SumLens(p.flen) >= 4 + p.flen[fHMAC] + p.flen[fConnToken] /\ SumLens(p.flen) \in Nat
        BY <1>5, <2>1, OpenLayout
    <2> QED BY <2>1, <2>2
<1> QED BY <1>2, <1>3, <1>4, <1>5

\* Which fields these are.
LEMMA TestFields ==
    ASSUME sc \in Scenario
    PROVE  /\ TestHeader \subseteq 1..5 /\ {1, 2, 4, 5} \subseteq TestHeader /\ (3 \in TestHeader <=> Key # NoKey)
           /\ \A F \in {ReqFields, RepFields, ExpFields} :
                /\ F \subseteq 1..13 /\ {1, 2, 4, 5} \subseteq F /\ (3 \in F <=> Key # NoKey)
                /\ TestHeader \cap Field \subseteq F /\ TestHeader \cup StatsFields(Rs) \subseteq F
                /\ SameTo(F, TestHeader, 5) /\ SameTo(F, TestHeader \cup StatsFields(Rs), 7)
           /\ ExpFields \cap Field \subseteq RepFields
           /\ ~OneWayTest => ReqFields = ExpFields /\ ReqFields \cap Field \subseteq RepFields
           /\ At # {"midpoint"} => RepFields = ExpFields
<1>1. TestHeader \subseteq 1..5 /\ {1, 2, 4, 5} \subseteq TestHeader /\ (3 \in TestHeader <=> Key # NoKey)
    BY DEF TestHeader, HeaderOf, Keyed, fMagic, fFlags, fHMAC, fConnToken, fSeqno
<1>2. StatsFields(Rs) \subseteq {6, 7}
    BY StatsFieldsIs
<1>3. \A at : AtFields(at, Ck) \subseteq 8..13
    BY AtFieldsIs
<1> DEFINE S1 == StatsFields(Rs)
           T == TestHeader
<1> HIDE DEF S1, T
<1>4. ASSUME NEW F, NEW A, A \subseteq 8..13, F = T \cup S1 \cup A
      PROVE  /\ F \subseteq 1..13 /\ {1, 2, 4, 5} \subseteq F /\ (3 \in F <=> Key # NoKey)
             /\ T \cap Field \subseteq F /\ T \cup S1 \subseteq F
             /\ SameTo(F, T, 5) /\ SameTo(F, T \cup S1, 7)
    <2>a. S1 \subseteq {6, 7} /\ T \subseteq 1..5 /\ {1, 2, 4, 5} \subseteq T /\ (3 \in T <=> Key # NoKey)
        BY <1>1, <1>2 DEF S1, T
    <2>b. F \subseteq 1..13
        BY <1>4, <2>a
    <2>c. {1, 2, 4, 5} \subseteq F /\ (3 \in F <=> Key # NoKey)
        BY <1>4, <2>a
    <2>1. F \subseteq 1..13 /\ {1, 2, 4, 5} \subseteq F /\ (3 \in F <=> Key # NoKey)
        BY <2>b, <2>c
    <2>2. SameTo(F, T, 5)
        BY <1>2, <1>4 DEF SameTo, S1
    <2>3. SameTo(F, T \cup S1, 7)
        BY <1>4 DEF SameTo
    <2> QED BY <1>4, <2>1, <2>2, <2>3
<1>5. \E A : A \subseteq 8..13 /\ ReqFields = T \cup S1 \cup A
    BY <1>3 DEF ReqFields, S1, T
<1>6. \E A : A \subseteq 8..13 /\ RepFields = T \cup S1 \cup A
    <2> DEFINE A == IF At = {"midpoint"} THEN {10, 11} ELSE AtFields(At, Ck)
    <2>1. A \subseteq 8..13
        BY <1>3
    <2>2. RepFields = T \cup S1 \cup A
        BY DEF RepFields, S1, T
    <2> QED BY <2>1, <2>2
<1>7. \E A : A \subseteq 8..13 /\ ExpFields = T \cup S1 \cup A
    BY <1>3 DEF ExpFields, S1, T
<1>8. ExpFields \cap Field \subseteq RepFields
    <2>1. At = {"midpoint"} => AtFields(At, Ck) \subseteq {10, 11}
        BY AtFieldsIs
    <2> QED BY <2>1 DEF ExpFields, RepFields
<1>9. ~OneWayTest => ReqFields = ExpFields
    BY DEF ReqFields, ExpFields
<1>10. At # {"midpoint"} => RepFields = ExpFields
    BY DEF RepFields, ExpFields
<1> QED BY <1>1, <1>4, <1>5, <1>6, <1>7, <1>8, <1>9, <1>10 DEF S1, T

\* A packet with the same header as another: what does not touch a field below
\* the sequence number keeps it.
HeadAs(q, p) == q.key = p.key /\ Cap(q) = Cap(p) /\ \A g \in 1..4 : get(q, g) = get(p, g)

\* Its flags and token are the same, and so are those of what has the same head.
LEMMA HeadAsIs ==
    ASSUME NEW p, NEW q, HeadAs(q, p)
    PROVE  /\ flags(q) = flags(p) /\ ctoken(q) = ctoken(p) /\ get(q, fMagic) = get(p, fMagic)
           /\ \A r : HeadAs(r, q) => HeadAs(r, p)
<1>1. get(q, fFlags) = get(p, fFlags) /\ get(q, fConnToken) = get(p, fConnToken)
      /\ get(q, fMagic) = get(p, fMagic)
    BY DEF HeadAs, fFlags, fConnToken, fMagic
<1>2. flags(q) = flags(p) /\ ctoken(q) = ctoken(p)
    BY <1>1 DEF flags, ctoken, getNumber
<1>3. \A r : HeadAs(r, q) => HeadAs(r, p)
    BY DEF HeadAs
<1> QED BY <1>1, <1>2, <1>3

\* The packet a client has once its connection is open.
Ready(p) ==
    /\ Tight(p, HeaderOf(Key) \cup {fConnToken}) /\ p.key = Key
    /\ Cap(p) = Greater(Supplied.Length, 92)
    /\ get(p, fMagic) = Magic /\ flags(p) = {} /\ ctoken(p) = Token

\* The client's packet with the token of the connection is ready.
LEMMA ReadyIs ==
    ASSUME sc \in Scenario
    PROVE  Ready(setConnToken(newPacket(0, Supplied.Length, Key), Token))
<1> DEFINE p == newPacket(0, Supplied.Length, Key)
           q == setNumber(p, fConnToken, Token)
<1>1. Supplied.Length \in Int
    BY AgreedIs
<1>2. /\ Well(p) /\ Layout(p, HeaderOf(Key)) /\ p.key = Key
      /\ Cap(p) = Greater(Supplied.Length, 92) /\ p.len = SumLens(p.flen) /\ p.tlen = p.len
      /\ get(p, fMagic) = Magic /\ flags(p) = {}
    BY <1>1, NewPacketIs
<1> HIDE DEF p
<1>3. Tight(p, HeaderOf(Key))
    <2>1. p.len \in Nat
        BY <1>2, Bounds
    <2> QED BY <1>2, <2>1 DEF Tight
<1>4. fConnToken \in Field /\ fMagic \in Field \ {fConnToken} /\ fFlags \in Field \ {fConnToken}
    BY FieldFacts DEF fConnToken, fMagic, fFlags
<1>5. Gained(q, p, HeaderOf(Key), {fConnToken}) /\ getNumber(q, fConnToken) = Token
    BY <1>3, <1>4, NumberTight
<1> HIDE DEF q
<1>6. Tight(q, HeaderOf(Key) \cup {fConnToken}) /\ q.key = Key /\ Cap(q) = Greater(Supplied.Length, 92)
      /\ get(q, fMagic) = Magic /\ get(q, fFlags) = get(p, fFlags)
    BY <1>2, <1>4, <1>5 DEF Gained
<1>7. flags(q) = {}
    BY <1>2, <1>6 DEF flags
<1> QED BY <1>5, <1>6, <1>7 DEF Ready, setConnToken, ctoken, q, p

\* What an agreed request is like: its length, its payload, its HMAC.
ReqLen == Greater(Supplied.Length, FLen(ReqFields))
ReqByte == IF sc.client.filler = << >> THEN Zero ELSE <<"fill", sc.client.filler>>
Requests(q, n) ==
    /\ Framed(q, ReqFields) /\ q.key = Key /\ q.len = ReqLen
    /\ flags(q) \subseteq {"hmac"} /\ ctoken(q) = Token /\ seqno(q) = n
    /\ Filled(q, ReqByte) /\ (Key # NoKey => Hashed(q))
Unforged(q) == Key # NoKey => Sealed(q)

\* A number that is read is the bytes it is written as.
LEMMA NumberBytes ==
    ASSUME NEW n \in Nat, n > 0, NEW b, IsBytes(b), Len(b) = n, NEW v \in Nat, v > 0, Number(b) = v
    PROVE  b = [k \in 1..n |-> ByteOf(v, k)]
<1>1. b = [k \in 1..n |-> b[k]] /\ DOMAIN b = 1..n
    BY DEF IsBytes
<1>2. ~\A k \in DOMAIN b : b[k] = Zero
    BY DEF Number
<1>3. b[1][2] = v /\ \A k \in DOMAIN b : b[k] = <<"n", b[1][2], k>>
    BY <1>2 DEF Number, Garbage
<1>4. ASSUME NEW k \in 1..n PROVE b[k] = ByteOf(v, k)
    <2>1. b[k] = <<"n", v, k>>
        BY <1>1, <1>3
    <2>2. v # 0
        OBVIOUS
    <2> QED BY <2>1, <2>2 DEF ByteOf
<1> QED BY <1>1, <1>4

\* To write a number that is there changes nothing.
LEMMA NumberAgain ==
    ASSUME NEW p, Well(p), NEW f \in Field, p.flen[f] = fcaps[f],
           NEW v \in Nat, v > 0, getNumber(p, f) = v
    PROVE  setNumber(p, f, v) = p
<1>1. IsBytes(get(p, f)) /\ Len(get(p, f)) = fcaps[f] /\ fcaps[f] \in Nat /\ fcaps[f] > 0
    <2>1. fcaps[f] \in Nat /\ fcaps[f] > 0
        BY FieldFacts
    <2>2. IsBytes(get(p, f)) /\ Len(get(p, f)) = p.flen[f]
        BY GetWell
    <2> QED BY <2>1, <2>2
<1>2. get(p, f) = [k \in 1..fcaps[f] |-> ByteOf(v, k)]
    BY <1>1, NumberBytes DEF getNumber
<1>3. set(p, f, get(p, f)) = p
    BY SetSame
<1> QED BY <1>2, <1>3 DEF setNumber

\* A time set once more changes nothing.
LEMMA TimeAgain ==
    ASSUME NEW p, Well(p), NEW wf \in {8, 10, 12}, NEW t, t.wall \in Nat, t.mono \in Nat,
           \A f \in Ticks(t, wf) : p.flen[f] = fcaps[f], HoldsTime(p, t, wf)
    PROVE  tset(p, t, wf) = p
<1>1. wf \in Field /\ wf + 1 \in Field
    BY FieldFacts
<1>2. t.wall # 0 => setNumber(p, wf, t.wall) = p
    <2>1. t.wall # 0 => wf \in Ticks(t, wf)
        BY DEF Ticks
    <2> QED BY <1>1, <2>1, NumberAgain DEF HoldsTime
<1>3. t.mono # 0 => setNumber(p, wf + 1, t.mono) = p
    <2>1. t.mono # 0 => wf + 1 \in Ticks(t, wf)
        BY DEF Ticks
    <2> QED BY <1>1, <2>1, NumberAgain DEF HoldsTime
<1> QED BY <1>2, <1>3 DEF tset

\* What is done to fields behind the flags leaves a packet well framed.
LEMMA RedoneFramed ==
    ASSUME NEW p, NEW F, Framed(p, F), NEW q, NEW fs, Redone(q, p, fs), fs \cap {1, 2} = {}
    PROVE  Framed(q, F)
<1>1. get(q, fMagic) = get(p, fMagic) /\ get(q, fFlags) = get(p, fFlags)
    <2>1. fMagic \in Field \ fs /\ fFlags \in Field \ fs
        BY FieldFacts DEF fMagic, fFlags
    <2> QED BY <2>1 DEF Redone
<1>2. flags(q) = flags(p)
    BY <1>1 DEF flags
<1> QED BY <1>1, <1>2 DEF Framed, Redone, Layout

\* A request stays one when its sequence number, its stamps or its HMAC are
\* set again.
LEMMA RequestsRedone ==
    ASSUME NEW p, NEW n, Requests(p, n), NEW q, NEW fs, Redone(q, p, fs), fs \cap 1..4 = {}
    PROVE  /\ 5 \notin fs => Requests(q, n)
           /\ \A m : seqno(q) = m => Requests(q, m)
<1>1. Framed(p, ReqFields) /\ Well(p) /\ p.key = Key /\ p.len = ReqLen /\ flags(p) \subseteq {"hmac"}
      /\ ctoken(p) = Token /\ seqno(p) = n /\ Filled(p, ReqByte) /\ (Key # NoKey => Hashed(p))
    BY DEF Requests, Framed
<1>2. Framed(q, ReqFields)
    BY <1>1, RedoneFramed
<1>3. \A g \in 1..4 : get(q, g) = get(p, g)
    BY FieldFacts DEF Redone
<1>4. HeadAs(q, p)
    BY <1>3 DEF HeadAs, Redone
<1>5. flags(q) = flags(p) /\ ctoken(q) = ctoken(p)
    BY <1>4, HeadAsIs
<1>6. Filled(q, ReqByte)
    BY <1>1, StillFilled
<1>7. Key # NoKey => Hashed(q)
    <2>1. get(q, fHMAC) = get(p, fHMAC) /\ q.len = p.len
        BY <1>3 DEF fHMAC, Redone
    <2> QED BY <1>1, <2>1 DEF Hashed
<1>8. 5 \notin fs => seqno(q) = n
    <2>1. 5 \notin fs => get(q, 5) = get(p, 5)
        BY FieldFacts DEF Redone
    <2> QED BY <1>1, <2>1 DEF seqno, getNumber, fSeqno
<1>9. q.key = Key /\ q.len = ReqLen
    BY <1>1 DEF Redone
<1> QED BY <1>1, <1>2, <1>5, <1>6, <1>7, <1>8, <1>9 DEF Requests

\* The clocks of a time are those it keeps.
LEMMA TimesIs ==
    ASSUME NEW t \in Nat, NEW c
    PROVE  /\ ClientTime(t, c) = [wall |-> IF "wall" \in c THEN 1000 + t ELSE 0,
                                  mono |-> IF "mono" \in c THEN 10 + t ELSE 0]
           /\ ServerTime(t, c) = [wall |-> IF "wall" \in c THEN 1000 + t ELSE 0,
                                  mono |-> IF "mono" \in c THEN 500 + t ELSE 0]
BY DEF ClientTime, ServerTime, KeepClocks

\* The fields of times with these clocks.
LEMMA TicksIs ==
    ASSUME NEW t, NEW c, t.wall # 0 <=> "wall" \in c, t.mono # 0 <=> "mono" \in c
    PROVE  /\ Ticks(t, 12) = AtFields({"send"}, c) /\ Ticks(t, 8) = AtFields({"receive"}, c)
           /\ Ticks(t, 10) = AtFields({"midpoint"}, c)
<1>1. \A wf \in {8, 10, 12} : /\ Ticks(t, wf) \subseteq {wf, wf + 1}
                              /\ wf \in Ticks(t, wf) <=> t.wall # 0
                              /\ wf + 1 \in Ticks(t, wf) <=> t.mono # 0
    BY DEF Ticks
<1>2. \A at : /\ AtFields(at, c) \subseteq 8..13
              /\ 8 \in AtFields(at, c) <=> "receive" \in at /\ "wall" \in c
              /\ 9 \in AtFields(at, c) <=> "receive" \in at /\ "mono" \in c
              /\ 10 \in AtFields(at, c) <=> "midpoint" \in at /\ "wall" \in c
              /\ 11 \in AtFields(at, c) <=> "midpoint" \in at /\ "mono" \in c
              /\ 12 \in AtFields(at, c) <=> "send" \in at /\ "wall" \in c
              /\ 13 \in AtFields(at, c) <=> "send" \in at /\ "mono" \in c
    BY AtFieldsIs
<1>3. ASSUME NEW S1, S1 \subseteq 8..13, NEW T, T \subseteq 8..13,
             8 \in S1 <=> 8 \in T, 9 \in S1 <=> 9 \in T, 10 \in S1 <=> 10 \in T,
             11 \in S1 <=> 11 \in T, 12 \in S1 <=> 12 \in T, 13 \in S1 <=> 13 \in T
      PROVE  S1 = T
    <2> DEFINE D == 8..13
    <2>1. S1 \subseteq D /\ T \subseteq D
        BY <1>3
    <2>2. ASSUME NEW f \in D PROVE f \in S1 <=> f \in T
        <3>1. f = 8 \/ f = 9 \/ f = 10 \/ f = 11 \/ f = 12 \/ f = 13
            OBVIOUS
        <3> QED BY ONLY <1>3, <3>1
    <2> HIDE DEF D
    <2> QED BY ONLY <2>1, <2>2
<1>4. Ticks(t, 12) = AtFields({"send"}, c)
    BY <1>1, <1>2, <1>3
<1>5. Ticks(t, 8) = AtFields({"receive"}, c)
    BY <1>1, <1>2, <1>3
<1>6. Ticks(t, 10) = AtFields({"midpoint"}, c)
    BY <1>1, <1>2, <1>3
<1> QED BY <1>4, <1>5, <1>6

\* The timestamp of a one-way request.
SendStamp(t) == [receive |-> NoTime, send |-> ClientTime(t, Ck)]

\* It sets the send fields of the clocks agreed on.
LEMMA SendStampIs ==
    ASSUME NEW t \in Nat
    PROVE  /\ StampsOf({"send"}, SendStamp(t)) = AtFields({"send"}, Ck)
           /\ Ticks(ClientTime(t, Ck), 12) = AtFields({"send"}, Ck)
           /\ \A p : setTimestamp(p, {"send"}, SendStamp(t)) = tset(p, ClientTime(t, Ck), 12)
           /\ \A p : HoldsStamps(p, {"send"}, SendStamp(t)) <=> HoldsTime(p, ClientTime(t, Ck), 12)
           /\ ClientTime(t, Ck).wall \in Nat /\ ClientTime(t, Ck).mono \in Nat
<1>1. ClientTime(t, Ck).wall = (IF "wall" \in Ck THEN 1000 + t ELSE 0)
      /\ ClientTime(t, Ck).mono = (IF "mono" \in Ck THEN 10 + t ELSE 0)
    BY TimesIs
<1>2. SendStamp(t).send = ClientTime(t, Ck)
    BY DEF SendStamp
<1>3. Ticks(ClientTime(t, Ck), 12) = AtFields({"send"}, Ck)
    BY <1>1, TicksIs
<1>4. "send" \in {"send"} /\ "receive" \notin {"send"} /\ {"send"} # {"midpoint"}
    OBVIOUS
<1>5. StampsOf({"send"}, SendStamp(t)) = Ticks(ClientTime(t, Ck), 12)
    BY <1>2, <1>4 DEF StampsOf, fSWall
<1>6. ASSUME NEW p PROVE setTimestamp(p, {"send"}, SendStamp(t)) = tset(p, ClientTime(t, Ck), 12)
    BY <1>2, <1>4 DEF setTimestamp, fSWall
<1>7. ASSUME NEW p PROVE HoldsStamps(p, {"send"}, SendStamp(t)) <=> HoldsTime(p, ClientTime(t, Ck), 12)
    BY <1>2, <1>4 DEF HoldsStamps, fSWall
<1>8. ClientTime(t, Ck).wall \in Nat /\ ClientTime(t, Ck).mono \in Nat
    BY <1>1
<1> QED BY <1>3, <1>5, <1>6, <1>7, <1>8

\* What the client and the server both know of the parameters of a test.
Shared(ps) == /\ ps.StampAt = At /\ ps.Clock = Ck /\ ps.ReceivedStats = Rs
              /\ ps.TripMode = Supplied.TripMode

\* The fields of a request, set to zero or to the time.
Stampable(p) ==
    LET p1 == zeroReceivedStats(addFields(p, fechoRequest, TRUE), Rs)
    IN  IF OneWayTest THEN setTimestamp(p1, {"send"}, SendStamp(now)) ELSE stampZeroes(p1, At, Ck)

\* The packet has the fields of a request, and a one-way request the time.
LEMMA StampableIs ==
    ASSUME sc \in Scenario, now \in Nat, NEW p, Ready(p)
    PROVE  LET q == Stampable(p)
           IN  /\ Tight(q, ReqFields) /\ HeadAs(q, p)
               /\ OneWayTest => HoldsTime(q, ClientTime(now, Ck), 12)
<1> DEFINE F == HeaderOf(Key) \cup {fConnToken}
           u == addFields(p, fechoRequest, TRUE)
           v == zeroReceivedStats(u, Rs)
           T == TestHeader
           S1 == StatsFields(Rs)
           A == IF OneWayTest THEN AtFields({"send"}, Ck) ELSE AtFields(At, Ck)
<1>1. Well(p) /\ Layout(p, F) /\ p.key = Key
    BY DEF Ready, Tight
<1>2. F \cup fechoRequest = T
    BY DEF TestHeader, fechoRequest, HeaderOf
<1>3. Tight(u, T) /\ u.key = p.key /\ Cap(u) = Cap(p)
      /\ \A g \in Field : SameTo(F, T, g) => get(u, g) = get(p, g)
    BY <1>1, <1>2, AddedIs DEF Laid
<1> HIDE DEF u
<1>4. \A g \in 1..4 : g \in Field /\ SameTo(F, T, g)
    <2>1. \A f \in 1..4 : f \in F <=> f \in T
        BY DEF TestHeader, fSeqno
    <2> HIDE DEF F, T
    <2> QED BY <2>1, FieldFacts DEF SameTo
<1>5. HeadAs(u, p)
    BY <1>3, <1>4 DEF HeadAs
<1>6. T \cap Field \subseteq 1..5
    BY DEF TestHeader, HeaderOf, Keyed, fMagic, fFlags, fHMAC, fConnToken, fSeqno
<1> HIDE DEF F
<1>7. Gained(v, u, T, S1)
    <2> HIDE DEF T
    <2> QED BY <1>3, <1>6, ZeroedTight
<1> HIDE DEF v
<1>8. S1 \subseteq {6, 7}
    BY StatsFieldsIs
<1>9. HeadAs(v, u)
    <2>1. \A g \in 1..4 : g \in Field \ S1
        BY <1>8, FieldFacts
    <2> HIDE DEF S1
    <2> QED BY <1>7, <2>1 DEF HeadAs, Gained
<1>10. Tight(v, T \cup S1)
    BY <1>7 DEF Gained
<1>11. ReqFields = (T \cup S1) \cup A
    BY DEF ReqFields
<1>12. A \subseteq 8..13
    BY AtFieldsIs
<1>13. ASSUME NEW q, Gained(q, v, T \cup S1, A) PROVE Tight(q, ReqFields) /\ HeadAs(q, p)
    <2>1. \A g \in 1..4 : g \in Field \ A
        BY <1>12, FieldFacts
    <2> HIDE DEF A, T, S1
    <2>2. HeadAs(q, v)
        BY <1>13, <2>1 DEF HeadAs, Gained
    <2>3. Tight(q, ReqFields)
        BY <1>11, <1>13 DEF Gained
    <2> QED BY <1>5, <1>9, <2>2, <2>3, HeadAsIs
<1>14. CASE OneWayTest
    <2> DEFINE q == setTimestamp(v, {"send"}, SendStamp(now))
    <2>1. Gained(q, v, T \cup S1, StampsOf({"send"}, SendStamp(now)))
          /\ HoldsStamps(q, {"send"}, SendStamp(now))
        BY <1>10, StampTight
    <2> HIDE DEF q
    <2>2. Gained(q, v, T \cup S1, A) /\ HoldsTime(q, ClientTime(now, Ck), 12)
        BY <1>14, <2>1, SendStampIs
    <2>3. Stampable(p) = q
        BY <1>14 DEF Stampable, q, v, u
    <2> QED BY <1>13, <2>2, <2>3
<1>15. CASE ~OneWayTest
    <2> DEFINE rm == {f \in DOMAIN StampOf : StampOf[f] \notin At}
               q == ZeroEach(v, StampFields, AtFields(At, Ck), rm)
    <2>1. (T \cup S1) \cap Field \subseteq 1..7
        BY <1>6, <1>8
    <2>2. Gained(q, v, T \cup S1, A)
        <3>1. AtFields(At, Ck) \subseteq 8..13 /\ A = AtFields(At, Ck)
            BY <1>15, AtFieldsIs
        <3> HIDE DEF T, S1, rm, A
        <3> QED BY <1>10, <2>1, <3>1, StampZeroesTight
    <2>3. Stampable(p) = q
        BY <1>15 DEF Stampable, q, v, u, stampZeroes
    <2> QED BY <1>13, <1>15, <2>2, <2>3
<1> QED BY <1>14, <1>15

\* The packet prepared for the first request.
LEMMA PreparedIs ==
    ASSUME sc \in Scenario, now \in Nat, Ready(cpkt), Shared(params), params.Length = Supplied.Length
    PROVE  /\ Requests(Prepared, 0) /\ Unforged(Prepared)
           /\ OneWayTest => HoldsTime(Prepared, ClientTime(now, Ck), 12)
<1> DEFINE p2 == Stampable(cpkt)
           p == setSeqno(p2, 0)
           p3 == setLen(p, Supplied.Length)
           p4 == fillPayload(p3, ReqByte)
           q == updateHMAC(p4)
<1>1. Prepared = q
    <2>1. params.ReceivedStats = Rs /\ params.StampAt = At /\ params.Clock = Ck
          /\ params.Length = Supplied.Length /\ (OneWay <=> OneWayTest)
        BY DEF Shared, OneWay, OneWayTest
    <2> QED BY <2>1 DEF Prepared, Stampable, SendStamp, ReqByte
<1>2. Tight(p2, ReqFields) /\ HeadAs(p2, cpkt) /\ (OneWayTest => HoldsTime(p2, ClientTime(now, Ck), 12))
    BY StampableIs
<1> HIDE DEF p2
<1>3. ReqFields \subseteq 1..13 /\ {1, 2, 4, 5} \subseteq ReqFields /\ (3 \in ReqFields <=> Key # NoKey)
    BY TestFields
<1>4. Well(p2) /\ Layout(p2, ReqFields) /\ p2.flen[5] = fcaps[5] /\ 5 \in Field
    BY <1>2, <1>3, FieldFacts, LayoutIs DEF Tight
<1>5. Redone(p, p2, {5}) /\ seqno(p) = 0
    BY <1>4, NumberOver DEF setSeqno, seqno, fSeqno
<1> HIDE DEF p
<1>6. Well(p) /\ Layout(p, ReqFields) /\ Cap(p) = Cap(p2) /\ p.key = p2.key
      /\ \A g \in Field \ {5} : get(p, g) = get(p2, g)
    BY <1>4, <1>5 DEF Redone, Layout
<1>7. Lengthened(p3, p, Supplied.Length)
    BY <1>6, AgreedIs, SetLenIs
<1> HIDE DEF p3
<1>8. Well(p3) /\ p3.flen = p.flen /\ p3.key = p.key /\ Cap(p3) = Cap(p)
      /\ p3.len = Lesser(Cap(p), Greater(Supplied.Length, SumLens(p.flen)))
      /\ \A g : get(p3, g) = get(p, g)
    BY <1>7 DEF Lengthened
<1>9. p3.len = ReqLen
    <2>1. SumLens(p.flen) = FLen(ReqFields) /\ FLen(ReqFields) \in Nat /\ FLen(ReqFields) <= 92
        BY <1>6, FLenIs
    <2>2. Cap(p) = Greater(Supplied.Length, 92)
        BY <1>2, <1>6 DEF HeadAs, Ready
    <2>3. Supplied.Length \in Nat
        BY AgreedIs
    <2> QED BY <1>8, <2>1, <2>2, <2>3 DEF ReqLen, Lesser, Greater
<1>10. Well(p4) /\ p4.flen = p3.flen /\ p4.len = p3.len /\ p4.key = p3.key /\ Cap(p4) = Cap(p3)
       /\ Filled(p4, ReqByte) /\ \A g \in Field : get(p4, g) = get(p3, g)
    BY <1>8, FillIs
<1> HIDE DEF p4
<1>11. \A g \in Field \ {5} : get(p4, g) = get(p2, g)
    BY <1>6, <1>8, <1>10
<1>12. HeadAs(p4, cpkt)
    <2>1. \A g \in 1..4 : g \in Field \ {5}
        BY FieldFacts
    <2>2. HeadAs(p4, p2)
        BY <1>6, <1>8, <1>10, <1>11, <2>1 DEF HeadAs
    <2> QED BY <1>2, <2>2, HeadAsIs
<1>13. flags(p4) = {} /\ ctoken(p4) = Token /\ get(p4, fMagic) = Magic /\ p4.key = Key
    BY <1>12, HeadAsIs DEF Ready, HeadAs
<1>14. seqno(p4) = 0
    <2>1. get(p4, 5) = get(p, 5)
        BY <1>4, <1>8, <1>10
    <2> QED BY <1>5, <2>1 DEF seqno, getNumber, fSeqno
<1>15. Headed(p4, ReqFields)
    <2>1. Layout(p4, ReqFields)
        BY <1>6, <1>8, <1>10 DEF Layout
    <2>2. fMagic \in ReqFields /\ fFlags \in ReqFields /\ (fHMAC \in ReqFields <=> p4.key # NoKey)
        BY <1>3, <1>13 DEF fMagic, fFlags, fHMAC
    <2> QED BY <1>10, <1>13, <2>1, <2>2 DEF Headed
<1>16. Sendable(q, ReqFields) /\ Redone(q, p4, {fFlags, fHMAC}) /\ flags(q) = flags(p4) \cup HMACFlag(p4.key)
    BY <1>15, SealingIs
<1> HIDE DEF q
<1>17. Framed(q, ReqFields) /\ q.key = Key /\ q.len = ReqLen /\ flags(q) \subseteq {"hmac"}
       /\ (Key # NoKey => Sealed(q)) /\ \A g \in Field \ {2, 3} : get(q, g) = get(p4, g)
    <2>1. flags(q) \subseteq {"hmac"}
        BY <1>13, <1>16 DEF HMACFlag
    <2>2. q.key = Key /\ q.len = ReqLen /\ \A g \in Field \ {2, 3} : get(q, g) = get(p4, g)
        BY <1>9, <1>10, <1>13, <1>16 DEF Redone, fFlags, fHMAC
    <2> QED BY <1>16, <2>1, <2>2 DEF Sendable
<1>18. ctoken(q) = Token /\ seqno(q) = 0
    <2>1. get(q, 4) = get(p4, 4) /\ get(q, 5) = get(p4, 5)
        BY <1>17, FieldFacts
    <2> QED BY <1>13, <1>14, <2>1 DEF ctoken, seqno, getNumber, fConnToken, fSeqno
<1>19. Filled(q, ReqByte)
    BY <1>10, <1>16, StillFilled
<1>20. Key # NoKey => Hashed(q)
    BY <1>17, SealedHashed
<1>21. OneWayTest => HoldsTime(q, ClientTime(now, Ck), 12)
    <2>1. \A g \in {12, 13} : get(q, g) = get(p2, g)
        BY <1>11, <1>17, FieldFacts
    <2> QED BY <1>2, <2>1, HoldsOn
<1> QED BY <1>1, <1>17, <1>18, <1>19, <1>20, <1>21 DEF Requests, Unforged

\* What the lengths of a request's fields are.
LEMMA RequestLayout ==
    ASSUME sc \in Scenario, NEW q, NEW n, Requests(q, n)
    PROVE  /\ Well(q) /\ Layout(q, ReqFields) /\ Framed(q, ReqFields)
           /\ \A f \in Field : q.flen[f] = IF f \in ReqFields THEN fcaps[f] ELSE 0
           /\ q.flen[5] = fcaps[5] /\ 5 \in Field
           /\ SumLens(q.flen) = FLen(ReqFields)
           /\ OneWayTest => \A f \in AtFields({"send"}, Ck) : q.flen[f] = fcaps[f]
<1>1. Well(q) /\ Layout(q, ReqFields) /\ Framed(q, ReqFields)
    BY DEF Requests, Framed
<1>2. \A f \in Field : q.flen[f] = IF f \in ReqFields THEN fcaps[f] ELSE 0
    BY <1>1, LayoutIs
<1>3. 5 \in ReqFields /\ 5 \in Field
    BY TestFields, FieldFacts
<1>4. OneWayTest => \A f \in AtFields({"send"}, Ck) : f \in Field /\ f \in ReqFields
    BY AtFieldsIs, FieldFacts DEF ReqFields
<1>5. SumLens(q.flen) = FLen(ReqFields)
    BY <1>1, FLenIs
<1> QED BY <1>1, <1>2, <1>3, <1>4, <1>5

\* The request as it is sent.
LEMMA ToSendIs ==
    ASSUME sc \in Scenario, now \in Nat, NEW n, Requests(cpkt, n), OneWay <=> OneWayTest, Shared(params)
    PROVE  /\ Requests(ToSend, n)
           /\ OneWayTest => HoldsTime(ToSend, ClientTime(now, Ck), 12)
           /\ ~OneWayTest \/ HoldsTime(cpkt, ClientTime(now, Ck), 12) => ToSend = cpkt
<1>1. ToSend = IF OneWayTest THEN tset(cpkt, ClientTime(now, Ck), 12) ELSE cpkt
    <2>1. OneWayTest => ToSend = setTimestamp(cpkt, {"send"}, SendStamp(now))
        BY DEF ToSend, SendStamp, Shared
    <2> QED BY <2>1, SendStampIs DEF ToSend
<1>2. CASE ~OneWayTest
    BY <1>1, <1>2
<1>3. CASE OneWayTest
    <2> DEFINE t == ClientTime(now, Ck)
    <2>1. Well(cpkt) /\ \A f \in AtFields({"send"}, Ck) : cpkt.flen[f] = fcaps[f]
        BY <1>3, RequestLayout
    <2>2. Ticks(t, 12) = AtFields({"send"}, Ck) /\ t.wall \in Nat /\ t.mono \in Nat
        BY SendStampIs
    <2>3. Ticks(t, 12) \subseteq 8..13
        BY <2>2, AtFieldsIs
    <2> HIDE DEF t
    <2>4. Redone(tset(cpkt, t, 12), cpkt, Ticks(t, 12)) /\ HoldsTime(tset(cpkt, t, 12), t, 12)
        BY <2>1, <2>2, TimeOver
    <2>5. Requests(tset(cpkt, t, 12), n)
        <3>1. Ticks(t, 12) \cap 1..4 = {} /\ 5 \notin Ticks(t, 12)
            BY <2>3
        <3> QED BY <2>4, <3>1, RequestsRedone
    <2>6. HoldsTime(cpkt, t, 12) => tset(cpkt, t, 12) = cpkt
        BY <2>1, <2>2, TimeAgain
    <2> QED BY <1>1, <1>3, <2>4, <2>5, <2>6 DEF t
<1> QED BY <1>2, <1>3

\* The packet for the next request.
LEMMA FollowingIs ==
    ASSUME sc \in Scenario, NEW p, NEW n, Requests(p, n), NEW m
    PROVE  LET q == updateHMAC(setSeqno(p, m)) IN Requests(q, m) /\ Unforged(q)
<1> DEFINE r == setSeqno(p, m)
           q == updateHMAC(r)
<1>1. Well(p) /\ p.flen[5] = fcaps[5] /\ 5 \in Field
    BY RequestLayout
<1>2. Redone(r, p, {5}) /\ seqno(r) = m
    BY <1>1, NumberOver DEF setSeqno, seqno, fSeqno
<1> HIDE DEF r
<1>3. Requests(r, m)
    <2>1. {5} \cap 1..4 = {}
        OBVIOUS
    <2> QED BY <1>2, <2>1, RequestsRedone
<1>4. Framed(r, ReqFields) /\ r.key = Key /\ flags(r) \subseteq {"hmac"} /\ r.len = ReqLen
      /\ ctoken(r) = Token /\ seqno(r) = m /\ Filled(r, ReqByte) /\ Well(r)
    BY <1>3 DEF Requests, Framed
<1>5. Headed(r, ReqFields)
    BY <1>4 DEF Headed, Framed
<1>6. Sendable(q, ReqFields) /\ Redone(q, r, {fFlags, fHMAC}) /\ flags(q) = flags(r) \cup HMACFlag(r.key)
    BY <1>5, SealingIs
<1> HIDE DEF q
<1>7. q.key = Key /\ q.len = ReqLen /\ get(q, 4) = get(r, 4) /\ get(q, 5) = get(r, 5)
    BY <1>4, <1>6, FieldFacts DEF Redone, fFlags, fHMAC
<1>8. ctoken(q) = Token /\ seqno(q) = m
    BY <1>4, <1>7 DEF ctoken, seqno, getNumber, fConnToken, fSeqno
<1>9. flags(q) \subseteq {"hmac"}
    BY <1>4, <1>6 DEF HMACFlag
<1>10. Filled(q, ReqByte)
    BY <1>4, <1>6, StillFilled
<1>11. Framed(q, ReqFields) /\ (Key # NoKey => Sealed(q))
    BY <1>6, <1>7 DEF Sendable
<1>12. Key # NoKey => Hashed(q)
    BY <1>7, <1>11, SealedHashed
<1> QED BY <1>7, <1>8, <1>9, <1>10, <1>11, <1>12 DEF Requests, Unforged, q, r

-----------------------------------------------------------------------------
(* The request at the server                                               *)

\* The buffer the server reads into.
ServerBuffer(s) == Buffer(s) /\ s.key = sc.server.key /\ Cap(s) = sc.server.MTU
ReadLen == Lesser(ReqLen, sc.server.MTU)

\* The server takes the requests: those it cuts have no HMAC, and what is left
\* is not longer than it allows.
Taken == /\ ReqLen <= sc.server.MTU \/ Key = NoKey
         /\ ~(sc.server.MaxLength > 0 /\ ReadLen > sc.server.MaxLength)

\* What it has read of a request.
ReadOf(p, q, n) ==
    /\ Well(p) /\ Layout(p, TestHeader) /\ p.key = Key /\ Cap(p) = sc.server.MTU /\ p.len = ReadLen
    /\ flags(p) \subseteq {"hmac"} /\ ("hmac" \in flags(p) <=> Key # NoKey)
    /\ get(p, fMagic) = Magic /\ ctoken(p) = Token /\ seqno(p) = n
    /\ \A i \in 1..ReadLen : ~(Key # NoKey /\ i > 4 /\ i <= 20) => p.arr[i] = q.arr[i]
    /\ \A i \in 1..ReadLen : i > FLen(ReqFields) => p.arr[i] = ReqByte

\* It reads the request, whole or cut.
LEMMA RequestWhole ==
    ASSUME sc \in Scenario, sc.server.key = Key, ServerBuffer(spkt), NEW q, Framed(q, ReqFields), q.key = Key,
           q.len = ReadLen, flags(q) \subseteq {"hmac"}, ctoken(q) = Token, NEW n, seqno(q) = n,
           Filled(q, ReqByte)
    PROVE  LET r == Received(spkt, bytes(q))
               p == addFields(readReset(r), fechoRequest, FALSE)
           IN  /\ (readError(r) = "none" <=> Unforged(q)) /\ ReadOf(p, q, n)
               /\ Well(readReset(r)) /\ ServerBuffer(readReset(r))
<1> DEFINE r == Received(spkt, bytes(q))
           p == addFields(readReset(r), fechoRequest, FALSE)
           T == TestHeader
<1>1. Buffer(spkt) /\ spkt.key = q.key /\ Cap(spkt) = sc.server.MTU
    BY DEF ServerBuffer
<1>2. q.len <= Cap(spkt)
    <2>1. q.len \in Nat
        <3>1. Well(q)
            BY DEF Framed
        <3> QED BY <3>1, Bounds
    <2>2. sc.server.MTU \in Nat
        BY Settings
    <2> QED BY <1>1, <2>1, <2>2 DEF ReadLen, Lesser
<1>3. readError(r) = "none" <=> Unforged(q)
    <2>1. flags(q) \subseteq {"open", "reply", "close", "hmac"}
        OBVIOUS
    <2> QED BY <1>1, <1>2, <2>1, SealDecides DEF Unforged
<1>4. T = HeaderOf(q.key) \cup fechoRequest /\ T \cap Field \subseteq ReqFields
      /\ (fHMAC \in fechoRequest => q.key # NoKey)
    <2>1. T = HeaderOf(q.key) \cup fechoRequest
        BY DEF TestHeader, fechoRequest, HeaderOf
    <2>2. T \cap Field \subseteq ReqFields
        BY DEF ReqFields
    <2>3. fHMAC \notin fechoRequest
        BY DEF fHMAC, fechoRequest, fMagic, fFlags, fConnToken, fSeqno
    <2> QED BY <2>1, <2>2, <2>3
<1>5. ReadAs(p, q, ReqFields, T, spkt)
    <2> HIDE DEF T
    <2> QED BY <1>1, <1>2, <1>4, FieldsReadAs
<1> HIDE DEF r, p
<1>6. /\ Well(p) /\ Layout(p, T) /\ p.len = q.len /\ p.key = Key /\ Cap(p) = sc.server.MTU
      /\ flags(p) = flags(q) /\ get(p, fMagic) = Magic
      /\ \A i \in 1..q.len : ~(Key # NoKey /\ i > 4 /\ i <= 20) => p.arr[i] = q.arr[i]
    BY <1>1, <1>5 DEF ReadAs
<1>7. ctoken(p) = Token /\ seqno(p) = n
    <2>0. \A g \in Field \ {fHMAC} : SameTo(ReqFields, T, g) => get(p, g) = get(q, g)
        BY <1>5 DEF ReadAs
    <2>1. SameTo(ReqFields, T, 5)
        BY TestFields
    <2>2. SameTo(ReqFields, T, 4)
        BY <2>1 DEF SameTo
    <2>3. get(p, 4) = get(q, 4) /\ get(p, 5) = get(q, 5)
        BY <2>0, <2>1, <2>2, FieldFacts DEF fHMAC
    <2> QED BY <2>3 DEF ctoken, seqno, getNumber, fConnToken, fSeqno
<1>8. ASSUME NEW i \in 1..ReadLen, i > FLen(ReqFields) PROVE p.arr[i] = ReqByte
    <2>1. q.arr[i] = ReqByte
        <3>1. SumLens(q.flen) = FLen(ReqFields)
            BY FLenIs DEF Framed
        <3> QED BY <1>8, <3>1 DEF Filled
    <2>2. ~(Key # NoKey /\ i > 4 /\ i <= 20)
        <3>1. Key # NoKey => FLen(ReqFields) >= 20
            <4>1. {1, 2} \subseteq ReqFields /\ (3 \in ReqFields <=> Key # NoKey)
                BY TestFields
            <4> QED BY <4>1, FLenIs DEF fMagic, fFlags, fHMAC
        <3>2. FLen(ReqFields) \in Nat /\ i \in Int
            BY FLenIs
        <3> QED BY <1>8, <3>1, <3>2
    <2> QED BY <1>6, <2>1, <2>2
<1>9. "hmac" \in flags(p) <=> Key # NoKey
    BY <1>6 DEF Framed
<1>10. Well(readReset(r)) /\ ServerBuffer(readReset(r))
    <2>1. Well(readReset(r)) /\ Cap(readReset(r)) = Cap(spkt) /\ readReset(r).key = q.key
        BY <1>1, <1>2, ReadBack DEF r
    <2> QED BY <1>1, <2>1, BufferIs DEF ServerBuffer
<1> QED BY <1>3, <1>6, <1>7, <1>8, <1>9, <1>10 DEF ReadOf, r, p

\* The same of any request, cut to the server's buffer where it is longer.
LEMMA RequestTaken ==
    ASSUME sc \in Scenario, sc.server.key = Key, ServerBuffer(spkt), NEW q, NEW n, Requests(q, n)
    PROVE  LET r == Received(spkt, bytes(q))
               p == addFields(readReset(r), fechoRequest, FALSE)
           IN  /\ readError(r) = "none" <=> (ReqLen <= sc.server.MTU \/ Key = NoKey) /\ Unforged(q)
               /\ ReadOf(p, q, n)
               /\ Well(readReset(r)) /\ ServerBuffer(readReset(r))
<1> DEFINE r == Received(spkt, bytes(q))
           p == addFields(readReset(r), fechoRequest, FALSE)
<1>1. /\ Framed(q, ReqFields) /\ q.key = Key /\ q.len = ReqLen /\ flags(q) \subseteq {"hmac"}
      /\ ctoken(q) = Token /\ seqno(q) = n /\ Filled(q, ReqByte) /\ (Key # NoKey => Hashed(q))
    BY DEF Requests
<1>2. Buffer(spkt) /\ spkt.key = Key /\ Cap(spkt) = sc.server.MTU /\ sc.server.MTU \in Nat
      /\ sc.server.MTU >= 100 /\ flags(q) \subseteq {"open", "reply", "close", "hmac"}
    BY <1>1, Settings DEF ServerBuffer
<1>3. ReqLen \in Nat /\ FLen(ReqFields) \in Nat /\ FLen(ReqFields) <= 92
    <2>1. Well(q)
        BY <1>1 DEF Framed
    <2> QED BY <1>1, <2>1, Bounds, FLenIs
<1>4. CASE ReqLen <= sc.server.MTU
    <2>1. q.len = ReadLen
        BY <1>1, <1>2, <1>3, <1>4 DEF ReadLen, Lesser
    <2> QED BY <1>1, <1>4, <2>1, RequestWhole
<1>5. CASE ~(ReqLen <= sc.server.MTU)
    <2> DEFINE c == CutTo(q, Cap(spkt))
    <2>1. q.len > Cap(spkt) /\ ReadLen = sc.server.MTU
        BY <1>1, <1>2, <1>3, <1>5 DEF ReadLen, Lesser
    <2>2. /\ Framed(c, ReqFields) /\ c.len = Cap(spkt) /\ c.key = q.key /\ flags(c) = flags(q)
          /\ c.arr = q.arr /\ c.flen = q.flen
          /\ \A g : get(c, g) = get(q, g)
          /\ Received(spkt, bytes(q)) = Received(spkt, bytes(c))
        BY <1>1, <1>2, <2>1, CutIs
    <2> HIDE DEF c
    <2>3. ctoken(c) = Token /\ seqno(c) = n
        BY <1>1, <2>2 DEF ctoken, seqno, getNumber
    <2>4. Filled(c, ReqByte)
        <3>1. c.len <= q.len /\ c.len \in Nat /\ q.len \in Nat
            BY <1>1, <1>2, <1>3, <2>1, <2>2
        <3>2. \A i \in 1..c.len : i \in 1..q.len
            BY <3>1
        <3> QED BY <1>1, <2>2, <3>2 DEF Filled
    <2>5. /\ (readError(r) = "none" <=> Unforged(c)) /\ ReadOf(p, c, n)
          /\ Well(readReset(r)) /\ ServerBuffer(readReset(r))
        <3>1. LET rc == Received(spkt, bytes(c))
                  pc0 == addFields(readReset(rc), fechoRequest, FALSE)
              IN  /\ (readError(rc) = "none" <=> Unforged(c)) /\ ReadOf(pc0, c, n)
                  /\ Well(readReset(rc)) /\ ServerBuffer(readReset(rc))
            BY <1>1, <1>2, <2>1, <2>2, <2>3, <2>4, RequestWhole
        <3> QED BY <2>2, <3>1
    <2>6. ReadOf(p, q, n)
        BY <2>2, <2>5 DEF ReadOf
    <2>7. Key # NoKey => readError(r) # "none"
        BY <1>1, <1>2, <2>1, CutRefused
    <2> QED BY <1>5, <2>5, <2>6, <2>7 DEF Unforged
<1> QED BY <1>4, <1>5

\* The lengths of the requests and of the server's buffer.
LEMMA LengthsAre ==
    ASSUME sc \in Scenario
    PROVE  /\ ReqLen \in Nat /\ Supplied.Length \in Nat /\ sc.server.MTU \in Nat /\ sc.server.MTU >= 100
           /\ FLen(ReqFields) \in Nat /\ FLen(ReqFields) <= 92 /\ FLen(RepFields) \in Nat /\ FLen(RepFields) <= 92
           /\ ReadLen \in Nat /\ FLen(ReqFields) <= ReadLen /\ ReadLen <= ReqLen /\ ReadLen <= sc.server.MTU
           /\ FLen(ReqFields) <= ReqLen /\ Supplied.Length <= ReqLen
           /\ ~OneWayTest => FLen(ReqFields) <= FLen(RepFields)
<1>1. Supplied.Length \in Nat /\ sc.server.MTU \in Nat /\ sc.server.MTU >= 100
    BY AgreedIs, Settings
<1>2. FLen(ReqFields) \in Nat /\ FLen(ReqFields) <= 92 /\ FLen(RepFields) \in Nat /\ FLen(RepFields) <= 92
    BY FLenIs
<1>3. ~OneWayTest => FLen(ReqFields) <= FLen(RepFields)
    BY TestFields, FLenIs
<1> QED BY <1>1, <1>2, <1>3 DEF ReqLen, ReadLen, Lesser, Greater

\* The fields the server takes a one-way request to have, and what it reads of
\* those it has.
LEMMA OneWayRead ==
    ASSUME sc \in Scenario, OneWayTest, NEW q, NEW n, Requests(q, n), NEW p, ReadOf(p, q, n),
           NEW t, HoldsTime(q, t, 12), t.wall # 0 <=> "wall" \in Ck, t.mono # 0 <=> "mono" \in Ck
    PROVE  LET u == OneWayFields(p)
           IN  /\ Buffer(u) /\ u.key = p.key /\ Cap(u) = Cap(p)
               /\ Rs = {"count", "window"} /\ "wall" \in Ck => timestamp(u).send.wall = t.wall
               /\ Rs = {"count", "window"} /\ Ck = BothClocks => timestamp(u).send.mono = t.mono
<1> DEFINE S1 == StatsFields({"count", "window"})
           A == AtFields({"send"}, BothClocks)
           u == OneWayFields(p)
           T == TestHeader \cup (S1 \cup A)
<1>1. Well(p) /\ Shaped(p) /\ Layout(p, TestHeader)
      /\ \A i \in 1..ReadLen : ~(Key # NoKey /\ i > 4 /\ i <= 20) => p.arr[i] = q.arr[i]
    BY DEF ReadOf, Well
<1>2. u = addFields(p, S1 \cup A, FALSE)
    <2>1. u = Widened(Widened(p, S1), A)
        BY DEF OneWayFields, addTimestampFields, addReceivedStatsFields, Widened
    <2> HIDE DEF S1, A
    <2>2. Widened(Widened(p, S1), A) = Widened(p, S1 \cup A)
        BY <1>1, AddTwice
    <2> HIDE DEF u
    <2> QED BY <2>1, <2>2 DEF Widened
<1>3. /\ Shaped(u) /\ u.arr = p.arr /\ u.key = p.key /\ u.ok = p.ok /\ Cap(u) = Cap(p)
      /\ Layout(u, T)
    <2> DEFINE fl == [f \in Field |-> IF f \in S1 \cup A THEN fcaps[f] ELSE p.flen[f]]
    <2>1. u = [p EXCEPT !.flen = fl]
        BY <1>2 DEF addFields, Relaid
    <2>2. fl = [f \in Field |-> IF f \in T THEN fcaps[f] ELSE 0]
        BY <1>1, LayoutIs
    <2> HIDE DEF fl, T, u
    <2>3. u.flen = fl /\ Shaped(u) /\ u.arr = p.arr /\ u.key = p.key /\ u.ok = p.ok
        BY <1>1, <2>1 DEF Shaped
    <2> QED BY <2>2, <2>3 DEF Layout, Cap
<1> HIDE DEF u
<1>4. Buffer(u)
    BY <1>1, <1>3, Caps DEF Buffer, Well
<1>5. S1 = {6, 7}
    BY StatsFieldsIs
<1>6. A = {12, 13}
    <2>1. /\ A \subseteq 8..13 /\ 8 \notin A /\ 9 \notin A /\ 10 \notin A /\ 11 \notin A /\ 12 \in A /\ 13 \in A
        BY AtFieldsIs DEF BothClocks
    <2> HIDE DEF A
    <2>2. \A f \in 8..13 : f = 8 \/ f = 9 \/ f = 10 \/ f = 11 \/ f = 12 \/ f = 13
        OBVIOUS
    <2>3. \A f \in A : f = 12 \/ f = 13
        BY <2>1, <2>2
    <2> QED BY <2>1, <2>3
<1>7. Rs = {"count", "window"} => \A g \in {12, 13} : (g = 13 => 12 \in ReqFields) => SameTo(ReqFields, T, g - 1)
    <2> SUFFICES ASSUME Rs = {"count", "window"}, NEW g \in {12, 13}, g = 13 => 12 \in ReqFields
                 PROVE  SameTo(ReqFields, T, g - 1)
        OBVIOUS
    <2>1. AtFields({"send"}, Ck) \subseteq {12, 13}
        <3>1. LET B == AtFields({"send"}, Ck)
              IN  B \subseteq 8..13 /\ 8 \notin B /\ 9 \notin B /\ 10 \notin B /\ 11 \notin B
            BY AtFieldsIs
        <3> QED BY <3>1
    <2>2. ReqFields = TestHeader \cup {6, 7} \cup AtFields({"send"}, Ck)
        BY <1>5 DEF ReqFields
    <2>3. T = TestHeader \cup {6, 7, 12, 13}
        BY <1>5, <1>6
    <2>4. TestHeader \subseteq 1..5
        BY TestFields
    <2> HIDE DEF T
    <2> QED BY <2>1, <2>2, <2>3, <2>4 DEF SameTo
<1>8. ASSUME NEW g \in {12, 13}, g \in ReqFields, SameTo(ReqFields, T, g - 1) PROVE getNumber(u, g) = getNumber(q, g)
    <2>1. SameTo(ReqFields, T, g)
        <3>1. g \in T
            BY <1>6
        <3> HIDE DEF T
        <3> QED BY <1>8, <3>1 DEF SameTo
    <2>2. Layout(q, ReqFields) /\ SumLens(q.flen) = FLen(ReqFields) /\ Well(q)
        BY RequestLayout
    <2>3. g \in Field /\ fHMAC \in Field /\ fHMAC < g
        BY FieldFacts DEF fHMAC
    <2>4. Key # NoKey => 20 <= Pos(q, g)
        <3>1. Pos(q, fHMAC) + q.flen[fHMAC] <= Pos(q, g)
            BY <2>2, <2>3, Positions
        <3>2. Key # NoKey => Pos(q, fHMAC) = 4 /\ q.flen[fHMAC] = 16
            <4>1. fMagic \in ReqFields /\ fFlags \in ReqFields /\ (fHMAC \in ReqFields <=> Key # NoKey)
                BY TestFields DEF fMagic, fFlags, fHMAC
            <4> QED BY <2>2, <4>1, OpenLayout
        <3> QED BY <3>1, <3>2
    <2>5. Pos(q, g) \in Nat
        BY <2>2, <2>3, Lengths
    <2>6. ASSUME NEW i \in 1..SumLens(q.flen), i > Pos(q, g) PROVE u.arr[i] = q.arr[i]
        <3>1. i \in 1..ReadLen
            BY <2>2, LengthsAre
        <3>2. ~(Key # NoKey /\ i > 4 /\ i <= 20)
            BY <2>4, <2>5, <2>6, <3>1, LengthsAre
        <3> QED BY <1>1, <1>3, <3>1, <3>2
    <2>7. get(u, g) = get(q, g)
        <3> HIDE DEF T
        <3> QED BY <1>3, <2>1, <2>2, <2>3, <2>6, FieldKept
    <2> QED BY <2>7 DEF getNumber
<1>9. timestamp(u).send = [wall |-> getNumber(u, 12), mono |-> getNumber(u, 13)]
    <2>1. u.flen[12] > 0 /\ u.flen[13] > 0
        <3>1. 12 \in T /\ 13 \in T
            BY <1>6
        <3> HIDE DEF T
        <3> QED BY <1>3, <3>1, LayoutIs, Caps, FieldFacts
    <2> QED BY <2>1 DEF timestamp, tget, isset, fSWall
<1>10. "wall" \in Ck => 12 \in ReqFields
    <2>1. "wall" \in Ck => 12 \in AtFields({"send"}, Ck)
        BY AtFieldsIs
    <2> QED BY <2>1 DEF ReqFields
<1>11. "mono" \in Ck => 13 \in ReqFields
    <2>1. "mono" \in Ck => 13 \in AtFields({"send"}, Ck)
        BY AtFieldsIs
    <2> QED BY <2>1 DEF ReqFields
<1> HIDE DEF T
<1>12. Rs = {"count", "window"} /\ "wall" \in Ck => getNumber(u, 12) = t.wall
    BY <1>7, <1>8, <1>10 DEF HoldsTime
<1>13. Rs = {"count", "window"} /\ Ck = BothClocks => getNumber(u, 13) = t.mono
    BY <1>7, <1>8, <1>10, <1>11 DEF HoldsTime, BothClocks
<1> QED BY <1>3, <1>4, <1>9, <1>12, <1>13 DEF u

-----------------------------------------------------------------------------
(* The reply                                                               *)

\* What the server stamps a reply with, from when it was received and answered.
ServerStamp(t) ==
    IF At = {"midpoint"}
    THEN [receive |-> ServerTime(t.received, BothClocks), send |-> ServerTime(t.received, BothClocks)]
    ELSE [receive |-> IF "receive" \in At THEN ServerTime(t.received, Ck) ELSE NoTime,
          send |-> IF "send" \in At THEN ServerTime(t.replied, Ck) ELSE NoTime]

\* EchoStamp is the stamp of a request answered a unit of time after it was received.
LEMMA EchoStampIs ==
    ASSUME sc \in Scenario, NEW t, t.received \in Nat, t.replied = t.received + 1,
           now' = t.replied
    PROVE  EchoStamp(At, Ck) = ServerStamp(t)
<1> DEFINE x == t.received
           received == ServerTime(x, BothClocks)
           sent == ServerTime(x + 1, Ck)
<1>1. now' - 1 = x /\ now' = x + 1 /\ x \in Nat
    OBVIOUS
<1>2. received = [wall |-> 1000 + x, mono |-> 500 + x]
    BY <1>1, TimesIs DEF BothClocks
<1>3. sent = [wall |-> IF "wall" \in Ck THEN 1000 + (x + 1) ELSE 0,
              mono |-> IF "mono" \in Ck THEN 500 + (x + 1) ELSE 0]
    BY <1>1, TimesIs
<1>4. KeepClocks(received, Ck) = ServerTime(x, Ck)
    BY <1>1, <1>2, TimesIs DEF KeepClocks
<1> HIDE DEF x
<1>5. Midpoint(received, sent) = received
    <2>1. "wall" \in Ck \/ "mono" \in Ck
        BY AgreedIs DEF BothClocks
    <2> HIDE DEF received, sent
    <2>2. TimeSub(sent, received) = 1
        <3>1. CASE "mono" \in Ck
            <4>1. sent.mono = 501 + x /\ received.mono = 500 + x
                BY <1>1, <1>2, <1>3, <3>1
            <4>2. BothMono(sent, received)
                BY <1>1, <4>1 DEF BothMono
            <4> QED BY <1>1, <4>1, <4>2 DEF TimeSub
        <3>2. CASE "mono" \notin Ck
            <4>1. sent.mono = 0 /\ sent.wall = 1001 + x /\ received.wall = 1000 + x
                BY <1>1, <1>2, <1>3, <2>1, <3>2
            <4>2. ~BothMono(sent, received)
                BY <4>1 DEF BothMono
            <4> QED BY <1>1, <4>1, <4>2 DEF TimeSub
        <3> QED BY <3>1, <3>2
    <2>3. 1 \div 2 = 0
        OBVIOUS
    <2>4. TimeAdd(received, 0) = received
        BY <1>1, <1>2 DEF TimeAdd
    <2> QED BY <2>2, <2>3, <2>4 DEF Midpoint
<1>6. EchoStamp(At, Ck) =
        IF At = {"midpoint"} THEN [receive |-> Midpoint(received, sent), send |-> Midpoint(received, sent)]
        ELSE [receive |-> IF "receive" \in At THEN KeepClocks(received, Ck) ELSE NoTime,
              send |-> IF "send" \in At THEN sent ELSE NoTime]
    <2>1. ServerTime(now' - 1, BothClocks) = received /\ ServerTime(now', Ck) = sent
        BY <1>1
    <2> HIDE DEF received, sent
    <2> QED BY <2>1 DEF EchoStamp
<1> HIDE DEF received, sent
<1>7. received = ServerTime(t.received, BothClocks) /\ sent = ServerTime(t.replied, Ck)
    BY DEF received, sent, x
<1> QED BY <1>4, <1>5, <1>6, <1>7 DEF ServerStamp, x

\* The fields it takes: those of RepFields.
LEMMA ServerStampIs ==
    ASSUME sc \in Scenario, NEW t, t.received \in Nat, t.replied \in Nat
    PROVE  TestHeader \cup StatsFields(Rs) \cup StampsOf(At, ServerStamp(t)) = RepFields
<1> DEFINE s == ServerStamp(t)
           R == ServerTime(t.received, Ck)
           S1 == ServerTime(t.replied, Ck)
           B == ServerTime(t.received, BothClocks)
<1>1. (R.wall # 0 <=> "wall" \in Ck) /\ (R.mono # 0 <=> "mono" \in Ck)
      /\ (S1.wall # 0 <=> "wall" \in Ck) /\ (S1.mono # 0 <=> "mono" \in Ck)
      /\ B.wall # 0 /\ B.mono # 0
    <2>1. R = [wall |-> IF "wall" \in Ck THEN 1000 + t.received ELSE 0,
               mono |-> IF "mono" \in Ck THEN 500 + t.received ELSE 0]
        BY TimesIs
    <2>2. S1 = [wall |-> IF "wall" \in Ck THEN 1000 + t.replied ELSE 0,
               mono |-> IF "mono" \in Ck THEN 500 + t.replied ELSE 0]
        BY TimesIs
    <2>3. B = [wall |-> 1000 + t.received, mono |-> 500 + t.received]
        BY TimesIs DEF BothClocks
    <2> HIDE DEF R, S1, B
    <2> QED BY <2>1, <2>2, <2>3
<1>2. At \in (SUBSET {"receive", "send"}) \cup {{"midpoint"}}
    BY AgreedIs
<1> HIDE DEF R, S1, B
<1>3. CASE At = {"midpoint"}
    <2>1. s.receive = B
        BY <1>3 DEF ServerStamp, B
    <2>2. Ticks(B, 10) = {10, 11}
        BY <1>1 DEF Ticks
    <2>3. StampsOf(At, s) = {10, 11}
        BY <1>3, <2>1, <2>2 DEF StampsOf, fMWall
    <2> QED BY <1>3, <2>3 DEF RepFields
<1>4. CASE At # {"midpoint"}
    <2>1. "midpoint" \notin At
        BY <1>2, <1>4
    <2>2. ("receive" \in At => s.receive = R) /\ ("send" \in At => s.send = S1)
        BY <1>4 DEF ServerStamp, R, S1
    <2>3. Ticks(R, 8) = AtFields({"receive"}, Ck) /\ Ticks(S1, 12) = AtFields({"send"}, Ck)
        BY <1>1, TicksIs
    <2>4. StampsOf(At, s) = (IF "receive" \in At THEN AtFields({"receive"}, Ck) ELSE {})
                            \cup (IF "send" \in At THEN AtFields({"send"}, Ck) ELSE {})
        BY <1>4, <2>2, <2>3 DEF StampsOf, fRWall, fSWall
    <2>5. AtFields(At, Ck) = (IF "receive" \in At THEN AtFields({"receive"}, Ck) ELSE {})
                             \cup (IF "send" \in At THEN AtFields({"send"}, Ck) ELSE {})
        <3>1. ASSUME NEW f, StampOf[f] \in At
              PROVE  \/ StampOf[f] = "receive" /\ "receive" \in At
                     \/ StampOf[f] = "send" /\ "send" \in At
            <4> DEFINE a == StampOf[f]
            <4>1. a \in At /\ At \subseteq {"receive", "send"}
                BY <1>2, <1>4, <3>1
            <4> HIDE DEF a
            <4>2. a = "receive" \/ a = "send"
                BY <4>1
            <4> QED BY <4>1, <4>2 DEF a
        <3> QED BY <3>1 DEF AtFields
    <2> QED BY <1>4, <2>4, <2>5 DEF RepFields
<1> QED BY <1>3, <1>4

\* What is known of a reply.
RepLen == Lesser(sc.server.MTU, Greater(Supplied.Length, FLen(RepFields)))
RepByte(fill) == IF fill # sc.server.NoFill THEN <<"fill", fill>> ELSE ReqByte
Answers(u, n, w, t, fill) ==
    /\ Sendable(u, RepFields) /\ u.key = Key /\ u.len = RepLen /\ Cap(u) = sc.server.MTU
    /\ flags(u) \subseteq {"reply", "hmac"} /\ ctoken(u) = Token /\ seqno(u) = n
    /\ "window" \in Rs => getNumber(u, fRWindow) = w
    /\ HoldsStamps(u, At, ServerStamp(t)) /\ Filled(u, RepByte(fill))

\* The reply before its payload is filled: its fields are set, and behind them
\* is what was read of the request.
Replying(p, c) ==
    LET p1 == setLen(setFlagBits(p, {"reply"}), 0)
        p2 == IF "count" \in Rs THEN setReceivedCount(p1, c.count) ELSE p1
        p3 == IF "window" \in Rs THEN setReceivedWindow(p2, c.window) ELSE p2
    IN  IF At # {} THEN setTimestamp(p3, At, EchoStamp(At, Ck)) ELSE removeTimestamps(p3)

\* Stamps stay where they are.
LEMMA StampsOn ==
    ASSUME NEW u, NEW v, NEW at, NEW ts, HoldsStamps(u, at, ts), \A g \in 8..13 : get(v, g) = get(u, g)
    PROVE  HoldsStamps(v, at, ts)
<1>1. ASSUME NEW t, NEW wf \in {8, 10, 12}, HoldsTime(u, t, wf) PROVE HoldsTime(v, t, wf)
    BY <1>1, HoldsOn
<1> QED BY <1>1 DEF HoldsStamps, fMWall, fRWall, fSWall

\* What the reply holds before it gets its length, fill and HMAC.
LEMMA ReplyingIs ==
    ASSUME sc \in Scenario, NEW p, NEW q, NEW n, ReadOf(p, q, n), NEW c,
           NEW t, t.received \in Nat, t.replied = t.received + 1, now' = t.replied
    PROVE  LET u == Replying(p, c)
           IN  /\ Tight(u, RepFields) /\ u.key = Key /\ Cap(u) = sc.server.MTU
               /\ \A g \in {1, 4, 5} : get(u, g) = get(p, g)
               /\ flags(u) = flags(p) \cup {"reply"}
               /\ "window" \in Rs => getNumber(u, fRWindow) = c.window
               /\ HoldsStamps(u, At, ServerStamp(t))
               /\ \A i \in 1..Cap(p) : i > u.len => u.arr[i] = p.arr[i]
<1> DEFINE T == TestHeader
           S1 == StatsFields(Rs)
           p0 == setFlagBits(p, {"reply"})
           p1 == setLen(p0, 0)
           p2 == IF "count" \in Rs THEN setReceivedCount(p1, c.count) ELSE p1
           p3 == IF "window" \in Rs THEN setReceivedWindow(p2, c.window) ELSE p2
           u == IF At # {} THEN setTimestamp(p3, At, ServerStamp(t)) ELSE removeTimestamps(p3)
           A == StampsOf(At, ServerStamp(t))
<1>1. Replying(p, c) = u
    BY EchoStampIs DEF Replying
<1>2. Well(p) /\ Layout(p, T) /\ p.key = Key /\ Cap(p) = sc.server.MTU
    BY DEF ReadOf
<1>3. p.flen[fFlags] = 1 /\ Pos(p, fFlags) = 3 /\ SumLens(p.flen) >= 4 /\ SumLens(p.flen) \in Nat
    <2>1. fMagic \in T /\ fFlags \in T
        BY TestFields DEF fMagic, fFlags
    <2> HIDE DEF T
    <2>2. /\ p.flen[fFlags] = 1 /\ Pos(p, fFlags) = 3
          /\ p.flen[fHMAC] = (IF fHMAC \in T THEN 16 ELSE 0)
          /\ p.flen[fConnToken] = (IF fConnToken \in T THEN 8 ELSE 0)
          /\ SumLens(p.flen) \in Nat /\ SumLens(p.flen) >= 4 + p.flen[fHMAC] + p.flen[fConnToken]
        BY <1>2, <2>1, OpenLayout
    <2> QED BY <2>2
<1>4. Over(p0, p, fFlags) /\ flags(p0) = flags(p) \cup {"reply"}
    BY <1>2, <1>3, FlagsSet
<1> HIDE DEF p0
<1>5. /\ Well(p0) /\ p0.flen = p.flen /\ p0.key = p.key /\ Cap(p0) = Cap(p)
      /\ \A i \in 1..Cap(p) : i > 4 => p0.arr[i] = p.arr[i]
      /\ \A g \in Field : g # fFlags => get(p0, g) = get(p, g)
    <2>1. fcaps[fFlags] = 1
        BY Caps DEF fFlags
    <2>2. Cap(p) \in Nat
        BY <1>2, Bounds
    <2>3. ASSUME NEW i \in 1..Cap(p), i > 4 PROVE p0.arr[i] = p.arr[i]
        <3>1. ~(i > Pos(p, fFlags) /\ i <= Pos(p, fFlags) + fcaps[fFlags])
            BY <1>3, <2>1, <2>2, <2>3
        <3> QED BY <1>4, <3>1 DEF Over
    <2> QED BY <1>4, <2>3 DEF Over
<1>6. Lengthened(p1, p0, 0)
    BY <1>5, SetLenIs
<1> HIDE DEF p1
<1>7. Tight(p1, T) /\ p1.arr = p0.arr /\ p1.key = Key /\ Cap(p1) = Cap(p) /\ p1.len >= 4
      /\ p1.len \in Nat /\ \A g : get(p1, g) = get(p0, g)
    <2>1. /\ Well(p1) /\ p1.arr = p0.arr /\ p1.flen = p.flen /\ p1.key = Key /\ p1.tlen = 0 /\ Cap(p1) = Cap(p)
          /\ p1.len = Lesser(Cap(p), Greater(0, SumLens(p.flen)))
          /\ \A g : get(p1, g) = get(p0, g)
        BY <1>2, <1>5, <1>6 DEF Lengthened
    <2>2. p1.len = SumLens(p.flen)
        <3>1. SumLens(p.flen) \in Nat /\ SumLens(p.flen) <= Cap(p) /\ Cap(p) \in Nat
            BY <1>2, Bounds
        <3> QED BY <2>1, <3>1 DEF Lesser, Greater
    <2> QED BY <1>2, <1>3, <2>1, <2>2 DEF Tight, Layout
<1>8. Gained(p3, p1, T, S1) /\ ("window" \in Rs => getNumber(p3, fRWindow) = c.window)
    <2> HIDE DEF T
    <2> QED BY <1>7, StatsTight
<1> HIDE DEF p3
<1>9. Tight(p3, T \cup S1)
    BY <1>8 DEF Gained
<1>10. Gained(u, p3, T \cup S1, A) /\ HoldsStamps(u, At, ServerStamp(t))
    <2>1. CASE At # {}
        <3> HIDE DEF T, S1
        <3>1. u = setTimestamp(p3, At, ServerStamp(t))
            BY <2>1
        <3> HIDE DEF u
        <3> QED BY <1>9, <3>1, StampTight
    <2>2. CASE At = {}
        <3>1. A = {} /\ HoldsStamps(u, At, ServerStamp(t))
            <4>1. "receive" \notin At /\ "send" \notin At /\ At # {"midpoint"}
                BY <2>2
            <4> HIDE DEF u
            <4> QED BY <4>1 DEF StampsOf, HoldsStamps
        <3>2. u = ZeroEach(p3, StampFields, {}, DOMAIN StampOf)
            BY <2>2 DEF removeTimestamps
        <3>3. (T \cup S1) \cap Field \subseteq 1..7
            <4>1. T \subseteq 1..5
                BY TestFields
            <4>2. S1 \subseteq {6, 7}
                BY StatsFieldsIs
            <4> HIDE DEF T, S1
            <4>3. \A f \in T : f \in 1..7
                BY <4>1
            <4>4. \A f \in S1 : f \in 1..7
                BY <4>2
            <4> QED BY <4>3, <4>4
        <3> HIDE DEF u, T, S1, A
        <3>4. {} \subseteq 8..13
            OBVIOUS
        <3>5. Gained(ZeroEach(p3, StampFields, {}, DOMAIN StampOf), p3, T \cup S1, {})
            BY <1>9, <3>3, <3>4, StampZeroesTight
        <3> QED BY <3>1, <3>2, <3>5
    <2> QED BY <2>1, <2>2
<1> HIDE DEF u
<1>11. T \cup S1 \cup A = RepFields
    BY ServerStampIs
<1>12. S1 \subseteq {6, 7} /\ A \subseteq 8..13
    <2>1. S1 \subseteq {6, 7}
        BY StatsFieldsIs
    <2>2. A \subseteq 8..13
        BY DEF StampsOf, Ticks, fMWall, fRWall, fSWall
    <2> QED BY <2>1, <2>2
<1> HIDE DEF T, S1, A
<1>13. Tight(u, RepFields) /\ u.key = Key /\ Cap(u) = Cap(p) /\ p1.len <= u.len /\ p3.len <= u.len
    <2>1. Tight(u, (T \cup S1) \cup A) /\ u.key = Key /\ Cap(u) = Cap(p) /\ p1.len <= p3.len /\ p3.len <= u.len
        BY <1>7, <1>8, <1>10 DEF Gained
    <2>2. p3.len \in Nat /\ u.len \in Nat
        BY <1>9, <2>1, Bounds DEF Tight
    <2>3. p1.len <= u.len
        BY <1>7, <2>1, <2>2
    <2>4. Tight(u, RepFields)
        BY <1>11, <2>1
    <2> QED BY <2>1, <2>3, <2>4
<1>14. \A g \in 1..5 : get(u, g) = get(p0, g)
    <2>1. \A g \in 1..5 : g \in Field \ A /\ g \in Field \ S1
        BY <1>12, FieldFacts
    <2> QED BY <1>7, <1>8, <1>10, <2>1 DEF Gained
<1>15. flags(u) = flags(p) \cup {"reply"}
    <2>1. get(u, fFlags) = get(p0, fFlags)
        BY <1>14 DEF fFlags
    <2> QED BY <1>4, <2>1 DEF flags
<1>16. \A g \in {1, 4, 5} : get(u, g) = get(p, g)
    BY <1>5, <1>14, FieldFacts DEF fFlags
<1>17. "window" \in Rs => getNumber(u, fRWindow) = c.window
    <2>1. get(u, fRWindow) = get(p3, fRWindow)
        BY <1>10, <1>12, FieldFacts DEF Gained, fRWindow
    <2> QED BY <1>8, <2>1 DEF getNumber
<1>18. ASSUME NEW i \in 1..Cap(p), i > u.len PROVE u.arr[i] = p.arr[i]
    <2>1. u.len \in Nat /\ p3.len \in Nat /\ Cap(p) \in Nat /\ Cap(p3) = Cap(p)
        BY <1>2, <1>7, <1>8, <1>9, <1>13, Bounds DEF Tight, Gained
    <2>2. i > p3.len /\ i > p1.len /\ i > 4
        BY <1>7, <1>13, <1>18, <2>1
    <2>3. u.arr[i] = p3.arr[i]
        BY <1>10, <1>18, <2>1 DEF Gained
    <2>4. p3.arr[i] = p1.arr[i]
        BY <1>7, <1>8, <2>2 DEF Gained
    <2> QED BY <1>5, <1>7, <2>2, <2>3, <2>4
<1> QED BY <1>1, <1>2, <1>10, <1>13, <1>15, <1>16, <1>17, <1>18

\* EchoReply answers the request.
LEMMA EchoReplyIs ==
    ASSUME sc \in Scenario, ~OneWayTest, NEW p, NEW q, NEW n, ReadOf(p, q, n), NEW c, c.params = Supplied,
           NEW t, t.received \in Nat, t.replied = t.received + 1, now' = t.replied
    PROVE  Answers(EchoReply(p, c), n, c.window, t, c.fill)
<1> DEFINE p4 == Replying(p, c)
           p5 == setLen(p4, Supplied.Length)
           p6 == IF c.fill = sc.server.NoFill THEN p5 ELSE fillPayload(p5, <<"fill", c.fill>>)
           u == updateHMAC(p6)
           B == RepByte(c.fill)
<1>1. EchoReply(p, c) = u
    <2>1. c.params.ReceivedStats = Rs /\ c.params.StampAt = At /\ c.params.Clock = Ck
          /\ c.params.Length = Supplied.Length
        BY DEF Rs, At, Ck
    <2> QED BY <2>1 DEF EchoReply, Replying
<1>2. /\ Tight(p4, RepFields) /\ p4.key = Key /\ Cap(p4) = sc.server.MTU
      /\ \A g \in {1, 4, 5} : get(p4, g) = get(p, g)
      /\ flags(p4) = flags(p) \cup {"reply"}
      /\ "window" \in Rs => getNumber(p4, fRWindow) = c.window
      /\ HoldsStamps(p4, At, ServerStamp(t))
      /\ \A i \in 1..Cap(p) : i > p4.len => p4.arr[i] = p.arr[i]
    BY ReplyingIs
<1> HIDE DEF p4
<1>3. Well(p4) /\ Layout(p4, RepFields) /\ p4.len = SumLens(p4.flen) /\ SumLens(p4.flen) = FLen(RepFields)
    BY <1>2, FLenIs DEF Tight
<1>4. Lengthened(p5, p4, Supplied.Length)
    BY <1>3, LengthsAre, SetLenIs
<1> HIDE DEF p5
<1>5. /\ Well(p5) /\ p5.arr = p4.arr /\ p5.flen = p4.flen /\ p5.key = Key /\ Cap(p5) = sc.server.MTU
      /\ p5.len = RepLen /\ \A g : get(p5, g) = get(p4, g)
    BY <1>2, <1>3, <1>4 DEF Lengthened, RepLen
<1>6. /\ Well(p6) /\ p6.flen = p4.flen /\ p6.len = RepLen /\ p6.key = Key /\ Cap(p6) = sc.server.MTU
      /\ Filled(p6, B) /\ \A g \in Field : get(p6, g) = get(p4, g)
    <2>1. CASE c.fill # sc.server.NoFill
        <3> DEFINE v == fillPayload(p5, <<"fill", c.fill>>)
        <3>1. /\ Well(v) /\ v.flen = p5.flen /\ v.len = p5.len /\ v.key = p5.key
              /\ Cap(v) = Cap(p5) /\ Filled(v, <<"fill", c.fill>>)
              /\ \A g \in Field : get(v, g) = get(p5, g)
            BY <1>5, FillIs
        <3>2. p6 = v /\ B = <<"fill", c.fill>>
            BY <2>1 DEF RepByte
        <3> HIDE DEF p6, v, B
        <3> QED BY <1>5, <3>1, <3>2
    <2>2. CASE c.fill = sc.server.NoFill
        <3>1. p6 = p5 /\ B = ReqByte
            BY <2>2 DEF RepByte
        <3> HIDE DEF p6, B
        <3>2. ASSUME NEW i \in 1..p5.len, i > SumLens(p5.flen) PROVE p5.arr[i] = ReqByte
            <4>1. i \in 1..RepLen /\ i > FLen(RepFields)
                BY <1>3, <1>5, <3>2
            <4>2. i \in 1..ReadLen /\ i > FLen(ReqFields) /\ i \in 1..sc.server.MTU
                BY <4>1, LengthsAre DEF RepLen, ReadLen, Lesser, Greater
            <4>3. p.arr[i] = ReqByte /\ Cap(p) = sc.server.MTU
                BY <4>2 DEF ReadOf
            <4>4. p4.arr[i] = p.arr[i]
                BY <1>2, <1>3, <4>1, <4>2, <4>3
            <4> QED BY <1>5, <4>3, <4>4
        <3>3. Filled(p5, ReqByte)
            BY <3>2 DEF Filled
        <3> QED BY <1>5, <3>1, <3>3
    <2> QED BY <2>1, <2>2
<1> HIDE DEF p6
<1>7. /\ get(p, fMagic) = Magic /\ ctoken(p) = Token /\ seqno(p) = n /\ flags(p) \subseteq {"hmac"}
      /\ "hmac" \in flags(p) <=> Key # NoKey
    BY DEF ReadOf
<1>8. \A g \in 1..13 : get(p6, g) = get(p4, g)
    BY <1>6, FieldFacts
<1>9. Headed(p6, RepFields)
    <2>1. Layout(p6, RepFields)
        BY <1>3, <1>6 DEF Layout
    <2>2. fMagic \in RepFields /\ fFlags \in RepFields /\ (fHMAC \in RepFields <=> p6.key # NoKey)
        BY <1>6, TestFields DEF fMagic, fFlags, fHMAC
    <2>3. get(p6, fMagic) = Magic
        BY <1>2, <1>7, <1>8 DEF fMagic
    <2>4. flags(p6) = flags(p4)
        BY <1>8 DEF flags, fFlags
    <2> QED BY <1>2, <1>6, <1>7, <2>1, <2>2, <2>3, <2>4 DEF Headed
<1>10. Sendable(u, RepFields) /\ Redone(u, p6, {fFlags, fHMAC}) /\ flags(u) = flags(p6) \cup HMACFlag(p6.key)
    BY <1>9, SealingIs
<1> HIDE DEF u, B
<1>11. u.key = Key /\ u.len = RepLen /\ Cap(u) = sc.server.MTU /\ Filled(u, B)
    BY <1>6, <1>10, StillFilled DEF Redone
<1>12. \A g \in {4, 5, 7} \cup 8..13 : get(u, g) = get(p4, g)
    BY <1>8, <1>10, FieldFacts DEF Redone, fFlags, fHMAC
<1>13. flags(u) \subseteq {"reply", "hmac"}
    <2>1. flags(p6) = flags(p4)
        BY <1>8 DEF flags, fFlags
    <2> QED BY <1>2, <1>7, <1>10, <2>1 DEF HMACFlag
<1>14. ctoken(u) = Token /\ seqno(u) = n
    BY <1>2, <1>7, <1>12 DEF ctoken, seqno, getNumber, fConnToken, fSeqno
<1>15. "window" \in Rs => getNumber(u, fRWindow) = c.window
    BY <1>2, <1>12 DEF getNumber, fRWindow
<1>16. HoldsStamps(u, At, ServerStamp(t))
    BY <1>2, <1>12, StampsOn
<1> QED BY <1>1, <1>10, <1>11, <1>13, <1>14, <1>15, <1>16 DEF Answers, B

-----------------------------------------------------------------------------
(* The reply at the client                                                 *)

\* The fields the client takes it to have.
LEMMA ExpectedIs ==
    ASSUME Shared(params), NEW p, Shaped(p)
    PROVE  Expected(p) = Widened(p, (fechoReply \cup StatsFields(Rs)) \cup AtFields(At, Ck))
<1> DEFINE S1 == StatsFields(Rs)
           A == AtFields(At, Ck)
           G == fechoReply
<1>1. Expected(p) = Widened(Widened(Widened(p, G), S1), A)
    BY DEF Expected, addTimestampFields, addReceivedStatsFields, Widened, Shared
<1> HIDE DEF S1, A, G
<1>2. Widened(Widened(p, G), S1) = Widened(p, G \cup S1)
    BY AddTwice
<1>3. Widened(Widened(p, G \cup S1), A) = Widened(p, (G \cup S1) \cup A)
    BY AddTwice
<1> QED BY <1>1, <1>2, <1>3 DEF S1, A, G

\* What the client reads of the timestamps; but for a midpoint of the monotonic
\* clock alone.
ReadStamp(t) ==
    [receive |-> IF At = {} \/ At = {"send"} THEN NoTime ELSE ServerTime(t.received, Ck),
     send |-> IF At = {"midpoint"} THEN ServerTime(t.received, Ck)
              ELSE IF "send" \in At THEN ServerTime(t.replied, Ck) ELSE NoTime]
MonoMidpoint == At = {"midpoint"} /\ Ck = {"mono"}

\* What the client reads where the server stamped.
LEMMA StampsRead ==
    ASSUME sc \in Scenario, NEW t, t.received \in Nat, t.replied \in Nat, ~MonoMidpoint,
           NEW u, HoldsStamps(u, At, ServerStamp(t)), NEW p, Layout(p, ExpFields),
           \A g \in 8..13 : SameTo(RepFields, ExpFields, g) => get(p, g) = get(u, g)
    PROVE  timestamp(p) = ReadStamp(t)
<1> DEFINE R == ServerTime(t.received, Ck)
           S1 == ServerTime(t.replied, Ck)
           N(f) == getNumber(p, f)
<1>1. /\ R = [wall |-> IF "wall" \in Ck THEN 1000 + t.received ELSE 0,
              mono |-> IF "mono" \in Ck THEN 500 + t.received ELSE 0]
      /\ S1 = [wall |-> IF "wall" \in Ck THEN 1000 + t.replied ELSE 0,
              mono |-> IF "mono" \in Ck THEN 500 + t.replied ELSE 0]
      /\ ServerTime(t.received, BothClocks) = [wall |-> 1000 + t.received, mono |-> 500 + t.received]
    <2>1. R = [wall |-> IF "wall" \in Ck THEN 1000 + t.received ELSE 0,
               mono |-> IF "mono" \in Ck THEN 500 + t.received ELSE 0]
        BY TimesIs
    <2>2. S1 = [wall |-> IF "wall" \in Ck THEN 1000 + t.replied ELSE 0,
               mono |-> IF "mono" \in Ck THEN 500 + t.replied ELSE 0]
        BY TimesIs
    <2>3. ServerTime(t.received, BothClocks) = [wall |-> 1000 + t.received, mono |-> 500 + t.received]
        BY TimesIs DEF BothClocks
    <2> HIDE DEF R, S1
    <2> QED BY <2>1, <2>2, <2>3
<1>2. At \in (SUBSET {"receive", "send"}) \cup {{"midpoint"}} /\ Ck \in (SUBSET BothClocks) \ {{}}
    BY AgreedIs
<1>3. \A f \in 8..13 : isset(p, f) <=> f \in AtFields(At, Ck)
    <2>1. \A f \in 8..13 : f \in ExpFields <=> f \in AtFields(At, Ck)
        <3>1. TestHeader \subseteq 1..5
            BY TestFields
        <3>2. StatsFields(Rs) \subseteq {6, 7}
            BY StatsFieldsIs
        <3> QED BY <3>1, <3>2 DEF ExpFields
    <2>2. \A f \in 8..13 : p.flen[f] = IF f \in ExpFields THEN 8 ELSE 0
        BY LayoutIs, FieldFacts, Caps
    <2> QED BY <2>1, <2>2 DEF isset
<1>4. timestamp(p) =
        [receive |-> [wall |-> IF isset(p, 10) THEN N(10) ELSE IF isset(p, 8) THEN N(8) ELSE 0,
                      mono |-> IF isset(p, 11) THEN N(11) ELSE IF isset(p, 9) THEN N(9) ELSE 0],
         send |-> [wall |-> IF isset(p, 12) THEN N(12) ELSE IF isset(p, 10) THEN N(10) ELSE 0,
                   mono |-> IF isset(p, 13) THEN N(13) ELSE IF isset(p, 11) THEN N(11) ELSE 0]]
    BY DEF timestamp, tget, fMWall, fRWall, fSWall, NoTime
<1>5. /\ isset(p, 8) <=> "receive" \in At /\ "wall" \in Ck
      /\ isset(p, 9) <=> "receive" \in At /\ "mono" \in Ck
      /\ isset(p, 10) <=> "midpoint" \in At /\ "wall" \in Ck
      /\ isset(p, 11) <=> "midpoint" \in At /\ "mono" \in Ck
      /\ isset(p, 12) <=> "send" \in At /\ "wall" \in Ck
      /\ isset(p, 13) <=> "send" \in At /\ "mono" \in Ck
    BY <1>3, AtFieldsIs
<1>6. NoTime = [wall |-> 0, mono |-> 0]
    BY DEF NoTime
<1> HIDE DEF R, S1
<1>7. CASE At = {"midpoint"}
    <2>1. "wall" \in Ck
        BY <1>2, <1>7 DEF MonoMidpoint, BothClocks
    <2>2. HoldsTime(u, ServerTime(t.received, BothClocks), 10)
        BY <1>7 DEF HoldsStamps, ServerStamp, fMWall
    <2>3. getNumber(u, 10) = 1000 + t.received /\ getNumber(u, 11) = 500 + t.received
        BY <1>1, <2>2 DEF HoldsTime
    <2>4. SameTo(RepFields, ExpFields, 10) /\ ("mono" \in Ck => SameTo(RepFields, ExpFields, 11))
        <3>1. LET B == AtFields(At, Ck)
              IN  B \subseteq 8..13 /\ 8 \notin B /\ 9 \notin B /\ 10 \in B /\ ("mono" \in Ck => 11 \in B)
            BY <1>7, <2>1, AtFieldsIs
        <3>2. RepFields = TestHeader \cup StatsFields(Rs) \cup {10, 11}
              /\ ExpFields = TestHeader \cup StatsFields(Rs) \cup AtFields(At, Ck)
            BY <1>7 DEF RepFields, ExpFields
        <3> QED BY <3>1, <3>2 DEF SameTo
    <2>5. N(10) = 1000 + t.received /\ ("mono" \in Ck => N(11) = 500 + t.received)
        BY <2>3, <2>4 DEF getNumber
    <2>6. ReadStamp(t) = [receive |-> R, send |-> R]
        BY <1>7 DEF ReadStamp, R
    <2>7. "send" \notin At /\ "receive" \notin At /\ "midpoint" \in At
        BY <1>7
    <2>8. R = [wall |-> 1000 + t.received, mono |-> IF "mono" \in Ck THEN 500 + t.received ELSE 0]
        BY <1>1, <2>1
    <2> QED BY <1>4, <1>5, <2>1, <2>5, <2>6, <2>7, <2>8
<1>8. CASE At # {"midpoint"}
    <2>1. At \subseteq {"receive", "send"} /\ "midpoint" \notin At
        BY <1>2, <1>8
    <2>2. \A g \in 8..13 : SameTo(RepFields, ExpFields, g)
        BY <1>8, TestFields DEF SameTo
    <2>3. \A g \in 8..13 : N(g) = getNumber(u, g)
        BY <2>2 DEF getNumber
    <2>4. "receive" \in At => HoldsTime(u, R, 8)
        BY <1>8 DEF HoldsStamps, ServerStamp, fRWall, R
    <2>5. "send" \in At => HoldsTime(u, S1, 12)
        BY <1>8 DEF HoldsStamps, ServerStamp, fSWall, S1
    <2>6. (R.wall # 0 <=> "wall" \in Ck) /\ (R.mono # 0 <=> "mono" \in Ck)
          /\ (S1.wall # 0 <=> "wall" \in Ck) /\ (S1.mono # 0 <=> "mono" \in Ck)
        BY <1>1
    <2>7. /\ isset(p, 8) => N(8) = R.wall
          /\ isset(p, 9) => N(9) = R.mono
          /\ isset(p, 12) => N(12) = S1.wall
          /\ isset(p, 13) => N(13) = S1.mono
        BY <1>5, <2>3, <2>4, <2>5, <2>6 DEF HoldsTime
    <2>8. R = [wall |-> IF "wall" \in Ck THEN R.wall ELSE 0, mono |-> IF "mono" \in Ck THEN R.mono ELSE 0]
          /\ S1 = [wall |-> IF "wall" \in Ck THEN S1.wall ELSE 0, mono |-> IF "mono" \in Ck THEN S1.mono ELSE 0]
        BY <1>1
    <2>9. ReadStamp(t) = [receive |-> IF "receive" \in At THEN R ELSE NoTime,
                          send |-> IF "send" \in At THEN S1 ELSE NoTime]
        <3>1. (At = {} \/ At = {"send"}) <=> "receive" \notin At
            <4>1. CASE "receive" \in At
                BY <4>1
            <4>2. CASE "receive" \notin At /\ "send" \in At
                <5>1. \A a \in At : a = "send"
                    BY <2>1, <4>2
                <5> QED BY <4>2, <5>1
            <4>3. CASE "receive" \notin At /\ "send" \notin At
                <5>1. At = {}
                    BY <2>1, <4>3
                <5> QED BY <5>1
            <4> QED BY <4>1, <4>2, <4>3
        <3> QED BY <1>8, <3>1 DEF ReadStamp, R, S1
    <2>10. timestamp(p).receive = (IF "receive" \in At THEN R ELSE NoTime)
        BY <1>4, <1>5, <1>6, <2>1, <2>7, <2>8
    <2>11. timestamp(p).send = (IF "send" \in At THEN S1 ELSE NoTime)
        BY <1>4, <1>5, <1>6, <2>1, <2>7, <2>8
    <2>12. timestamp(p) = [receive |-> timestamp(p).receive, send |-> timestamp(p).send]
        BY DEF timestamp
    <2> QED BY <2>9, <2>10, <2>11, <2>12
<1> QED BY <1>7, <1>8

\* The client takes every reply that reaches it.
LEMMA ReplyRead ==
    ASSUME sc \in Scenario, Shared(params), Well(rpkt), rpkt.key = Key, Cap(rpkt) = Greater(Supplied.Length, 92),
           NEW u, NEW n, NEW w, NEW t, NEW fill, Answers(u, n, w, t, fill), t.received \in Nat, t.replied \in Nat
    PROVE  LET r == Received(rpkt, bytes(u))
               p == Expected(readReset(r))
           IN  /\ readError(r) = "none" /\ Well(p) /\ p.key = Key /\ Cap(p) = Cap(rpkt)
               /\ p.len = RepLen /\ seqno(p) = n
               /\ ~MonoMidpoint => timestamp(p) = ReadStamp(t)
               /\ (IF isset(p, fRWindow) THEN getNumber(p, fRWindow) ELSE 0) = IF "window" \in Rs THEN w ELSE 0
<1> DEFINE r == Received(rpkt, bytes(u))
           z == readReset(r)
           G == (fechoReply \cup StatsFields(Rs)) \cup AtFields(At, Ck)
           p == addFields(z, G, FALSE)
           F == RepFields
           H == ExpFields
<1>1. /\ Framed(u, F) /\ Unforged(u) /\ u.key = Key /\ u.len = RepLen
      /\ flags(u) \subseteq {"open", "reply", "close", "hmac"} /\ seqno(u) = n
      /\ "window" \in Rs => getNumber(u, fRWindow) = w
      /\ HoldsStamps(u, At, ServerStamp(t))
    BY DEF Answers, Sendable, Unforged
<1>2. Buffer(rpkt) /\ rpkt.key = u.key
    BY <1>1, BufferIs
<1>3. u.len <= Cap(rpkt)
    BY <1>1, LengthsAre DEF RepLen, Lesser, Greater
<1>4. readError(r) = "none"
    BY <1>1, <1>2, <1>3, SealDecides DEF Unforged
<1>5. Shaped(z)
    <2>1. Well(z)
        BY <1>1, <1>2, <1>3, ReadBack
    <2> QED BY <2>1 DEF Well
<1>6. Expected(z) = p
    <2> HIDE DEF z, G
    <2>1. Expected(z) = Widened(z, (fechoReply \cup StatsFields(Rs)) \cup AtFields(At, Ck))
        BY <1>5, ExpectedIs
    <2> QED BY <2>1 DEF Widened, G
<1>7. H = HeaderOf(u.key) \cup G /\ H \cap Field \subseteq F /\ (fHMAC \in G => u.key # NoKey)
    <2>1. H = HeaderOf(Key) \cup G
        BY DEF ExpFields, TestHeader, fechoReply, HeaderOf
    <2>2. H \cap Field \subseteq F /\ (3 \in H <=> Key # NoKey)
        BY TestFields
    <2>3. fHMAC \in G => fHMAC \in H
        BY <2>1
    <2> HIDE DEF H, G
    <2> QED BY <1>1, <2>1, <2>2, <2>3 DEF fHMAC
<1>8. ReadAs(p, u, F, H, rpkt)
    <2> HIDE DEF G, F, H
    <2> QED BY <1>1, <1>2, <1>3, <1>7, FieldsReadAs
<1> HIDE DEF p, z, G
<1>9. /\ Well(p) /\ p.key = Key /\ Cap(p) = Cap(rpkt) /\ p.len = RepLen /\ Layout(p, H)
      /\ \A g \in Field \ {fHMAC} : SameTo(F, H, g) => get(p, g) = get(u, g)
    BY <1>1, <1>8 DEF ReadAs
<1>10. \A g \in {4, 5, 6, 7} \cup 8..13 : SameTo(F, H, g) => get(p, g) = get(u, g)
    BY <1>9, FieldFacts DEF fHMAC
<1>11. SameTo(F, TestHeader \cup StatsFields(Rs), 7) /\ SameTo(H, TestHeader \cup StatsFields(Rs), 7)
    BY TestFields
<1>12. SameTo(F, H, 5) /\ SameTo(F, H, 7)
    BY <1>11 DEF SameTo
<1>13. seqno(p) = n
    BY <1>1, <1>10, <1>12 DEF seqno, getNumber, fSeqno
<1>14. (IF isset(p, fRWindow) THEN getNumber(p, fRWindow) ELSE 0) = IF "window" \in Rs THEN w ELSE 0
    <2>1. get(p, 7) = get(u, 7)
        BY <1>10, <1>12
    <2>2. 7 \in H <=> "window" \in Rs
        <3>1. 7 \in StatsFields(Rs) <=> "window" \in Rs
            BY StatsFieldsIs
        <3>2. TestHeader \subseteq 1..5 /\ AtFields(At, Ck) \subseteq 8..13
            BY TestFields, AtFieldsIs
        <3> QED BY <3>1, <3>2 DEF ExpFields
    <2>3. isset(p, 7) <=> 7 \in H
        BY <1>9, LayoutIs, FieldFacts, Caps DEF isset
    <2> QED BY <1>1, <2>1, <2>2, <2>3 DEF getNumber, fRWindow
<1>15. ~MonoMidpoint => timestamp(p) = ReadStamp(t)
    BY <1>1, <1>9, <1>10, StampsRead
<1> QED BY <1>4, <1>6, <1>9, <1>13, <1>14, <1>15 DEF p, z, r

-----------------------------------------------------------------------------
(* Closing                                                                 *)

\* The server takes the close request.
LEMMA CloseRead ==
    ASSUME sc \in Scenario, sc.server.key = Key, ServerBuffer(spkt), ctoken(cpkt) = Token
    PROVE  LET r == Received(spkt, bytes(ClosePacket))
               p == addFields(readReset(r), fRequest, FALSE)
           IN  /\ readError(r) = "none" /\ Well(p) /\ fbufValid(p) /\ ctoken(p) = Token
               /\ "close" \in flags(p) /\ p.key = Key /\ Cap(p) = Cap(spkt)
<1> DEFINE F == fcloseRequest
           p0 == newPacket(0, maxHeaderLen, Key)
           p1 == setFields(p0, F, TRUE)
           p2 == setFlagBits(p1, {"close"})
           p3 == setNumber(p2, fConnToken, Token)
           q == updateHMAC(p3)
           r == Received(spkt, bytes(q))
           p == addFields(readReset(r), fRequest, FALSE)
           H == HeaderOf(Key) \cup F
<1>1. ClosePacket = q
    BY DEF ClosePacket, setConnToken, Key
<1>2. F = {1, 2, 4}
    BY DEF fcloseRequest, fMagic, fFlags, fConnToken
<1>3. Well(p0) /\ Layout(p0, HeaderOf(Key)) /\ p0.key = Key /\ get(p0, fMagic) = Magic /\ flags(p0) = {}
    <2>1. maxHeaderLen \in Int
        BY Caps
    <2> HIDE DEF Key
    <2> QED BY <2>1, NewPacketIs
<1> HIDE DEF p0, F
<1>4. Laid(p1, p0, F) /\ \A g \in Field : SameTo(HeaderOf(Key), F, g) => get(p1, g) = get(p0, g)
    BY <1>3, FieldsSetIs
<1> HIDE DEF p1
<1>5. Tight(p1, F) /\ p1.key = Key /\ get(p1, fMagic) = Magic /\ flags(p1) = {}
    <2>1. SameTo(HeaderOf(Key), F, 1) /\ SameTo(HeaderOf(Key), F, 2)
        BY <1>2, HeaderIs DEF SameTo, fMagic, fFlags
    <2>2. get(p1, 1) = get(p0, 1) /\ get(p1, 2) = get(p0, 2)
        BY <1>4, <2>1, FieldFacts
    <2> QED BY <1>3, <1>4, <2>2 DEF Laid, flags, fMagic, fFlags
<1>6. Over(p2, p1, fFlags) /\ flags(p2) = {"close"}
    <2>1. Well(p1) /\ p1.flen[fFlags] = 1
        <3>1. fMagic \in F /\ fFlags \in F
            BY <1>2 DEF fMagic, fFlags
        <3> QED BY <1>5, <3>1, OpenLayout DEF Tight
    <2> QED BY <1>5, <2>1, FlagsSet
<1> HIDE DEF p2
<1>7. Tight(p2, F) /\ p2.key = Key /\ get(p2, fMagic) = Magic
    <2>1. fMagic \in Field /\ fMagic # fFlags
        BY FieldFacts DEF fMagic, fFlags
    <2> QED BY <1>5, <1>6, <2>1 DEF Over, Tight, Layout
<1>8. Gained(p3, p2, F, {fConnToken}) /\ ctoken(p3) = Token
    BY <1>7, FieldFacts, NumberTight DEF fConnToken, ctoken
<1> HIDE DEF p3
<1>9. Tight(p3, F) /\ p3.key = Key /\ get(p3, fMagic) = Magic /\ flags(p3) = {"close"}
    <2>1. F \cup {fConnToken} = F
        BY <1>2 DEF fConnToken
    <2>2. get(p3, 1) = get(p2, 1) /\ get(p3, 2) = get(p2, 2)
        BY <1>8, FieldFacts DEF Gained, fConnToken
    <2> QED BY <1>6, <1>7, <1>8, <2>1, <2>2 DEF Gained, flags, fMagic, fFlags
<1>10. /\ Sendable(q, F \cup Keyed(Key)) /\ q.key = Key /\ q.len <= 92
       /\ flags(q) = {"close"} \cup HMACFlag(Key) /\ get(q, 4) = get(p3, 4)
    <2>1. fMagic \in F /\ fFlags \in F /\ fHMAC \notin F /\ "hmac" \notin flags(p3) /\ 4 \in Field \ {fFlags, fHMAC}
        BY <1>2, <1>9, FieldFacts DEF fMagic, fFlags, fHMAC
    <2> QED BY <1>9, <2>1, SealInserted
<1> HIDE DEF q
<1>11. H = F \cup Keyed(Key)
    BY <1>2 DEF HeaderOf, fMagic, fFlags
<1>12. Framed(q, H) /\ Unforged(q) /\ flags(q) \subseteq {"open", "reply", "close", "hmac"}
    <2> HIDE DEF H
    <2> QED BY <1>10, <1>11 DEF Sendable, Unforged, HMACFlag
<1>13. Buffer(spkt) /\ spkt.key = q.key /\ q.len <= Cap(spkt)
    <2>1. Cap(spkt) >= 100 /\ Cap(spkt) \in Nat
        BY Settings DEF ServerBuffer
    <2>2. q.len \in Nat
        BY <1>12, Bounds DEF Framed
    <2> QED BY <1>10, <2>1, <2>2 DEF ServerBuffer
<1>14. readError(r) = "none"
    <2>1. q.key # NoKey => Sealed(q)
        BY <1>10, <1>12 DEF Unforged
    <2> HIDE DEF H
    <2> QED BY <1>12, <1>13, <2>1, SealDecides
<1>15. ReadAs(p, q, H, H, spkt)
    <2>1. H = HeaderOf(q.key) \cup fRequest
        BY <1>10 DEF F, fcloseRequest, fRequest
    <2>2. H \cap Field \subseteq H /\ (fHMAC \in fRequest => q.key # NoKey)
        BY DEF fHMAC, fRequest, fMagic, fFlags, fConnToken
    <2> HIDE DEF H
    <2> QED BY <1>12, <1>13, <2>1, <2>2, FieldsReadAs
<1> HIDE DEF r, p, H
<1>16. Well(p) /\ p.key = Key /\ Cap(p) = Cap(spkt) /\ flags(p) = flags(q) /\ get(p, 4) = get(q, 4)
    <2>1. SameTo(H, H, 4) /\ 4 \in Field \ {fHMAC}
        BY FieldFacts DEF SameTo, fHMAC
    <2> QED BY <1>10, <1>15, <2>1 DEF ReadAs
<1>17. ctoken(p) = Token /\ "close" \in flags(p)
    BY <1>8, <1>10, <1>16 DEF ctoken, getNumber, fConnToken
<1>18. fbufValid(p)
    BY <1>16 DEF Well, fbufValid
<1> QED BY <1>1, <1>14, <1>16, <1>17, <1>18 DEF r, p

-----------------------------------------------------------------------------
(* The inductive invariant of a test                                       *)

States == {"listen", "open", "accept", "opened", "check", "prepare",
           "send", "serve", "receive", "close", "done"}
Opening == pc \in {"listen", "open", "accept", "opened"}
Testing == pc \in {"check", "prepare", "send", "serve", "receive", "close"}
Sending == pc \in {"send", "serve", "receive"}

\* The connection of the server, apart from its counters.
Linked == conn = [params |-> Supplied, token |-> Token, fill |-> FillOf(sc.server, Supplied),
                  count |-> conn.count, window |-> conn.window, lastSeqno |-> conn.lastSeqno]

\* What the step taken last left.
StepInv ==
    /\ pc \in States /\ now \in Nat /\ params.TripMode = Supplied.TripMode
    /\ pc = "listen" => lconn.port = 0
    /\ Opening => cpkt = NoPacket /\ rpkt = NoPacket /\ truth = << >> /\ trips = << >> /\ err = None
    /\ pc = "opened" \/ Testing => sc.server.key = Key /\ Linked
    /\ Testing => Shared(params) /\ ctoken(cpkt) = Token
    /\ pc \in {"check", "prepare"} => Ready(cpkt) /\ params.Length = Supplied.Length
                                     /\ DOMAIN params = DOMAIN NoParams /\ truth = << >>
    /\ pc = "check" => err = None
    /\ pc \in {"opened", "receive"} => msg.src \in ReplySources

\* The packets of client and server.
PacketsInv ==
    /\ Well(cpkt) /\ Well(rpkt) /\ (~OneWayTest /\ err # "OpenTimeout" => Well(spkt))
    /\ pc \notin {"listen", "done"} => ServerBuffer(spkt)
    /\ Tested => rpkt.key = Key /\ Cap(rpkt) = Greater(Supplied.Length, 92)
    /\ truth # << >> => cpkt.len = ReqLen
    /\ Sending => params.Length = ReqLen /\ Requests(cpkt, Len(truth)) /\ Unforged(cpkt)

\* The request that travels, and the reply.
Asking(q) ==
    LET n == Len(truth)
    IN  /\ Requests(q, n - 1) /\ msg.bytes = bytes(q)
        /\ ~OneWayTest \/ n = 1 => Unforged(q)
        /\ OneWayTest => HoldsTime(q, ClientTime(truth[n].sent, Ck), 12)
MessageInv ==
    /\ pc = "send" /\ OneWayTest /\ truth = << >> => HoldsTime(cpkt, ClientTime(now, Ck), 12)
    /\ pc = "serve" => \E q : Asking(q)
    /\ pc = "receive" =>
         LET n == Len(truth)
         IN  msg.bytes = bytes(spkt) /\ Answers(spkt, n - 1, 2^n - 1, truth[n], conn.fill)

\* How many requests the server has had, and how many it took.
Had == IF pc = "serve" THEN Len(truth) - 1 ELSE Len(truth)
Counts == IF Taken THEN Had ELSE 0
Truths == [sent : Nat, received : Nat, replied : Nat, got : Nat]

\* A round trip: its send time, and once its reply was got the times of that.
RoundRight(trip, t, i) ==
    /\ trip.client.send = ClientTime(t.sent, BothClocks)
    /\ t.got > 0 =>
         /\ t.replied = t.received + 1
         /\ trip.client.receive = ClientTime(t.got, BothClocks)
         /\ ~MonoMidpoint => trip.server = ReadStamp(t)
         /\ trip.window = IF "window" \in Rs THEN 2^i - 1 ELSE 0
         /\ "oneway" \notin DOMAIN trip

\* What was recorded, by the client or by the server.
HistoryInv ==
    /\ truth \in Seq(Truths) /\ Len(truth) <= 2 /\ IsBytes(trips) /\ Len(trips) <= Len(truth)
    /\ truth # << >> => Shared(params) /\ params.Length = ReqLen
    /\ pc = "send" => Len(truth) < 2
    /\ pc \in {"serve", "receive"} => Len(truth) > 0 /\ truth[Len(truth)].got = 0
    /\ pc = "receive" => LET t == truth[Len(truth)]
                         IN  ~OneWayTest /\ Taken /\ t.replied = now /\ t.replied = t.received + 1
RoundInv ==
    ~OneWayTest =>
      /\ Len(trips) = Len(truth)
      /\ pc \in {"opened", "check"} \/ Tested => conn.window = 2^Counts - 1 /\ conn.lastSeqno = Counts - 1
      /\ \A i \in 1..Len(truth) : RoundRight(trips[i], truth[i], i)
OneWayInv ==
    OneWayTest =>
      /\ Len(trips) <= Counts /\ (Counts > 0 => Len(trips) > 0)
      /\ Key = NoKey => Len(trips) = Counts
      /\ \A i \in 1..Len(trips) : MeasuredOneWay(trips[i], truth[i], Rs, Ck)

\* A test that nothing stands in the way of.
Heard == ~Unheard /\ Fits /\ sc.server.key = Key
Complete == /\ ReqLen <= sc.server.MTU /\ ~(sc.server.MaxLength > 0 /\ ReqLen > sc.server.MaxLength)
            /\ ~(OneWayTest /\ Key # NoKey)
AnswerInv ==
    Heard =>
      /\ pc = "done" => conn = NoConn
      /\ pc \in {"close", "done"} /\ ~Refused => truth # << >>
      /\ Complete => /\ err = None \/ Refused
                     /\ Tested => err = None
                     /\ pc \in {"close", "done"} /\ ~Refused => Len(truth) = 2
                     /\ ~OneWayTest => \A i \in 1..Had : pc # "receive" \/ i < Had => truth[i].got > 0

TestInv == StepInv /\ PacketsInv /\ MessageInv /\ HistoryInv /\ RoundInv /\ OneWayInv /\ AnswerInv

-----------------------------------------------------------------------------
(* Each step keeps the invariant                                           *)

\* A scenario stays, and with it all that depends on it alone.
LEMMA SameTest ==
    ASSUME sc' = sc
    PROVE  /\ Asked' = Asked /\ Supplied' = Supplied /\ Key' = Key /\ At' = At /\ Ck' = Ck /\ Rs' = Rs
           /\ ReqLen' = ReqLen /\ (OneWayTest' <=> OneWayTest) /\ (Taken' <=> Taken)
           /\ (MonoMidpoint' <=> MonoMidpoint) /\ (Complete' <=> Complete) /\ (Fits' <=> Fits)
           /\ FillOf(sc.server, Supplied)' = FillOf(sc.server, Supplied)
           /\ \A p : (Ready(p)' <=> Ready(p)) /\ (ServerBuffer(p)' <=> ServerBuffer(p))
           /\ \A q : Unforged(q)' <=> Unforged(q)
           /\ \A q, n : Requests(q, n)' <=> Requests(q, n)
           /\ \A u, n, w, t, f : Answers(u, n, w, t, f)' <=> Answers(u, n, w, t, f)
           /\ \A ps : Shared(ps)' <=> Shared(ps)
           /\ \A trip, t, i : RoundRight(trip, t, i)' <=> RoundRight(trip, t, i)
<1>1. Asked' = Asked /\ Supplied' = Supplied /\ Key' = Key /\ (Fits' <=> Fits)
    BY Fixed DEF Key
<1>2. At' = At /\ Ck' = Ck /\ Rs' = Rs /\ (OneWayTest' <=> OneWayTest)
    BY <1>1 DEF At, Ck, Rs, OneWayTest
<1>3. ReqFields' = ReqFields /\ RepFields' = RepFields /\ ReqByte' = ReqByte
    BY <1>1, <1>2 DEF ReqFields, RepFields, TestHeader, ReqByte
<1>4. ReqLen' = ReqLen
    BY <1>1, <1>3 DEF ReqLen
<1>5. RepLen' = RepLen
    BY <1>1, <1>3 DEF RepLen
<1>6. (Taken' <=> Taken) /\ (Complete' <=> Complete)
    BY <1>1, <1>2, <1>4 DEF Taken, ReadLen, Complete
<1>7. MonoMidpoint' <=> MonoMidpoint
    BY <1>2 DEF MonoMidpoint
<1>8. \A p : (Ready(p)' <=> Ready(p)) /\ (ServerBuffer(p)' <=> ServerBuffer(p))
    BY <1>1 DEF Ready, ServerBuffer
<1>9. \A q : Unforged(q)' <=> Unforged(q)
    BY <1>1 DEF Unforged
<1>10. \A q, n : Requests(q, n)' <=> Requests(q, n)
    BY <1>1, <1>3, <1>4 DEF Requests
<1>11. \A t : ServerStamp(t)' = ServerStamp(t) /\ ReadStamp(t)' = ReadStamp(t)
    BY <1>2 DEF ServerStamp, ReadStamp
<1>12. \A f : RepByte(f)' = RepByte(f)
    BY <1>3 DEF RepByte
<1>13. \A u, n, w, t, f : Answers(u, n, w, t, f)' <=> Answers(u, n, w, t, f)
    BY <1>1, <1>2, <1>3, <1>5, <1>11, <1>12 DEF Answers
<1>14. \A ps : Shared(ps)' <=> Shared(ps)
    BY <1>1, <1>2 DEF Shared
<1>15. \A trip, t, i : RoundRight(trip, t, i)' <=> RoundRight(trip, t, i)
    BY <1>2, <1>7, <1>11 DEF RoundRight
<1>16. FillOf(sc.server, Supplied)' = FillOf(sc.server, Supplied)
    BY <1>1 DEF FillOf
<1> QED BY <1>1, <1>2, <1>4, <1>6, <1>7, <1>8, <1>9, <1>10, <1>13, <1>14, <1>15, <1>16

\* A sequence with one more element at its end.
LEMMA Appended ==
    ASSUME NEW s, IsBytes(s), NEW x
    PROVE  LET t == Append(s, x)
           IN  /\ IsBytes(t) /\ Len(t) = Len(s) + 1 /\ t[Len(s) + 1] = x
               /\ \A i \in 1..Len(s) : t[i] = s[i]
<1> DEFINE U == {s[i] : i \in 1..Len(s)} \cup {x}
<1>1. s \in Seq(U)
    <2>1. s = [i \in 1..Len(s) |-> s[i]] /\ Len(s) \in Nat
        BY DEF IsBytes
    <2>2. s \in [1..Len(s) -> U]
        BY <2>1
    <2> QED BY <2>1, <2>2
<1>2. x \in U
    OBVIOUS
<1> HIDE DEF U
<1>3. Append(s, x) \in Seq(U) /\ Len(Append(s, x)) = Len(s) + 1 /\ Append(s, x)[Len(s) + 1] = x
      /\ \A i \in 1..Len(s) : Append(s, x)[i] = s[i]
    BY <1>1, <1>2
<1>4. IsBytes(Append(s, x))
    BY <1>3, SeqIsBytes
<1> QED BY <1>3, <1>4

\* One with another element in the place of one.
LEMMA Replaced ==
    ASSUME NEW s, IsBytes(s), NEW k \in 1..Len(s), NEW t,
           t = [i \in DOMAIN s |-> IF i = k THEN t[k] ELSE s[i]]
    PROVE  IsBytes(t) /\ Len(t) = Len(s) /\ \A i \in 1..Len(s) : i # k => t[i] = s[i]
<1>1. DOMAIN s = 1..Len(s) /\ Len(s) \in Nat
    BY DEF IsBytes
<1>2. t = [i \in 1..Len(s) |-> t[i]]
    BY <1>1
<1>3. IsBytes(t) /\ Len(t) = Len(s)
    BY <1>1, <1>2, BytesLen
<1> QED BY <1>1, <1>3

\* With the listener, so does where replies come from.
LEMMA HeardSame ==
    ASSUME sc' = sc, lconn' = lconn
    PROVE  ReplySources' = ReplySources /\ (Unheard' <=> Unheard) /\ (Heard' <=> Heard)
<1>1. ReplySources' = ReplySources
    BY DEF ReplySources
<1>2. Unheard' <=> Unheard
    BY <1>1 DEF Unheard
<1>3. Heard' <=> Heard
    BY <1>2, SameTest DEF Heard
<1> QED BY <1>1, <1>2, <1>3

\* Before the client has a connection there are no histories.
LEMMA NoHistory ==
    /\ truth = << >> /\ trips = << >> /\ pc \notin {"serve", "receive"}
    /\ pc \in {"opened", "check", "prepare", "send"} /\ ~OneWayTest => conn.window = 0 /\ conn.lastSeqno = -1
    => HistoryInv /\ RoundInv /\ OneWayInv
<1> SUFFICES ASSUME truth = << >>, trips = << >>, pc \notin {"serve", "receive"},
                    pc \in {"opened", "check", "prepare", "send"} /\ ~OneWayTest => conn.window = 0 /\ conn.lastSeqno = -1
             PROVE  HistoryInv /\ RoundInv /\ OneWayInv
    OBVIOUS
<1>1. Len(truth) = 0 /\ Len(trips) = 0 /\ 1..0 = {} /\ truth \in Seq(Truths)
    OBVIOUS
<1>2. IsBytes(trips)
    <2>1. trips \in Seq({})
        OBVIOUS
    <2> QED BY <2>1, SeqIsBytes
<1>3. Had = 0 /\ Counts = 0
    BY <1>1 DEF Had, Counts
<1>4. HistoryInv
    BY <1>1, <1>2 DEF HistoryInv
<1>5. RoundInv
    <2>1. 2^0 = 1
        OBVIOUS
    <2> QED BY <1>1, <1>3, <2>1 DEF RoundInv, Tested
<1>6. OneWayInv
    BY <1>1, <1>3 DEF OneWayInv
<1> QED BY <1>4, <1>5, <1>6

\* The same after a step.
LEMMA NoHistoryNext ==
    (/\ truth = << >> /\ trips = << >> /\ pc \notin {"serve", "receive"}
     /\ pc \in {"opened", "check", "prepare", "send"} /\ ~OneWayTest => conn.window = 0 /\ conn.lastSeqno = -1)'
    => (HistoryInv /\ RoundInv /\ OneWayInv)'
BY NoHistory, PTL

\* The steps up to the connection that leave the client without one.
LEMMA OpeningTest ==
    ASSUME TestInv, Opening, sc' = sc, now' = now, params' = params, cpkt' = cpkt, rpkt' = rpkt,
           truth' = truth, trips' = trips,
           (pc' \in {"open", "accept", "opened"} /\ err' = err) \/ pc' = "done",
           pc' = "opened" => /\ sc.server.key = Key /\ Linked' /\ conn'.window = 0 /\ conn'.lastSeqno = -1
                             /\ msg'.src \in ReplySources',
           ~OneWayTest /\ err' # "OpenTimeout" => Well(spkt'),
           pc' # "done" => ServerBuffer(spkt'), pc' = "done" => ~Heard'
    PROVE  TestInv'
<1>1. /\ now \in Nat /\ params.TripMode = Supplied.TripMode /\ Well(cpkt) /\ Well(rpkt)
      /\ cpkt = NoPacket /\ rpkt = NoPacket /\ truth = << >> /\ trips = << >> /\ err = None
    BY DEF TestInv, StepInv, PacketsInv
<1>2. pc' \in {"open", "accept", "opened", "done"} /\ ~Testing' /\ ~Tested' /\ ~Sending'
    BY DEF Testing, Tested, Sending
<1>3. Supplied' = Supplied /\ Key' = Key /\ (OneWayTest' <=> OneWayTest)
      /\ \A p : ServerBuffer(p)' <=> ServerBuffer(p)
    BY SameTest
<1>4. NoPacket' = NoPacket
    BY DEF NoPacket
<1>5. StepInv'
    BY <1>1, <1>2, <1>3, <1>4 DEF StepInv, States, Opening
<1>6. ServerBuffer(spkt)' <=> ServerBuffer(spkt')
    BY <1>3
<1>7. PacketsInv'
    BY <1>1, <1>2, <1>3, <1>6 DEF PacketsInv
<1>8. MessageInv'
    BY <1>2 DEF MessageInv
<1>9. HistoryInv' /\ RoundInv' /\ OneWayInv'
    <2>1. truth' = << >> /\ trips' = << >> /\ pc' \notin {"serve", "receive"}
        BY <1>1, <1>2
    <2>2. pc' \in {"opened", "check", "prepare", "send"} /\ ~OneWayTest' => conn'.window = 0 /\ conn'.lastSeqno = -1
        BY <1>2
    <2> QED BY <2>1, <2>2, NoHistoryNext
<1>10. AnswerInv'
    <2>1. Had' = 0 /\ 1..0 = {}
        BY <1>1, <1>2 DEF Had
    <2>2. CASE pc' = "done"
        BY <2>2 DEF AnswerInv
    <2>3. CASE pc' # "done"
        BY <1>1, <1>2, <2>1, <2>3 DEF AnswerInv
    <2> QED BY <2>2, <2>3
<1> QED BY <1>5, <1>7, <1>8, <1>9, <1>10 DEF TestInv

\* The invariant holds at the start.
LEMMA InitTest == ASSUME Init PROVE TestInv
<1>1. /\ sc \in Scenario /\ pc = "listen" /\ err = None /\ now = 0 /\ lconn.port = 0
      /\ spkt = NoPacket /\ cpkt = NoPacket /\ rpkt = NoPacket /\ params = Asked
      /\ trips = << >> /\ truth = << >>
    BY DEF Init, Asked
<1>2. Well(NoPacket)
    <2>1. 0 \in Int
        OBVIOUS
    <2> QED BY <2>1, NewPacketIs DEF NoPacket
<1>3. StepInv
    BY <1>1, AgreedIs DEF StepInv, States, Opening, Testing
<1>4. PacketsInv
    BY <1>1, <1>2 DEF PacketsInv, Tested, Sending
<1>5. MessageInv
    BY <1>1 DEF MessageInv
<1>6. HistoryInv /\ RoundInv /\ OneWayInv
    BY <1>1, NoHistory
<1>7. AnswerInv
    BY <1>1 DEF AnswerInv, Heard, Unheard
<1> QED BY <1>3, <1>4, <1>5, <1>6, <1>7 DEF TestInv

\* The listener's packet, or no listener.
LEMMA MakeListenersTest == ASSUME IInv, TestInv, MakeListeners PROVE TestInv'
<1>1. /\ sc \in Scenario /\ sc' = sc /\ pc = "listen" /\ now' = now /\ params' = params /\ cpkt' = cpkt
      /\ rpkt' = rpkt /\ truth' = truth /\ trips' = trips /\ lconn.port = 0 /\ err = None
      /\ (~OneWayTest => Well(spkt))
    <2>1. lconn.port = 0 /\ err = None
        BY DEF TestInv, StepInv, MakeListeners, Opening
    <2> QED BY <2>1 DEF IInv, TestInv, PacketsInv, MakeListeners, None
<1>2. \/ /\ pc' = "done" /\ lconn' = lconn /\ spkt' = spkt
      \/ /\ pc' = "open" /\ err' = err /\ spkt' = newPacket(0, sc.server.MTU, sc.server.key)
    <2> HIDE DEF newPacket, ListenError, Resolved, Serves
    <2> QED BY DEF MakeListeners, Fail
<1>3. CASE pc' = "done" /\ lconn' = lconn /\ spkt' = spkt
    <2>1. ~Heard
        BY <1>1 DEF Heard, Unheard
    <2>2. ~Heard'
        BY <1>1, <1>3, <2>1, HeardSame
    <2> QED BY <1>1, <1>3, <2>2, OpeningTest DEF Opening
<1>4. CASE pc' = "open" /\ err' = err /\ spkt' = newPacket(0, sc.server.MTU, sc.server.key)
    <2>1. Well(spkt') /\ ServerBuffer(spkt')
        BY <1>1, <1>4, ListenerPacket, BufferIs DEF ServerBuffer
    <2> QED BY <1>1, <1>4, <2>1, OpeningTest DEF Opening
<1> QED BY <1>2, <1>3, <1>4

\* The request of an open.
LEMMA OpenRequestTest == ASSUME IInv, TestInv, OpenRequest PROVE TestInv'
<1>1. /\ sc \in Scenario /\ sc' = sc /\ pc = "open" /\ now' = now /\ params' = params /\ cpkt' = cpkt
      /\ rpkt' = rpkt /\ truth' = truth /\ trips' = trips /\ lconn' = lconn /\ spkt' = spkt
      /\ (~OneWayTest => Well(spkt)) /\ ServerBuffer(spkt)
    <2>1. pc = "open" /\ err = None
        BY DEF TestInv, StepInv, OpenRequest, Opening
    <2> QED BY <2>1 DEF IInv, TestInv, PacketsInv, OpenRequest, None
<1>2. \/ pc' = "accept" /\ err' = err
      \/ pc' = "done" /\ ~Request.ok
    <2> HIDE DEF newPacket
    <2> QED BY DEF OpenRequest, Fail, Request, Asked
<1>3. CASE pc' = "accept" /\ err' = err
    BY <1>1, <1>3, OpeningTest DEF Opening
<1>4. CASE pc' = "done" /\ ~Request.ok
    <2>1. ~Fits
        <3>1. SUFFICES ASSUME Fits PROVE FALSE
            OBVIOUS
        <3>2. 4 + Len(paramBytes(Asked)) <= HeaderRoom
            BY <3>1 DEF Fits, Asked
        <3>3. Well(Request)
            BY <1>1, <3>2, RequestIs DEF Sendable, Framed
        <3> QED BY <1>4, <3>3 DEF Well
    <2>2. ~Heard'
        BY <1>1, <2>1, HeardSame DEF Heard
    <2> QED BY <1>1, <1>4, <2>2, OpeningTest DEF Opening
<1> QED BY <1>2, <1>3, <1>4

\* Its reply.
LEMMA AcceptTest == ASSUME IInv, TestInv, Accept PROVE TestInv'
<1>1. /\ sc \in Scenario /\ sc' = sc /\ pc = "accept" /\ now' = now /\ params' = params /\ cpkt' = cpkt
      /\ rpkt' = rpkt /\ truth' = truth /\ trips' = trips /\ lconn' = lconn
      /\ spkt = newPacket(0, sc.server.MTU, sc.server.key)
      /\ 4 + Len(paramBytes(Asked)) <= HeaderRoom /\ msg.bytes = bytes(Request)
    BY DEF IInv, OpeningInv, Accept
<1> DEFINE r == Received(spkt, msg.bytes)
           p == readReset(r)
<1>2. /\ readError(r) = None <=> sc.server.key = sc.client.key
      /\ sc.server.key = sc.client.key =>
            /\ parses(payload(p)) /\ parseParams(payload(p)) = Asked
            /\ Replied(OpenReplyPacket(p, Supplied))
    BY <1>1, AcceptedIs DEF None
<1> HIDE DEF r
<1>3. CASE readError(r) # None \/ ~parses(payload(p))
    <2>1. sc.server.key # Key
        BY <1>2, <1>3 DEF Key
    <2>2. ~Heard'
        BY <1>1, <2>1, HeardSame DEF Heard
    <2>3. pc' = "done" /\ err' = "OpenTimeout"
        BY <1>3 DEF Accept, Fail, r
    <2> QED BY <1>1, <2>2, <2>3, OpeningTest DEF Opening
<1>4. CASE ~(readError(r) # None \/ ~parses(payload(p)))
    <2>1. Replied(OpenReplyPacket(p, Supplied)) /\ Accepted(parseParams(payload(p))) = Supplied
        BY <1>2, <1>4 DEF Supplied
    <2>2. /\ conn' = [params |-> Supplied, token |-> Token, fill |-> FillOf(sc.server, Supplied),
                      count |-> 0, window |-> 0, lastSeqno |-> -1]
          /\ spkt' = OpenReplyPacket(p, Supplied)
          /\ \E src \in ReplySources : msg' = [bytes |-> bytes(spkt'), src |-> src]
          /\ pc' = "opened" /\ err' = err
        BY <1>4, <2>1 DEF Accept, r
    <2>3. Linked' /\ conn'.window = 0 /\ conn'.lastSeqno = -1
        BY <1>1, <2>2, SameTest DEF Linked
    <2>4. msg'.src \in ReplySources'
        BY <1>1, <2>2, HeardSame
    <2>5. Replied(spkt')
        BY <2>1, <2>2
    <2>6. Well(spkt') /\ ServerBuffer(spkt') /\ sc.server.key = Key
        BY <2>5, BufferIs DEF Replied, Sendable, Framed, ServerBuffer, Key
    <2> QED BY <1>1, <2>2, <2>3, <2>4, <2>6, OpeningTest DEF Opening
<1> QED BY <1>3, <1>4

\* A test that is heard has its replies arrive.
LEMMA HeardArrives ==
    ASSUME Serves(lconn, sc.target), ~Unheard, NEW src \in ReplySources
    PROVE  src = sc.target.ip
<1>1. CASE Unspecified(lconn.ip)
    BY <1>1 DEF Unheard
<1>2. CASE ~Unspecified(lconn.ip)
    BY <1>2, SourceRight
<1> QED BY <1>1, <1>2

\* The parameters the client knows are those its packets depend on.
LEMMA KnownShared ==
    ASSUME NEW ps, Known(ps)
    PROVE  Shared(ps) /\ ps.Length = Supplied.Length
BY ParamNames DEF Known, Shared, At, Ck, Rs

\* The client's connection.
LEMMA OpenedTest == ASSUME IInv, TestInv, Opened PROVE TestInv'
<1>1. /\ sc \in Scenario /\ sc' = sc /\ pc = "opened" /\ now' = now /\ rpkt' = rpkt /\ conn' = conn
      /\ truth' = truth /\ trips' = trips /\ lconn' = lconn /\ spkt' = spkt /\ msg' = msg
      /\ Replied(spkt) /\ msg.bytes = bytes(spkt) /\ Serves(lconn, sc.target)
    BY DEF IInv, OpeningInv, ReachedInv, Opened
<1>2. /\ now \in Nat /\ sc.server.key = Key /\ Linked /\ msg.src \in ReplySources
      /\ cpkt = NoPacket /\ rpkt = NoPacket /\ truth = << >> /\ trips = << >> /\ err = None
      /\ Well(cpkt) /\ Well(rpkt) /\ (~OneWayTest => Well(spkt)) /\ ServerBuffer(spkt)
    BY <1>1 DEF TestInv, StepInv, PacketsInv, Opening, None
<1>3. ~OneWayTest => conn.window = 0 /\ conn.lastSeqno = -1
    <2>1. Counts = 0 /\ 2^0 = 1
        BY <1>1, <1>2 DEF Counts, Had
    <2> QED BY <1>1, <2>1 DEF TestInv, RoundInv
<1> DEFINE key == sc.client.key
           r == Received(newPacket(0, maxHeaderLen, key), msg.bytes)
           p == addFields(readReset(r), fopenReply, FALSE)
           ps == parseParams(payload(p))
<1>4. /\ readError(r) = "none" => Known(ps) /\ ctoken(p) = Token
      /\ Fits => readError(r) = "none" /\ fbufValid(p) /\ parses(payload(p))
    BY <1>1, OpenedIs
<1>5. DOMAIN ps = DOMAIN NoParams
    BY DEF parseParams
<1>6. \/ /\ pc' = "done" /\ params' = params /\ cpkt' = cpkt
         /\ ~Arrives \/ readError(r) # "none" \/ ~fbufValid(p) \/ ~parses(payload(p))
      \/ /\ pc' = "check" /\ err' = err /\ params' = ps /\ readError(r) = "none"
         /\ cpkt' = setConnToken(newPacket(0, params'.Length, key), ctoken(p))
    <2> HIDE DEF p, r
    <2> QED BY DEF Opened, Fail, None, p, r
<1> HIDE DEF r, p, ps
<1>7. CASE /\ pc' = "done" /\ params' = params /\ cpkt' = cpkt
           /\ ~Arrives \/ readError(r) # "none" \/ ~fbufValid(p) \/ ~parses(payload(p))
    <2>1. ~Heard
        BY <1>1, <1>2, <1>4, <1>7, HeardArrives DEF Heard, Arrives
    <2>2. ~Heard'
        BY <1>1, <2>1, HeardSame
    <2> QED BY <1>1, <1>2, <1>7, <2>2, OpeningTest DEF Opening
<1>8. CASE /\ pc' = "check" /\ err' = err /\ params' = ps /\ readError(r) = "none"
           /\ cpkt' = setConnToken(newPacket(0, params'.Length, key), ctoken(p))
    <2>1. Shared(params') /\ params'.Length = Supplied.Length /\ DOMAIN params' = DOMAIN NoParams
        BY <1>4, <1>5, <1>8, KnownShared
    <2>2. cpkt' = setConnToken(newPacket(0, Supplied.Length, Key), Token)
        BY <1>4, <1>8, <2>1 DEF Key
    <2>3. Ready(cpkt')
        BY <1>1, <2>2, ReadyIs
    <2>4. Well(cpkt') /\ ctoken(cpkt') = Token
        BY <2>3 DEF Ready, Tight
    <2>5. Linked'
        BY <1>1, <1>2, SameTest DEF Linked
    <2>6. params'.TripMode = Supplied.TripMode
        BY <2>1 DEF Shared
    <2>7. Ready(cpkt)' /\ Shared(params)' /\ ServerBuffer(spkt)' /\ Supplied' = Supplied /\ Key' = Key
          /\ (OneWayTest' <=> OneWayTest)
        BY <1>1, <1>2, <2>1, <2>3, SameTest
    <2>8. StepInv'
        BY <1>1, <1>2, <1>8, <2>1, <2>4, <2>5, <2>6, <2>7 DEF StepInv, States, Opening, Testing
    <2>9. PacketsInv'
        BY <1>1, <1>2, <1>8, <2>4, <2>7 DEF PacketsInv, Tested, Sending
    <2>10. MessageInv'
        BY <1>8 DEF MessageInv
    <2>11. HistoryInv' /\ RoundInv' /\ OneWayInv'
        BY <1>1, <1>2, <1>3, <1>8, <2>7, NoHistoryNext
    <2>12. AnswerInv'
        <3>1. Had' = 0 /\ 1..0 = {}
            BY <1>1, <1>2, <1>8 DEF Had
        <3> QED BY <1>1, <1>2, <1>8, <3>1 DEF AnswerInv, Tested
    <2> QED BY <2>8, <2>9, <2>10, <2>11, <2>12 DEF TestInv
<1> QED BY <1>6, <1>7, <1>8

\* What a test finds, whatever its step.
LEMMA TestingIs ==
    ASSUME IInv, TestInv, Testing
    PROVE  /\ sc \in Scenario /\ now \in Nat /\ sc.server.key = Key /\ Linked /\ Shared(params)
           /\ ctoken(cpkt) = Token /\ params.TripMode = Supplied.TripMode /\ (OneWay <=> OneWayTest)
           /\ Well(cpkt) /\ Well(rpkt) /\ ServerBuffer(spkt) /\ Serves(lconn, sc.target)
           /\ (~OneWayTest /\ err # "OpenTimeout" => Well(spkt))
           /\ truth \in Seq(Truths) /\ Len(truth) <= 2 /\ IsBytes(trips) /\ Len(trips) <= Len(truth)
           /\ Len(truth) \in Nat /\ IsBytes(truth) /\ Len(trips) \in Nat
<1>1. pc \in States /\ pc # "listen" /\ pc # "done"
    BY DEF Testing, States
<1>2. /\ sc \in Scenario /\ Serves(lconn, sc.target)
    BY <1>1 DEF IInv, ReachedInv
<1>3. /\ now \in Nat /\ sc.server.key = Key /\ Linked /\ Shared(params) /\ ctoken(cpkt) = Token
      /\ params.TripMode = Supplied.TripMode
    BY DEF TestInv, StepInv
<1>4. OneWay <=> OneWayTest
    BY <1>3 DEF OneWay, OneWayTest
<1>5. Well(cpkt) /\ Well(rpkt) /\ ServerBuffer(spkt) /\ (~OneWayTest /\ err # "OpenTimeout" => Well(spkt))
    BY <1>1 DEF TestInv, PacketsInv
<1>6. truth \in Seq(Truths) /\ Len(truth) <= 2 /\ IsBytes(trips) /\ Len(trips) <= Len(truth)
    BY DEF TestInv, HistoryInv
<1>7. Len(truth) \in Nat /\ IsBytes(truth) /\ Len(trips) \in Nat
    BY <1>6, SeqIsBytes DEF IsBytes
<1> QED BY <1>2, <1>3, <1>4, <1>5, <1>6, <1>7

\* The client checks the parameters.
LEMMA CheckTest == ASSUME IInv, TestInv, Check PROVE TestInv'
<1>1. /\ sc \in Scenario /\ sc' = sc /\ pc = "check" /\ now' = now /\ params' = params /\ cpkt' = cpkt
      /\ conn' = conn /\ truth' = truth /\ trips' = trips /\ lconn' = lconn /\ spkt' = spkt /\ msg' = msg
      /\ Known(params) /\ err' = checkParameters(Asked, params, sc.client.loose)
      /\ pc' = (IF err' = None THEN "prepare" ELSE "close")
      /\ rpkt' = newPacket(0, params.Length, Key)
    BY DEF IInv, AgreedInv, Check, Asked, Key
<1>2. Testing
    BY <1>1 DEF Testing
<1>3. /\ now \in Nat /\ sc.server.key = Key /\ Linked /\ Shared(params) /\ ctoken(cpkt) = Token
      /\ params.TripMode = Supplied.TripMode /\ Well(cpkt) /\ ServerBuffer(spkt)
      /\ (~OneWayTest /\ err # "OpenTimeout" => Well(spkt))
    BY <1>2, TestingIs
<1>4. /\ Ready(cpkt) /\ params.Length = Supplied.Length /\ truth = << >> /\ trips = << >> /\ err = None
      /\ DOMAIN params = DOMAIN NoParams
    <2>1. /\ Ready(cpkt) /\ params.Length = Supplied.Length /\ truth = << >> /\ err = None
          /\ DOMAIN params = DOMAIN NoParams
        BY <1>1 DEF TestInv, StepInv
    <2>2. trips = << >>
        <3>1. IsBytes(trips) /\ Len(trips) <= Len(truth)
            BY <1>2, TestingIs
        <3>2. Len(trips) = 0 /\ trips = [i \in 1..Len(trips) |-> trips[i]]
            BY <2>1, <3>1 DEF IsBytes
        <3> QED BY <3>2
    <2> QED BY <2>1, <2>2
<1>5. ~OneWayTest => conn.window = 0 /\ conn.lastSeqno = -1
    <2>1. Counts = 0 /\ 2^0 = 1
        BY <1>1, <1>4 DEF Counts, Had
    <2> QED BY <1>1, <2>1 DEF TestInv, RoundInv
<1>6. err' \in {"none", "ServerRestriction", "InvalidServerRestriction"}
    BY <1>1, CheckedIs
<1>7. Well(rpkt') /\ rpkt'.key = Key /\ Cap(rpkt') = Greater(Supplied.Length, 92)
    <2>1. Supplied.Length \in Int
        BY <1>1, AgreedIs
    <2>2. rpkt' = newPacket(0, Supplied.Length, Key)
        BY <1>1, <1>4
    <2> QED BY <2>1, <2>2, NewPacketIs
<1>8. /\ Linked' /\ Supplied' = Supplied /\ Key' = Key /\ (OneWayTest' <=> OneWayTest)
      /\ Ready(cpkt)' /\ Shared(params)' /\ ServerBuffer(spkt)'
    BY <1>1, <1>3, <1>4, SameTest DEF Linked
<1>9. pc' \in {"prepare", "close"}
    BY <1>1
<1>10. StepInv'
    BY <1>1, <1>3, <1>4, <1>8, <1>9 DEF StepInv, States, Opening, Testing
<1>11. PacketsInv'
    BY <1>1, <1>3, <1>4, <1>6, <1>7, <1>8, <1>9 DEF PacketsInv, Tested, Sending, None
<1>12. MessageInv'
    BY <1>9 DEF MessageInv
<1>13. HistoryInv' /\ RoundInv' /\ OneWayInv'
    BY <1>1, <1>4, <1>5, <1>8, <1>9, NoHistoryNext
<1>14. AnswerInv'
    <2>1. Had' = 0 /\ 1..0 = {}
        BY <1>1, <1>4, <1>9 DEF Had
    <2>2. pc' = "close" => Refused'
        BY <1>1, <1>6 DEF Refused, None
    <2>3. pc' = "prepare" => err' = None
        BY <1>1
    <2> QED BY <1>9, <2>1, <2>2, <2>3 DEF AnswerInv, Tested
<1> QED BY <1>10, <1>11, <1>12, <1>13, <1>14 DEF TestInv

\* The request is prepared.
LEMMA PrepareTest == ASSUME IInv, TestInv, Prepare PROVE TestInv'
<1>1. /\ sc' = sc /\ pc = "prepare" /\ pc' = "send" /\ now' = now /\ err' = err /\ lconn' = lconn
      /\ conn' = conn /\ truth' = truth /\ trips' = trips /\ spkt' = spkt /\ rpkt' = rpkt /\ msg' = msg
      /\ cpkt' = Prepared /\ params' = [params EXCEPT !.Length = cpkt'.len]
    BY DEF Prepare
<1>2. Testing /\ Tested
    BY <1>1 DEF Testing, Tested
<1>3. /\ sc \in Scenario /\ now \in Nat /\ sc.server.key = Key /\ Linked /\ Shared(params)
      /\ params.TripMode = Supplied.TripMode /\ Well(rpkt) /\ ServerBuffer(spkt)
      /\ (~OneWayTest /\ err # "OpenTimeout" => Well(spkt))
    BY <1>2, TestingIs
<1>4. /\ Ready(cpkt) /\ params.Length = Supplied.Length /\ truth = << >> /\ trips = << >>
      /\ DOMAIN params = DOMAIN NoParams /\ rpkt.key = Key /\ Cap(rpkt) = Greater(Supplied.Length, 92)
    <2>1. /\ Ready(cpkt) /\ params.Length = Supplied.Length /\ truth = << >>
          /\ DOMAIN params = DOMAIN NoParams
        BY <1>1 DEF TestInv, StepInv
    <2>2. trips = << >>
        <3>1. IsBytes(trips) /\ Len(trips) <= Len(truth)
            BY <1>2, TestingIs
        <3>2. Len(trips) = 0 /\ trips = [i \in 1..Len(trips) |-> trips[i]]
            BY <2>1, <3>1 DEF IsBytes
        <3> QED BY <3>2
    <2>3. rpkt.key = Key /\ Cap(rpkt) = Greater(Supplied.Length, 92)
        BY <1>2 DEF TestInv, PacketsInv
    <2> QED BY <2>1, <2>2, <2>3
<1>5. ~OneWayTest => conn.window = 0 /\ conn.lastSeqno = -1
    <2>1. Counts = 0 /\ 2^0 = 1
        BY <1>1, <1>4 DEF Counts, Had
    <2> QED BY <1>2, <2>1 DEF TestInv, RoundInv
<1>6. /\ Requests(cpkt', 0) /\ Unforged(cpkt')
      /\ OneWayTest => HoldsTime(cpkt', ClientTime(now, Ck), 12)
    BY <1>1, <1>3, <1>4, PreparedIs
<1>7. Well(cpkt') /\ ctoken(cpkt') = Token /\ cpkt'.len = ReqLen
    BY <1>6 DEF Requests, Framed
<1>8. Shared(params') /\ params'.Length = ReqLen /\ params'.TripMode = Supplied.TripMode
    <2>1. params'.Length = cpkt'.len /\ \A x \in DOMAIN NoParams \ {"Length"} : params'[x] = params[x]
        BY <1>1, <1>4, ParamNames
    <2>2. params'.StampAt = params.StampAt /\ params'.Clock = params.Clock
          /\ params'.ReceivedStats = params.ReceivedStats /\ params'.TripMode = params.TripMode
        BY <2>1, ParamNames
    <2> QED BY <1>3, <1>7, <2>1, <2>2 DEF Shared
<1>9. /\ Linked' /\ Supplied' = Supplied /\ Key' = Key /\ (OneWayTest' <=> OneWayTest) /\ ReqLen' = ReqLen
      /\ Ck' = Ck /\ Shared(params)' /\ ServerBuffer(spkt)' /\ Unforged(cpkt)'
    BY <1>1, <1>3, <1>6, <1>8, SameTest DEF Linked
<1>10. Requests(cpkt, Len(truth))'
    <2>1. Requests(cpkt', Len(truth'))
        BY <1>1, <1>4, <1>6
    <2> QED BY <1>1, <2>1, SameTest
<1>11. StepInv'
    BY <1>1, <1>3, <1>7, <1>8, <1>9 DEF StepInv, States, Opening, Testing
<1>12. PacketsInv'
    BY <1>1, <1>3, <1>4, <1>7, <1>8, <1>9, <1>10 DEF PacketsInv, Tested, Sending
<1>13. MessageInv'
    BY <1>1, <1>6, <1>9 DEF MessageInv
<1>14. HistoryInv' /\ RoundInv' /\ OneWayInv'
    BY <1>1, <1>4, <1>5, <1>9, NoHistoryNext
<1>15. AnswerInv'
    <2>1. Had' = 0 /\ 1..0 = {}
        BY <1>1, <1>4 DEF Had
    <2>2. (Heard' <=> Heard) /\ (Complete' <=> Complete)
        BY <1>1, HeardSame, SameTest
    <2>3. Heard /\ Complete => err = None
        BY <1>2 DEF TestInv, AnswerInv
    <2> QED BY <1>1, <2>1, <2>2, <2>3 DEF AnswerInv, Tested
<1> QED BY <1>11, <1>12, <1>13, <1>14, <1>15 DEF TestInv

\* A request is sent.
LEMMA SendTest == ASSUME IInv, TestInv, Send PROVE TestInv'
<1> DEFINE n == Len(truth)
           q == ToSend
           t == [NoTruth EXCEPT !.sent = now]
           trip == [client |-> [send |-> ClientTime(now, BothClocks), receive |-> NoTime],
                    server |-> [send |-> NoTime, receive |-> NoTime], window |-> 0]
<1>1. /\ sc' = sc /\ pc = "send" /\ pc' = "serve" /\ now' = now /\ err' = err /\ lconn' = lconn
      /\ conn' = conn /\ spkt' = spkt /\ rpkt' = rpkt /\ params' = params
      /\ msg' = [bytes |-> bytes(q), src |-> 0] /\ cpkt' = updateHMAC(setSeqno(q, n + 1))
      /\ truth' = Append(truth, t) /\ trips' = (IF OneWay THEN trips ELSE Append(trips, trip))
    BY DEF Send
<1>2. Testing /\ Tested /\ Sending
    BY <1>1 DEF Testing, Tested, Sending
<1>3. /\ sc \in Scenario /\ now \in Nat /\ sc.server.key = Key /\ Linked /\ Shared(params)
      /\ params.TripMode = Supplied.TripMode /\ Well(rpkt) /\ ServerBuffer(spkt) /\ (OneWay <=> OneWayTest)
      /\ (~OneWayTest /\ err # "OpenTimeout" => Well(spkt))
      /\ truth \in Seq(Truths) /\ IsBytes(truth) /\ IsBytes(trips) /\ n \in Nat /\ Len(trips) \in Nat
      /\ Len(trips) <= n
    BY <1>2, TestingIs
<1>4. /\ rpkt.key = Key /\ Cap(rpkt) = Greater(Supplied.Length, 92)
      /\ params.Length = ReqLen /\ Requests(cpkt, n) /\ Unforged(cpkt)
    BY <1>2 DEF TestInv, PacketsInv
<1>5. n < 2 /\ (OneWayTest /\ n = 0 => HoldsTime(cpkt, ClientTime(now, Ck), 12))
    <2>1. n = 0 => truth = << >>
        BY <1>3
    <2> QED BY <1>1, <2>1 DEF TestInv, HistoryInv, MessageInv
<1>6. /\ Requests(q, n) /\ (OneWayTest => HoldsTime(q, ClientTime(now, Ck), 12))
      /\ (~OneWayTest \/ HoldsTime(cpkt, ClientTime(now, Ck), 12) => q = cpkt)
    BY <1>3, <1>4, ToSendIs
<1>7. ~OneWayTest \/ n = 0 => Unforged(q)
    BY <1>4, <1>5, <1>6
<1> HIDE DEF q
<1>8. Requests(cpkt', n + 1) /\ Unforged(cpkt')
    BY <1>1, <1>3, <1>6, FollowingIs
<1>9. Well(cpkt') /\ ctoken(cpkt') = Token /\ cpkt'.len = ReqLen
    BY <1>8 DEF Requests, Framed
<1>10. t \in Truths /\ t.sent = now /\ t.got = 0
    BY <1>3 DEF Truths, NoTruth
<1> HIDE DEF t
<1>11. /\ truth' \in Seq(Truths) /\ Len(truth') = n + 1 /\ truth'[n + 1] = t
       /\ \A i \in 1..n : truth'[i] = truth[i]
    BY <1>1, <1>3, <1>10
<1>12. truth' # << >>
    BY <1>3, <1>11
<1>13. /\ Linked' /\ Supplied' = Supplied /\ Key' = Key /\ (OneWayTest' <=> OneWayTest) /\ ReqLen' = ReqLen
       /\ Ck' = Ck /\ Rs' = Rs /\ Shared(params)' /\ ServerBuffer(spkt)' /\ Unforged(cpkt)'
       /\ (Complete' <=> Complete) /\ (Heard' <=> Heard)
    BY <1>1, <1>3, <1>8, SameTest, HeardSame DEF Linked
<1>14. Requests(cpkt, Len(truth))'
    <2>1. Requests(cpkt', Len(truth'))
        BY <1>8, <1>11
    <2> QED BY <1>1, <2>1, SameTest
<1>15. StepInv'
    BY <1>1, <1>3, <1>9, <1>13 DEF StepInv, States, Opening, Testing
<1>16. PacketsInv'
    BY <1>1, <1>3, <1>4, <1>9, <1>13, <1>14 DEF PacketsInv, Tested, Sending
<1>17. MessageInv'
    <2> HIDE DEF n
    <2>1. PICK x, m : x = q /\ m = n
        OBVIOUS
    <2>2. Requests(x, m)' /\ (Unforged(x)' <=> Unforged(x))
        BY <1>1, <1>6, <2>1, SameTest
    <2>3. Len(truth') = m + 1 /\ truth'[m + 1].sent = now /\ (m + 1) - 1 = m
        <3>1. m \in Nat
            BY <1>3, <2>1
        <3>2. Len(truth') = m + 1 /\ truth'[m + 1] = t
            BY <1>11, <2>1
        <3> QED BY <1>10, <3>1, <3>2
    <2>4. Asking(x)'
        BY <1>1, <1>6, <1>7, <1>13, <2>1, <2>2, <2>3 DEF Asking
    <2> QED BY <1>1, <2>4 DEF MessageInv
<1>18. Had' = n /\ Had = n /\ Counts' = Counts
    <2>1. Taken' <=> Taken
        BY <1>1, SameTest
    <2>2. Had' = n /\ Had = n
        BY <1>1, <1>3, <1>11 DEF Had
    <2> QED BY <2>1, <2>2 DEF Counts
<1>19. IsBytes(trips') /\ Len(trips') = (IF OneWayTest THEN Len(trips) ELSE Len(trips) + 1)
       /\ (~OneWayTest => trips'[Len(trips) + 1] = trip) /\ \A i \in 1..Len(trips) : trips'[i] = trips[i]
    BY <1>1, <1>3, Appended
<1>20. HistoryInv'
    BY <1>1, <1>3, <1>4, <1>5, <1>10, <1>11, <1>13, <1>19 DEF HistoryInv
<1>21. RoundInv'
    <2> SUFFICES ASSUME ~OneWayTest PROVE RoundInv'
        BY <1>13 DEF RoundInv
    <2>1. /\ Len(trips) = n /\ conn.window = 2^Counts - 1 /\ conn.lastSeqno = Counts - 1
          /\ \A i \in 1..n : RoundRight(trips[i], truth[i], i)
        BY <1>2 DEF TestInv, RoundInv
    <2>2. RoundRight(trip, t, n + 1)
        BY <1>10 DEF RoundRight
    <2>3. \A i \in 1..(n + 1) : RoundRight(trips'[i], truth'[i], i)
        <3> SUFFICES ASSUME NEW i \in 1..(n + 1) PROVE RoundRight(trips'[i], truth'[i], i)
            OBVIOUS
        <3>1. CASE i = n + 1
            BY <1>11, <1>19, <2>1, <2>2, <3>1
        <3>2. CASE i \in 1..n
            BY <1>11, <1>19, <2>1, <3>2
        <3> QED BY <1>3, <3>1, <3>2
    <2>4. \A i \in 1..Len(truth') : RoundRight(trips[i], truth[i], i)'
        BY <1>1, <1>11, <2>3, SameTest
    <2> QED BY <1>1, <1>11, <1>18, <1>19, <2>1, <2>4 DEF RoundInv
<1>22. OneWayInv'
    <2> SUFFICES ASSUME OneWayTest PROVE OneWayInv'
        BY <1>13 DEF OneWayInv
    <2>1. /\ Len(trips) <= Counts /\ (Counts > 0 => Len(trips) > 0) /\ (Key = NoKey => Len(trips) = Counts)
          /\ \A i \in 1..Len(trips) : MeasuredOneWay(trips[i], truth[i], Rs, Ck)
        BY DEF TestInv, OneWayInv
    <2>2. \A i \in 1..Len(trips) : trips'[i] = trips[i] /\ truth'[i] = truth[i]
        BY <1>3, <1>11, <1>19
    <2> QED BY <1>13, <1>18, <1>19, <2>1, <2>2 DEF OneWayInv
<1>23. AnswerInv'
    <2>1. Heard /\ Complete => /\ err = None
                               /\ ~OneWayTest => \A i \in 1..n : truth[i].got > 0
        BY <1>1, <1>2, <1>18 DEF TestInv, AnswerInv
    <2> QED BY <1>1, <1>11, <1>13, <1>18, <2>1 DEF AnswerInv, Tested
<1> QED BY <1>15, <1>16, <1>17, <1>20, <1>21, <1>22, <1>23 DEF TestInv

\* What the server makes of the request q: it drops it, or answers it, or
\* records it.
ServedAt == [truth EXCEPT ![Len(truth)].received = now' - 1, ![Len(truth)].replied = now']
Drops(q) ==
    /\ ~(Taken /\ Unforged(q)) /\ Well(spkt') /\ ServerBuffer(spkt') /\ pc' = Next1
    /\ conn' = conn /\ msg' = msg /\ trips' = trips /\ truth' = truth
Echoes(q, p) ==
    /\ Taken /\ ~OneWayTest /\ ReadOf(p, q, Len(truth) - 1)
    /\ conn' = Counted(conn, Len(truth) - 1) /\ spkt' = EchoReply(p, conn')
    /\ \E src \in ReplySources : msg' = [bytes |-> bytes(spkt'), src |-> src]
    /\ pc' = "receive" /\ trips' = trips /\ truth' = ServedAt
Records(q, p) ==
    /\ Taken /\ OneWayTest /\ ReadOf(p, q, Len(truth) - 1)
    /\ conn' = Counted(conn, Len(truth) - 1) /\ spkt' = OneWayFields(p)
    /\ trips' = Append(trips, OneWayTrip(spkt'))
    /\ pc' = Next1 /\ msg' = msg /\ truth' = ServedAt

\* Serve does one of the three.
LEMMA ServeIs ==
    ASSUME IInv, TestInv, Serve, NEW q, Asking(q)
    PROVE  Drops(q) \/ \E p : Echoes(q, p) \/ Records(q, p)
<1> DEFINE n == Len(truth)
           r == Received(spkt, msg.bytes)
           p == addFields(readReset(r), fechoRequest, FALSE)
           c == Counted(conn, seqno(p))
           dropped == \/ readError(r) # None
                      \/ ~fbufValid(p) \/ ctoken(p) # conn.token \/ TooLarge(p)
<1>1. pc = "serve" /\ Testing
    BY DEF Serve, Testing
<1>2. sc \in Scenario /\ sc.server.key = Key /\ ServerBuffer(spkt) /\ Linked
    BY <1>1, TestingIs
<1>3. Requests(q, n - 1) /\ msg.bytes = bytes(q)
    BY DEF Asking
<1>4. /\ readError(r) = "none" <=> (ReqLen <= sc.server.MTU \/ Key = NoKey) /\ Unforged(q)
      /\ ReadOf(p, q, n - 1) /\ Well(readReset(r)) /\ ServerBuffer(readReset(r))
    BY <1>2, <1>3, RequestTaken
<1>5. /\ IF dropped
         THEN /\ spkt' = readReset(r) /\ pc' = Next1
              /\ UNCHANGED <<conn, msg, trips, truth>>
         ELSE /\ conn' = c
              /\ IF c.params.TripMode = "round"
                 THEN /\ spkt' = EchoReply(p, c)
                      /\ \E src \in ReplySources : msg' = [bytes |-> bytes(spkt'), src |-> src]
                      /\ pc' = "receive" /\ UNCHANGED trips
                 ELSE /\ spkt' = OneWayFields(p)
                      /\ trips' = Append(trips, OneWayTrip(spkt'))
                      /\ pc' = Next1 /\ UNCHANGED msg
              /\ truth' = ServedAt
    BY Zenon DEF Serve, ServedAt
<1> HIDE DEF dropped, p, r, c
<1>6. conn.params = Supplied /\ conn.token = Token
    BY <1>2 DEF Linked
<1>7. /\ fbufValid(p) /\ ctoken(p) = Token /\ seqno(p) = n - 1
      /\ (TooLarge(p) <=> sc.server.MaxLength > 0 /\ ReadLen > sc.server.MaxLength)
    BY <1>4 DEF ReadOf, Well, fbufValid, TooLarge
<1>8. dropped <=> ~(Taken /\ Unforged(q))
    BY <1>4, <1>6, <1>7 DEF dropped, Taken, None
<1>9. c = Counted(conn, n - 1) /\ c.params = Supplied
    <2>1. c = Counted(conn, n - 1)
        BY <1>7 DEF c
    <2>2. Counted(conn, n - 1).params = conn.params
        BY <1>2 DEF Linked, Counted
    <2> QED BY <1>6, <2>1, <2>2
<1>10. Supplied.TripMode = "round" <=> ~OneWayTest
    BY <1>2, AgreedIs DEF OneWayTest
<1>11. CASE dropped
    <2>1. spkt' = readReset(r) /\ pc' = Next1 /\ conn' = conn /\ msg' = msg /\ trips' = trips /\ truth' = truth
        BY <1>5, <1>11
    <2> QED BY <1>4, <1>8, <1>11, <2>1 DEF Drops
<1>12. CASE ~dropped
    <2>1. Taken /\ conn' = c /\ truth' = ServedAt
        BY <1>5, <1>8, <1>12
    <2>2. CASE ~OneWayTest
        <3>1. /\ spkt' = EchoReply(p, c) /\ pc' = "receive" /\ trips' = trips
              /\ \E src \in ReplySources : msg' = [bytes |-> bytes(spkt'), src |-> src]
            BY <1>5, <1>9, <1>10, <1>12, <2>2
        <3> QED BY <1>4, <1>9, <2>1, <2>2, <3>1 DEF Echoes
    <2>3. CASE OneWayTest
        <3>1. /\ spkt' = OneWayFields(p) /\ trips' = Append(trips, OneWayTrip(spkt'))
              /\ pc' = Next1 /\ msg' = msg
            BY <1>5, <1>9, <1>10, <1>12, <2>3
        <3> QED BY <1>4, <1>9, <2>1, <2>3, <3>1 DEF Records
    <2> QED BY <2>2, <2>3
<1> QED BY <1>11, <1>12

\* What there is before and after, whichever it is.
Serving ==
    /\ sc \in Scenario /\ sc' = sc /\ lconn' = lconn /\ err' = err /\ params' = params
    /\ cpkt' = cpkt /\ rpkt' = rpkt /\ pc = "serve" /\ Testing /\ Tested /\ Sending
    /\ now \in Nat /\ now' \in Nat /\ now' - 1 \in Nat
    /\ sc.server.key = Key /\ Linked /\ Shared(params) /\ ctoken(cpkt) = Token
    /\ params.TripMode = Supplied.TripMode /\ Well(cpkt) /\ Well(rpkt)
    /\ rpkt.key = Key /\ Cap(rpkt) = Greater(Supplied.Length, 92) /\ cpkt.len = ReqLen
    /\ params.Length = ReqLen /\ Requests(cpkt, Len(truth)) /\ Unforged(cpkt)
    /\ truth \in Seq(Truths) /\ IsBytes(truth) /\ Len(truth) \in {1, 2} /\ truth # << >>
    /\ IsBytes(trips) /\ Len(trips) \in Nat /\ Len(trips) <= Len(truth) /\ truth[Len(truth)].got = 0
    /\ Had = Len(truth) - 1

\* It holds when a request is served.
LEMMA ServingIs == ASSUME IInv, TestInv, Serve PROVE Serving
<1>1. /\ sc' = sc /\ lconn' = lconn /\ err' = err /\ params' = params /\ cpkt' = cpkt /\ rpkt' = rpkt
      /\ pc = "serve" /\ \E d \in sc.delay : now' = now + d + 1
    BY Zenon DEF Serve
<1>2. Testing /\ Tested /\ Sending
    BY <1>1 DEF Testing, Tested, Sending
<1>3. /\ sc \in Scenario /\ now \in Nat /\ sc.server.key = Key /\ Linked /\ Shared(params)
      /\ ctoken(cpkt) = Token /\ params.TripMode = Supplied.TripMode
      /\ Well(cpkt) /\ Well(rpkt) /\ truth \in Seq(Truths) /\ Len(truth) <= 2 /\ IsBytes(trips)
      /\ Len(trips) <= Len(truth) /\ Len(truth) \in Nat /\ IsBytes(truth) /\ Len(trips) \in Nat
    BY <1>2, TestingIs
<1>4. now' \in Nat /\ now' - 1 \in Nat
    BY <1>1, <1>3, AgreedIs
<1>5. Len(truth) > 0 /\ truth[Len(truth)].got = 0
    BY <1>1 DEF TestInv, HistoryInv
<1>6. truth # << >>
    BY <1>5
<1>7. /\ rpkt.key = Key /\ Cap(rpkt) = Greater(Supplied.Length, 92) /\ cpkt.len = ReqLen
      /\ params.Length = ReqLen /\ Requests(cpkt, Len(truth)) /\ Unforged(cpkt)
    BY <1>2, <1>6 DEF TestInv, PacketsInv
<1>8. Had = Len(truth) - 1
    BY <1>1 DEF Had
<1>9. Len(truth) \in {1, 2}
    <2> DEFINE n == Len(truth)
    <2>1. n \in Nat /\ n <= 2 /\ n > 0
        BY <1>3, <1>5
    <2> HIDE DEF n
    <2>2. n \in {1, 2}
        BY <2>1
    <2> QED BY <2>2 DEF n
<1> QED BY <1>1, <1>2, <1>3, <1>4, <1>5, <1>6, <1>7, <1>8, <1>9 DEF Serving

\* What is complete is taken.
LEMMA CompleteTaken ==
    ASSUME sc \in Scenario, Complete
    PROVE  Taken /\ ReadLen = ReqLen
<1>1. ReqLen \in Nat /\ sc.server.MTU \in Nat
    BY LengthsAre
<1>2. ReadLen = ReqLen
    BY <1>1 DEF Complete, ReadLen, Lesser
<1> QED BY <1>2 DEF Complete, Taken

\* The times of the request that was served, and those of the others.
LEMMA ServedIs ==
    ASSUME Serving, truth' = ServedAt
    PROVE  /\ truth' \in Seq(Truths) /\ Len(truth') = Len(truth) /\ truth' # << >>
           /\ \A i \in 1..Len(truth) : truth'[i].sent = truth[i].sent /\ truth'[i].got = truth[i].got
           /\ \A i \in 1..Len(truth) : i # Len(truth) => truth'[i] = truth[i]
           /\ truth'[Len(truth)].received = now' - 1 /\ truth'[Len(truth)].replied = now'
           /\ truth'[Len(truth)].replied = truth'[Len(truth)].received + 1
           /\ truth'[Len(truth)].received \in Nat
<1> DEFINE n == Len(truth)
<1>1. truth \in Seq(Truths) /\ n \in {1, 2} /\ now' \in Nat /\ now' - 1 \in Nat
    BY DEF Serving
<1>2. truth' = [truth EXCEPT ![n] = [[truth[n] EXCEPT !.received = now' - 1] EXCEPT !.replied = now']]
    BY <1>1 DEF ServedAt
<1>3. /\ [[truth[n] EXCEPT !.received = now' - 1] EXCEPT !.replied = now'] \in Truths
      /\ \A x : x = [[truth[n] EXCEPT !.received = now' - 1] EXCEPT !.replied = now'] =>
           x.received = now' - 1 /\ x.replied = now' /\ x.sent = truth[n].sent /\ x.got = truth[n].got
    <2> HIDE DEF n
    <2>1. n \in 1..n
        BY <1>1
    <2>2. truth[n] \in Truths
        BY <1>1, <2>1 DEF n
    <2> QED BY <1>1, <2>2 DEF Truths
<1>4. PICK x, a : /\ x = [[truth[n] EXCEPT !.received = now' - 1] EXCEPT !.replied = now']
                 /\ a = now'
    OBVIOUS
<1>5. /\ x \in Truths /\ x.received = now' - 1 /\ x.replied = now' /\ x.sent = truth[n].sent
      /\ x.got = truth[n].got /\ truth' = [truth EXCEPT ![n] = x]
    BY <1>2, <1>3, <1>4
<1>6. /\ truth' \in Seq(Truths) /\ Len(truth') = n /\ truth'[n] = x
      /\ \A i \in 1..n : i # n => truth'[i] = truth[i]
    <2> HIDE DEF n
    <2>1. n \in 1..n /\ truth \in [1..n -> Truths]
        BY <1>1 DEF n
    <2>2. truth' = [truth EXCEPT ![n] = x] /\ x \in Truths
        BY <1>5
    <2>3. truth' \in [1..n -> Truths] /\ truth'[n] = x /\ \A i \in 1..n : i # n => truth'[i] = truth[i]
        BY <2>1, <2>2
    <2>4. truth' \in Seq(Truths) /\ Len(truth') = n
        BY <1>1, <2>3
    <2> QED BY <2>3, <2>4
<1>7. (now' - 1) + 1 = now'
    <2>1. a \in Nat => (a - 1) + 1 = a
        OBVIOUS
    <2> QED BY <1>1, <1>4, <2>1
<1>8. truth' # << >>
    BY <1>1, <1>6
<1> QED BY <1>1, <1>5, <1>6, <1>7, <1>8

\* What serving a request leaves of the step and of the packets.
LEMMA ServedStep ==
    ASSUME Serving, TestInv, pc' \in {"send", "receive", "close"}, Linked', Len(truth') = Len(truth),
           ServerBuffer(spkt'), ~OneWayTest => Well(spkt'),
           pc' = "receive" => \E src \in ReplySources : msg' = [bytes |-> bytes(spkt'), src |-> src]
    PROVE  StepInv' /\ PacketsInv'
<1>1. /\ sc' = sc /\ sc \in Scenario /\ now' \in Nat /\ sc.server.key = Key /\ params' = params /\ cpkt' = cpkt
      /\ rpkt' = rpkt /\ lconn' = lconn /\ err' = err /\ Shared(params) /\ ctoken(cpkt) = Token
      /\ params.TripMode = Supplied.TripMode /\ Well(cpkt) /\ Well(rpkt)
      /\ rpkt.key = Key /\ Cap(rpkt) = Greater(Supplied.Length, 92) /\ cpkt.len = ReqLen
      /\ params.Length = ReqLen /\ Requests(cpkt, Len(truth)) /\ Unforged(cpkt)
    BY DEF Serving
<1>2. /\ Supplied' = Supplied /\ Key' = Key /\ (OneWayTest' <=> OneWayTest) /\ ReqLen' = ReqLen
    BY <1>1, SameTest
<1>3. Shared(params)' /\ ServerBuffer(spkt)' /\ Unforged(cpkt)'
    <2>1. PICK x : x = spkt'
        OBVIOUS
    <2>2. ServerBuffer(x)' <=> ServerBuffer(x)
        BY <1>1, SameTest
    <2>3. Shared(params)' /\ Unforged(cpkt)'
        BY <1>1, SameTest
    <2>4. ServerBuffer(x)'
        BY <2>1, <2>2
    <2> QED BY <2>1, <2>3, <2>4
<1>4. Requests(cpkt, Len(truth))'
    <2>1. Requests(cpkt', Len(truth'))
        BY <1>1
    <2> QED BY <1>1, <2>1, SameTest
<1>5. ReplySources' = ReplySources
    BY <1>1, HeardSame
<1>6. pc' = "receive" => msg'.src \in ReplySources'
    <2> SUFFICES ASSUME pc' = "receive" PROVE msg'.src \in ReplySources'
        OBVIOUS
    <2>1. PICK src \in ReplySources : msg' = [bytes |-> bytes(spkt'), src |-> src]
        OBVIOUS
    <2> QED BY <1>5, <2>1
<1>7. StepInv'
    BY <1>1, <1>2, <1>3, <1>6 DEF StepInv, States, Opening, Testing
<1>8. PacketsInv'
    BY <1>1, <1>2, <1>3, <1>4 DEF PacketsInv, Tested, Sending
<1> QED BY <1>7, <1>8

\* A request is dropped.
LEMMA DropsTest == ASSUME IInv, TestInv, Serve, Serving, NEW q, Asking(q), Drops(q) PROVE TestInv'
<1> DEFINE n == Len(truth)
<1>1. /\ sc' = sc /\ sc \in Scenario /\ params' = params /\ err' = err /\ lconn' = lconn /\ pc = "serve"
      /\ Shared(params) /\ params.Length = ReqLen /\ Linked /\ n \in {1, 2} /\ truth # << >>
      /\ truth \in Seq(Truths) /\ IsBytes(trips) /\ Len(trips) \in Nat /\ Len(trips) <= n /\ Had = n - 1
    BY DEF Serving
<1>2. /\ ~(Taken /\ Unforged(q)) /\ Well(spkt') /\ ServerBuffer(spkt') /\ pc' = Next1
      /\ conn' = conn /\ msg' = msg /\ trips' = trips /\ truth' = truth
    BY DEF Drops
<1>3. pc' \in {"send", "close"} /\ (pc' = "send" => n < 2)
    BY <1>2 DEF Next1
<1>4. /\ Linked' /\ (OneWayTest' <=> OneWayTest) /\ ReqLen' = ReqLen /\ Key' = Key /\ Shared(params)' /\ Rs' = Rs
      /\ (Complete' <=> Complete) /\ (Heard' <=> Heard) /\ (Taken' <=> Taken) /\ Ck' = Ck
    BY <1>1, <1>2, SameTest, HeardSame DEF Linked
<1>5. StepInv' /\ PacketsInv'
    BY <1>2, <1>3, <1>4, ServedStep
<1>6. MessageInv'
    BY <1>1, <1>2, <1>3 DEF MessageInv
<1>7. ~OneWayTest \/ n = 1 \/ Key = NoKey => ~Taken
    BY <1>2 DEF Asking, Unforged
<1>8. Had' = n
    BY <1>1, <1>2, <1>3 DEF Had
<1>9. HistoryInv'
    BY <1>1, <1>2, <1>3, <1>4 DEF HistoryInv, TestInv
<1>10. RoundInv'
    <2> SUFFICES ASSUME ~OneWayTest PROVE RoundInv'
        BY <1>4 DEF RoundInv
    <2>1. Counts' = Counts
        BY <1>4, <1>7 DEF Counts
    <2>2. /\ Len(trips) = n /\ conn.window = 2^Counts - 1 /\ conn.lastSeqno = Counts - 1
          /\ \A i \in 1..n : RoundRight(trips[i], truth[i], i)
        BY <1>1 DEF TestInv, RoundInv, Tested
    <2>3. \A i \in 1..n : RoundRight(trips[i], truth[i], i)'
        BY <1>1, <1>2, <2>2, SameTest
    <2> QED BY <1>1, <1>2, <2>1, <2>2, <2>3 DEF RoundInv
<1>11. OneWayInv'
    <2> SUFFICES ASSUME OneWayTest PROVE OneWayInv'
        BY <1>4 DEF OneWayInv
    <2>1. /\ Len(trips) <= Counts /\ (Counts > 0 => Len(trips) > 0) /\ (Key = NoKey => Len(trips) = Counts)
          /\ \A i \in 1..Len(trips) : MeasuredOneWay(trips[i], truth[i], Rs, Ck)
        BY DEF TestInv, OneWayInv
    <2>2. CASE ~Taken
        <3>1. Counts' = 0 /\ Counts = 0
            BY <1>4, <2>2 DEF Counts
        <3> QED BY <1>2, <1>4, <2>1, <3>1 DEF OneWayInv
    <2>3. CASE Taken
        <3>1. n = 2 /\ Key # NoKey
            BY <1>1, <1>7, <2>3
        <3>2. Counts' = 2 /\ Counts = 1
            BY <1>1, <1>4, <1>8, <2>3, <3>1 DEF Counts
        <3> QED BY <1>1, <1>2, <1>4, <2>1, <3>1, <3>2 DEF OneWayInv
    <2> QED BY <2>2, <2>3
<1>12. AnswerInv'
    <2>1. ~Complete
        <3> SUFFICES ASSUME Complete PROVE FALSE
            OBVIOUS
        <3>1. Taken /\ (~OneWayTest \/ Key = NoKey)
            BY <1>1, CompleteTaken DEF Complete
        <3> QED BY <1>7, <3>1
    <2> QED BY <1>1, <1>2, <1>3, <1>4, <2>1 DEF AnswerInv
<1> QED BY <1>5, <1>6, <1>9, <1>10, <1>11, <1>12 DEF TestInv

\* A connection, and one whose counters are replaced.
ConnOf(ps, tk, f, x, z, y) ==
    [params |-> ps, token |-> tk, fill |-> f, count |-> x, window |-> z, lastSeqno |-> y]
Recount(c0, x, y, z) == [c0 EXCEPT !.count = x, !.lastSeqno = y, !.window = z]

\* Its parameters, token and fill are kept.
LEMMA Recounted ==
    ASSUME NEW ps, NEW tk, NEW f, NEW c0, c0 = ConnOf(ps, tk, f, c0.count, c0.window, c0.lastSeqno),
           NEW x, NEW y, NEW z, NEW c, c = Recount(c0, x, y, z)
    PROVE  c = ConnOf(ps, tk, f, x, z, y)
<1>1. PICK a1, a2, a3 : a1 = c0.count /\ a2 = c0.window /\ a3 = c0.lastSeqno
    OBVIOUS
<1>2. c0 = [params |-> ps, token |-> tk, fill |-> f, count |-> a1, window |-> a2, lastSeqno |-> a3]
    BY <1>1 DEF ConnOf
<1>3. PICK c1 : c1 = [c0 EXCEPT !.count = x]
    OBVIOUS
<1>4. PICK c2 : c2 = [c1 EXCEPT !.lastSeqno = y]
    OBVIOUS
<1>5. c = [c2 EXCEPT !.window = z]
    BY <1>3, <1>4 DEF Recount
<1>6. c1 = [params |-> ps, token |-> tk, fill |-> f, count |-> x, window |-> a2, lastSeqno |-> a3]
    BY ONLY <1>2, <1>3
<1>7. c2 = [params |-> ps, token |-> tk, fill |-> f, count |-> x, window |-> a2, lastSeqno |-> y]
    BY ONLY <1>4, <1>6
<1>8. c = [params |-> ps, token |-> tk, fill |-> f, count |-> x, window |-> z, lastSeqno |-> y]
    BY ONLY <1>5, <1>7
<1> QED BY <1>8 DEF ConnOf

\* The counters of the connection after the first and the second request.
LEMMA CountedIs ==
    ASSUME Linked, NEW n \in {1, 2}, conn.window = 2^(n - 1) - 1, conn.lastSeqno = n - 2, NEW c,
           c = Counted(conn, n - 1)
    PROVE  /\ c = [params |-> Supplied, token |-> Token, fill |-> FillOf(sc.server, Supplied),
                   count |-> c.count, window |-> c.window, lastSeqno |-> c.lastSeqno]
           /\ c.window = 2^n - 1 /\ c.lastSeqno = n - 1
<1> DEFINE f == FillOf(sc.server, Supplied)
<1>1. conn = [params |-> Supplied, token |-> Token, fill |-> f,
              count |-> conn.count, window |-> conn.window, lastSeqno |-> conn.lastSeqno]
    BY DEF Linked
<1> HIDE DEF f
<1>2. PICK w, k : w = conn.window * 2^((n - 1) - conn.lastSeqno) + 1 /\ k = conn.count + 1
    OBVIOUS
<1>5. c = [conn EXCEPT !.count = k, !.lastSeqno = n - 1, !.window = w]
    BY <1>2 DEF Counted
<1>3. 2^0 = 1 /\ 2^1 = 2 /\ 2^2 = 4
    OBVIOUS
<1>4. conn.window * 2^((n - 1) - conn.lastSeqno) + 1 = 2^n - 1
    <2>1. (n - 1) - conn.lastSeqno = 1
        OBVIOUS
    <2>2. CASE n = 1
        <3>1. conn.window = 0
            BY <1>3, <2>2
        <3> QED BY <1>3, <2>1, <2>2, <3>1
    <2>3. CASE n = 2
        <3>1. conn.window = 1
            BY <1>3, <2>3
        <3> QED BY <1>3, <2>1, <2>3, <3>1
    <2> QED BY <2>2, <2>3
<1>6. c = [params |-> Supplied, token |-> Token, fill |-> f, count |-> k, window |-> w, lastSeqno |-> n - 1]
    <2>1. PICK y : y = n - 1
        OBVIOUS
    <2>2. c = Recount(conn, k, y, w) /\ conn = ConnOf(Supplied, Token, f, conn.count, conn.window, conn.lastSeqno)
        BY <1>1, <1>5, <2>1 DEF Recount, ConnOf
    <2>3. c = ConnOf(Supplied, Token, f, k, w, y)
        BY ONLY <2>2, Recounted
    <2> QED BY <2>1, <2>3 DEF ConnOf
<1>7. /\ c = [params |-> Supplied, token |-> Token, fill |-> f,
               count |-> c.count, window |-> c.window, lastSeqno |-> c.lastSeqno]
      /\ c.window = w /\ c.lastSeqno = n - 1
    BY <1>6
<1> QED BY <1>2, <1>4, <1>7 DEF f

\* A request of a round trip is answered.
LEMMA EchoesTest ==
    ASSUME IInv, TestInv, Serve, Serving, NEW q, Asking(q), NEW p, Echoes(q, p)
    PROVE  TestInv'
<1> DEFINE n == Len(truth)
<1>1. /\ sc' = sc /\ sc \in Scenario /\ params' = params /\ err' = err /\ lconn' = lconn /\ pc = "serve"
      /\ Shared(params) /\ params.Length = ReqLen /\ Linked /\ n \in {1, 2} /\ truth # << >>
      /\ truth \in Seq(Truths) /\ IsBytes(trips) /\ Len(trips) \in Nat /\ Len(trips) <= n /\ Had = n - 1
      /\ truth[n].got = 0 /\ Tested /\ sc.server.key = Key
    BY DEF Serving
<1>2. /\ Taken /\ ~OneWayTest /\ ReadOf(p, q, n - 1)
      /\ conn' = Counted(conn, n - 1) /\ spkt' = EchoReply(p, conn')
      /\ \E src \in ReplySources : msg' = [bytes |-> bytes(spkt'), src |-> src]
      /\ pc' = "receive" /\ trips' = trips /\ truth' = ServedAt
    BY DEF Echoes
<1>3. /\ Len(trips) = n /\ conn.window = 2^(n - 1) - 1 /\ conn.lastSeqno = n - 2
      /\ \A i \in 1..n : RoundRight(trips[i], truth[i], i)
    <2>1. Counts = n - 1 /\ (n - 1) - 1 = n - 2
        BY <1>1, <1>2 DEF Counts
    <2>2. /\ Len(trips) = n /\ conn.window = 2^Counts - 1 /\ conn.lastSeqno = Counts - 1
          /\ \A i \in 1..n : RoundRight(trips[i], truth[i], i)
        BY <1>1, <1>2 DEF TestInv, RoundInv
    <2> QED BY <2>1, <2>2
<1>4. /\ truth' \in Seq(Truths) /\ Len(truth') = n /\ truth' # << >>
      /\ \A i \in 1..n : truth'[i].sent = truth[i].sent /\ truth'[i].got = truth[i].got
      /\ \A i \in 1..n : i # n => truth'[i] = truth[i]
      /\ truth'[n].replied = now' /\ truth'[n].replied = truth'[n].received + 1
      /\ truth'[n].received \in Nat
    BY <1>2, ServedIs
<1>5. PICK c, t, u : c = conn' /\ t = truth'[n] /\ u = spkt'
    OBVIOUS
<1>6. /\ c = [params |-> Supplied, token |-> Token, fill |-> FillOf(sc.server, Supplied),
              count |-> c.count, window |-> c.window, lastSeqno |-> c.lastSeqno]
      /\ c.window = 2^n - 1 /\ c.lastSeqno = n - 1
    BY <1>1, <1>2, <1>3, <1>5, CountedIs
<1>7. Linked'
    BY <1>1, <1>5, <1>6, SameTest DEF Linked
<1>8. Answers(u, n - 1, 2^n - 1, t, c.fill)
    <2>1. c.params = Supplied
        BY <1>6
    <2>2. t.received \in Nat /\ t.replied = t.received + 1 /\ now' = t.replied
        BY <1>4, <1>5
    <2>3. Answers(EchoReply(p, c), n - 1, c.window, t, c.fill)
        BY <1>1, <1>2, <2>1, <2>2, EchoReplyIs
    <2>4. u = EchoReply(p, c)
        BY <1>2, <1>5
    <2> QED BY <1>6, <2>3, <2>4
<1>9. Well(spkt') /\ ServerBuffer(spkt')
    <2>1. Sendable(u, RepFields) /\ u.key = Key /\ Cap(u) = sc.server.MTU
        BY <1>8 DEF Answers
    <2>2. Well(u)
        BY <2>1 DEF Sendable, Framed
    <2>3. Buffer(u)
        BY <2>2, BufferIs
    <2> QED BY <1>1, <1>5, <2>1, <2>2, <2>3 DEF ServerBuffer
<1>10. /\ (OneWayTest' <=> OneWayTest) /\ ReqLen' = ReqLen /\ Shared(params)'
       /\ (Complete' <=> Complete) /\ (Heard' <=> Heard) /\ (Taken' <=> Taken)
    BY <1>1, SameTest, HeardSame
<1>11. StepInv' /\ PacketsInv'
    BY <1>2, <1>4, <1>7, <1>9, ServedStep
<1>12. MessageInv'
    <2>1. msg'.bytes = bytes(spkt')
        BY <1>2
    <2>2. PICK m, w : m = n - 1 /\ w = 2^n - 1
        OBVIOUS
    <2>3. PICK f : f = c.fill
        OBVIOUS
    <2>4. Answers(u, m, w, t, f)
        BY <1>8, <2>2, <2>3
    <2>5. Answers(u, m, w, t, f)'
        BY <1>1, <2>4, SameTest
    <2>6. (LET k == Len(truth)
           IN  Answers(spkt, k - 1, 2^k - 1, truth[k], conn.fill))'
        BY <1>4, <1>5, <2>2, <2>3, <2>5
    <2> QED BY <1>2, <2>1, <2>6 DEF MessageInv
<1>13. Had' = n /\ Counts' = n
    BY <1>2, <1>4, <1>10 DEF Had, Counts
<1>14. HistoryInv'
    <2>1. truth'[n].got = 0 /\ Len(truth') <= 2 /\ Len(truth') > 0
        BY <1>1, <1>4
    <2> QED BY <1>1, <1>2, <1>4, <1>10, <2>1 DEF HistoryInv
<1>15. RoundInv'
    <2>1. \A i \in 1..n : RoundRight(trips[i], truth'[i], i)
        <3> SUFFICES ASSUME NEW i \in 1..n PROVE RoundRight(trips[i], truth'[i], i)
            OBVIOUS
        <3>1. CASE i # n
            BY <1>3, <1>4, <3>1
        <3>2. CASE i = n
            <4>1. /\ truth'[n].sent = truth[n].sent /\ truth'[n].got = 0 /\ truth[n].got = 0
                  /\ RoundRight(trips[n], truth[n], n)
                BY <1>1, <1>3, <1>4, <3>2
            <4> QED BY <3>2, <4>1 DEF RoundRight
        <3> QED BY <3>1, <3>2
    <2>2. \A i \in 1..Len(truth') : RoundRight(trips[i], truth[i], i)'
        BY <1>1, <1>2, <1>4, <2>1, SameTest
    <2>3. conn'.window = 2^Counts' - 1 /\ conn'.lastSeqno = Counts' - 1
        BY <1>5, <1>6, <1>13
    <2> QED BY <1>2, <1>3, <1>4, <2>2, <2>3 DEF RoundInv
<1>16. OneWayInv'
    BY <1>2, <1>10 DEF OneWayInv
<1>17. AnswerInv'
    <2>1. Heard /\ Complete => err = None /\ \A i \in 1..(n - 1) : truth[i].got > 0
        BY <1>1, <1>2 DEF TestInv, AnswerInv
    <2>2. Heard /\ Complete => \A i \in 1..n : i < n => truth'[i].got > 0
        BY <1>1, <1>4, <2>1
    <2> QED BY <1>1, <1>2, <1>10, <1>13, <2>1, <2>2 DEF AnswerInv
<1> QED BY <1>11, <1>12, <1>14, <1>15, <1>16, <1>17 DEF TestInv

\* A request of a one-way test is recorded.
LEMMA RecordsTest ==
    ASSUME IInv, TestInv, Serve, Serving, NEW q, Asking(q), NEW p, Records(q, p)
    PROVE  TestInv'
<1> DEFINE n == Len(truth)
           k == Len(trips)
<1>1. /\ sc' = sc /\ sc \in Scenario /\ params' = params /\ err' = err /\ lconn' = lconn /\ pc = "serve"
      /\ Shared(params) /\ params.Length = ReqLen /\ Linked /\ n \in {1, 2} /\ truth # << >>
      /\ truth \in Seq(Truths) /\ IsBytes(trips) /\ k \in Nat /\ k <= n /\ Had = n - 1
      /\ truth[n].got = 0 /\ Tested /\ sc.server.key = Key
    BY DEF Serving
<1>2. /\ Taken /\ OneWayTest /\ ReadOf(p, q, n - 1)
      /\ conn' = Counted(conn, n - 1) /\ spkt' = OneWayFields(p)
      /\ trips' = Append(trips, OneWayTrip(spkt'))
      /\ pc' = Next1 /\ msg' = msg /\ truth' = ServedAt
    BY DEF Records
<1>3. pc' \in {"send", "close"} /\ (pc' = "send" => n < 2)
    BY <1>2 DEF Next1
<1>4. /\ truth' \in Seq(Truths) /\ Len(truth') = n /\ truth' # << >>
      /\ \A i \in 1..n : truth'[i].sent = truth[i].sent /\ truth'[i].got = truth[i].got
      /\ \A i \in 1..n : i # n => truth'[i] = truth[i]
      /\ truth'[n].received = now' - 1 /\ truth'[n].received \in Nat
    BY <1>2, ServedIs
<1>5. k <= n - 1 /\ (n = 2 => k > 0) /\ \A i \in 1..k : MeasuredOneWay(trips[i], truth[i], Rs, Ck)
    <2>1. Counts = n - 1
        BY <1>1, <1>2 DEF Counts
    <2> QED BY <1>2, <2>1 DEF TestInv, OneWayInv
<1>6. k = n - 1
    BY <1>1, <1>5
<1>7. PICK u, tr, t : u = spkt' /\ tr = OneWayTrip(spkt') /\ t = truth'[n]
    OBVIOUS
<1>8. u = OneWayFields(p) /\ trips' = Append(trips, tr)
    BY <1>2, <1>7
<1>9. /\ Requests(q, n - 1) /\ HoldsTime(q, ClientTime(truth[n].sent, Ck), 12)
    BY <1>2 DEF Asking
<1>10. truth[n].sent \in Nat /\ t.sent = truth[n].sent /\ t.received = now' - 1 /\ t.received \in Nat
    <2>1. truth[n] \in Truths
        <3> HIDE DEF n
        <3>1. n \in 1..n
            BY <1>1
        <3> QED BY <1>1, <3>1 DEF n
    <2>2. truth[n].sent \in Nat
        BY <2>1 DEF Truths
    <2>3. t.sent = truth[n].sent
        BY <1>1, <1>4, <1>7
    <2> QED BY <1>4, <1>7, <2>2, <2>3
<1>11. PICK ct : ct = ClientTime(t.sent, Ck)
    OBVIOUS
<1>12. ct = [wall |-> IF "wall" \in Ck THEN 1000 + t.sent ELSE 0, mono |-> IF "mono" \in Ck THEN 10 + t.sent ELSE 0]
    <2>1. \A x \in Nat : \A c :
            ClientTime(x, c) = [wall |-> IF "wall" \in c THEN 1000 + x ELSE 0,
                                mono |-> IF "mono" \in c THEN 10 + x ELSE 0]
        BY TimesIs
    <2>2. t.sent \in Nat
        BY <1>10
    <2> QED BY <1>11, <2>1, <2>2
<1>13. ct.wall # 0 <=> "wall" \in Ck
    BY <1>10, <1>12
<1>14. ct.mono # 0 <=> "mono" \in Ck
    BY <1>10, <1>12
<1>15. /\ Buffer(u) /\ u.key = p.key /\ Cap(u) = Cap(p)
       /\ Rs = {"count", "window"} /\ "wall" \in Ck => timestamp(u).send.wall = ct.wall
       /\ Rs = {"count", "window"} /\ Ck = BothClocks => timestamp(u).send.mono = ct.mono
    BY <1>1, <1>2, <1>8, <1>9, <1>10, <1>11, <1>13, <1>14, OneWayRead
<1>16. ServerBuffer(spkt')
    BY <1>1, <1>2, <1>7, <1>15 DEF ServerBuffer, ReadOf
<1>17. MeasuredOneWay(tr, t, Rs, Ck)
    <2>1. tr = [oneway |-> TRUE,
                client |-> [send |-> timestamp(u).send, receive |-> NoTime],
                server |-> [receive |-> ServerTime(now' - 1, BothClocks), send |-> NoTime],
                window |-> getNumber(u, fRWindow)]
        BY Zenon, <1>7 DEF OneWayTrip
    <2>2. tr.client.send = timestamp(u).send /\ tr.server.receive = ServerTime(t.received, BothClocks)
        BY <1>10, <2>1
    <2>3. timestamp(u).send = [wall |-> timestamp(u).send.wall, mono |-> timestamp(u).send.mono]
        BY DEF timestamp, tget
    <2>4. Ck = BothClocks => "wall" \in Ck
        BY DEF BothClocks
    <2>5. Rs = {"count", "window"} /\ Ck = BothClocks => timestamp(u).send = ct
        BY <1>12, <1>15, <2>3, <2>4
    <2> QED BY <1>11, <1>15, <2>2, <2>5 DEF MeasuredOneWay
<1>18. /\ IsBytes(trips') /\ Len(trips') = n /\ trips'[n] = tr /\ \A i \in 1..k : trips'[i] = trips[i]
    <2>1. k + 1 = n
        BY <1>1, <1>6
    <2> QED BY <1>1, <1>8, <2>1, Appended
<1>19. Linked'
    <2>1. Supplied' = Supplied /\ FillOf(sc.server, Supplied)' = FillOf(sc.server, Supplied)
        BY <1>1, SameTest
    <2>2. PICK x, y, z, f : conn' = Recount(conn, x, y, z) /\ f = FillOf(sc.server, Supplied)
        BY <1>2 DEF Counted, Recount
    <2>3. conn = ConnOf(Supplied, Token, f, conn.count, conn.window, conn.lastSeqno)
        BY <1>1, <2>2 DEF Linked, ConnOf
    <2>4. conn' = ConnOf(Supplied, Token, f, x, z, y)
        BY ONLY <2>2, <2>3, Recounted
    <2>5. conn' = [params |-> Supplied, token |-> Token, fill |-> f,
                   count |-> conn'.count, window |-> conn'.window, lastSeqno |-> conn'.lastSeqno]
        BY <2>4 DEF ConnOf
    <2> QED BY <2>1, <2>2, <2>5 DEF Linked
<1>20. /\ (OneWayTest' <=> OneWayTest) /\ ReqLen' = ReqLen /\ Shared(params)' /\ Key' = Key /\ Rs' = Rs /\ Ck' = Ck
       /\ (Complete' <=> Complete) /\ (Heard' <=> Heard) /\ (Taken' <=> Taken)
    BY <1>1, SameTest, HeardSame
<1>21. StepInv' /\ PacketsInv'
    BY <1>2, <1>3, <1>4, <1>16, <1>19, ServedStep
<1>22. MessageInv'
    BY <1>3, <1>4 DEF MessageInv
<1>23. Had' = n /\ Counts' = n
    BY <1>2, <1>3, <1>4, <1>20 DEF Had, Counts
<1>24. HistoryInv'
    BY <1>1, <1>3, <1>4, <1>18, <1>20 DEF HistoryInv
<1>25. RoundInv'
    BY <1>2, <1>20 DEF RoundInv
<1>26. OneWayInv'
    <2>1. \A i \in 1..n : MeasuredOneWay(trips'[i], truth'[i], Rs, Ck)
        <3> SUFFICES ASSUME NEW i \in 1..n PROVE MeasuredOneWay(trips'[i], truth'[i], Rs, Ck)
            OBVIOUS
        <3>1. CASE i = n
            BY <1>7, <1>17, <1>18, <3>1
        <3>2. CASE i # n
            <4>1. i \in 1..k
                BY <1>1, <1>6, <3>2
            <4> QED BY <1>4, <1>5, <1>18, <3>2, <4>1
        <3> QED BY <3>1, <3>2
    <2> QED BY <1>1, <1>18, <1>20, <1>23, <2>1 DEF OneWayInv
<1>27. AnswerInv'
    <2>1. Heard /\ Complete => err = None
        BY <1>1 DEF TestInv, AnswerInv
    <2>2. pc' = "close" => n = 2
        BY <1>1, <1>2 DEF Next1
    <2> QED BY <1>1, <1>2, <1>3, <1>4, <1>20, <2>1, <2>2 DEF AnswerInv
<1> QED BY <1>21, <1>22, <1>24, <1>25, <1>26, <1>27 DEF TestInv

\* A request is served.
LEMMA ServeTest == ASSUME IInv, TestInv, Serve PROVE TestInv'
<1>1. Serving
    BY ServingIs
<1>2. PICK q : Asking(q)
    BY <1>1 DEF Serving, TestInv, MessageInv
<1>3. Drops(q) \/ \E p : Echoes(q, p) \/ Records(q, p)
    BY <1>2, ServeIs
<1> QED BY <1>1, <1>2, <1>3, DropsTest, EchoesTest, RecordsTest

\* What the client makes of the reply that arrives: it is of another address,
\* or cut short, or recorded.
Stays == cpkt' = cpkt /\ spkt' = spkt /\ conn' = conn /\ msg' = msg /\ params' = params
         /\ sc' = sc /\ lconn' = lconn
Lost == ~Arrives /\ rpkt' = rpkt /\ trips' = trips /\ truth' = truth /\ pc' = Next1 /\ err' = err
IsCut(p) == /\ RepLen < ReqLen /\ rpkt' = p /\ trips' = trips /\ truth' = truth
            /\ pc' = "close" /\ err' = "ShortReply"
Gets(p) == /\ rpkt' = p /\ trips' = Recorded(p)
           /\ truth' = [truth EXCEPT ![Len(truth)].got = now'] /\ pc' = Next1 /\ err' = err
Reading(p) ==
    LET n == Len(truth)
    IN  /\ Well(p) /\ p.key = Key /\ Cap(p) = Cap(rpkt) /\ p.len = RepLen /\ seqno(p) = n - 1
        /\ ~MonoMidpoint => timestamp(p) = ReadStamp(truth[n])
        /\ (IF isset(p, fRWindow) THEN getNumber(p, fRWindow) ELSE 0) = IF "window" \in Rs THEN 2^n - 1 ELSE 0

\* Before and after, whichever it is.
Receiving ==
    /\ sc \in Scenario /\ pc = "receive" /\ Testing /\ Tested /\ Sending /\ Stays
    /\ now \in Nat /\ now' \in Nat /\ now' > 0 /\ ~OneWayTest /\ Taken
    /\ sc.server.key = Key /\ Linked /\ Shared(params) /\ ctoken(cpkt) = Token
    /\ params.TripMode = Supplied.TripMode /\ Well(cpkt) /\ Well(rpkt) /\ Well(spkt) /\ ServerBuffer(spkt)
    /\ rpkt.key = Key /\ Cap(rpkt) = Greater(Supplied.Length, 92) /\ cpkt.len = ReqLen
    /\ params.Length = ReqLen /\ Requests(cpkt, Len(truth)) /\ Unforged(cpkt)
    /\ truth \in Seq(Truths) /\ IsBytes(truth) /\ Len(truth) \in {1, 2} /\ truth # << >>
    /\ IsBytes(trips) /\ Len(trips) = Len(truth) /\ Had = Len(truth) /\ Counts = Len(truth)
    /\ truth[Len(truth)].replied = truth[Len(truth)].received + 1
    /\ truth[Len(truth)].received \in Nat /\ truth[Len(truth)].replied \in Nat
    /\ Answers(spkt, Len(truth) - 1, 2^Len(truth) - 1, truth[Len(truth)], conn.fill)
    /\ msg.bytes = bytes(spkt) /\ msg.src \in ReplySources /\ Serves(lconn, sc.target)

\* It holds when the client receives.
LEMMA ReceivingIs == ASSUME IInv, TestInv, Receive PROVE Receiving
<1>1. Stays /\ pc = "receive" /\ \E d \in sc.delay : now' = now + d
    BY Zenon DEF Receive, Stays
<1>2. Testing /\ Tested /\ Sending
    BY <1>1 DEF Testing, Tested, Sending
<1>3. /\ sc \in Scenario /\ now \in Nat /\ sc.server.key = Key /\ Linked /\ Shared(params)
      /\ ctoken(cpkt) = Token /\ params.TripMode = Supplied.TripMode
      /\ Well(cpkt) /\ Well(rpkt) /\ truth \in Seq(Truths) /\ Len(truth) <= 2 /\ IsBytes(trips)
      /\ Len(trips) <= Len(truth) /\ Len(truth) \in Nat /\ IsBytes(truth) /\ Len(trips) \in Nat
      /\ ServerBuffer(spkt) /\ Serves(lconn, sc.target)
    BY <1>2, TestingIs
<1>4. /\ Len(truth) > 0 /\ ~OneWayTest /\ Taken /\ truth[Len(truth)].replied = now
      /\ truth[Len(truth)].replied = truth[Len(truth)].received + 1
    BY <1>1 DEF TestInv, HistoryInv
<1>5. truth # << >>
    BY <1>4
<1>6. /\ rpkt.key = Key /\ Cap(rpkt) = Greater(Supplied.Length, 92) /\ cpkt.len = ReqLen
      /\ params.Length = ReqLen /\ Requests(cpkt, Len(truth)) /\ Unforged(cpkt)
    BY <1>2, <1>5 DEF TestInv, PacketsInv
<1>7. Had = Len(truth) /\ Counts = Len(truth) /\ Len(trips) = Len(truth)
    BY <1>1, <1>4 DEF Had, Counts, TestInv, RoundInv
<1>8. msg.bytes = bytes(spkt) /\ Answers(spkt, Len(truth) - 1, 2^Len(truth) - 1, truth[Len(truth)], conn.fill)
    BY <1>1 DEF TestInv, MessageInv
<1>9. msg.src \in ReplySources
    BY <1>1 DEF TestInv, StepInv
<1>10. Well(spkt)
    BY <1>8 DEF Answers, Sendable, Framed
<1>11. /\ Len(truth) \in {1, 2} /\ truth[Len(truth)].received \in Nat /\ truth[Len(truth)].replied \in Nat
    <2> DEFINE n == Len(truth)
    <2>1. n \in Nat /\ n <= 2 /\ n > 0 /\ truth \in [1..n -> Truths]
        BY <1>3, <1>4
    <2> HIDE DEF n
    <2>2. n \in {1, 2}
        BY <2>1
    <2>3. truth[n] \in Truths
        BY <2>1
    <2>4. truth[n].received \in Nat /\ truth[n].replied \in Nat
        BY <2>3 DEF Truths
    <2> QED BY <2>2, <2>4 DEF n
<1>12. now' \in Nat /\ now' > 0
    <2>1. PICK d \in sc.delay : now' = now + d
        BY <1>1
    <2>2. d \in Nat
        BY <1>3, <2>1, AgreedIs
    <2>3. PICK x : x = truth[Len(truth)].received
        OBVIOUS
    <2>4. x \in Nat /\ now = x + 1
        BY <1>4, <1>11, <2>3
    <2> QED BY <2>1, <2>2, <2>4
<1> QED BY <1>1, <1>2, <1>3, <1>4, <1>5, <1>6, <1>7, <1>8, <1>9, <1>10, <1>11, <1>12 DEF Receiving

\* Receive does one of the three.
LEMMA ReceiveIs ==
    ASSUME IInv, TestInv, Receive, Receiving
    PROVE  Lost \/ \E p : Reading(p) /\ Arrives /\ (IsCut(p) \/ (RepLen >= ReqLen /\ Gets(p)))
<1> DEFINE n == Len(truth)
           r == Received(rpkt, msg.bytes)
           p == Expected(readReset(r))
           e == IF ~Arrives THEN "Lost"
                ELSE IF readError(r) # None THEN readError(r)
                ELSE IF p.len < params.Length THEN "ShortReply"
                ELSE IF seqno(p) \notin 0..(Len(trips) - 1) THEN "UnexpectedSequenceNumber"
                ELSE None
<1>1. /\ rpkt' = IF Arrives THEN p ELSE rpkt
      /\ trips' = IF e = None THEN Recorded(p) ELSE trips
      /\ truth' = IF e = None THEN [truth EXCEPT ![Len(truth)].got = now'] ELSE truth
      /\ pc' = IF e \in {None, "Lost"} THEN Next1 ELSE "close"
      /\ err' = IF e \in {None, "Lost"} THEN err ELSE e
    BY Zenon DEF Receive
<1>2. /\ readError(r) = "none" /\ Reading(p)
    <2>1. /\ sc \in Scenario /\ Shared(params) /\ Well(rpkt) /\ rpkt.key = Key /\ Cap(rpkt) = Greater(Supplied.Length, 92)
          /\ Answers(spkt, n - 1, 2^n - 1, truth[n], conn.fill) /\ truth[n].received \in Nat /\ truth[n].replied \in Nat
          /\ msg.bytes = bytes(spkt)
        BY DEF Receiving
    <2>2. /\ readError(r) = "none" /\ Well(p) /\ p.key = Key /\ Cap(p) = Cap(rpkt)
          /\ p.len = RepLen /\ seqno(p) = n - 1
          /\ ~MonoMidpoint => timestamp(p) = ReadStamp(truth[n])
          /\ (IF isset(p, fRWindow) THEN getNumber(p, fRWindow) ELSE 0) = IF "window" \in Rs THEN 2^n - 1 ELSE 0
        BY <2>1, ReplyRead
    <2> HIDE DEF p, r
    <2> QED BY <2>2 DEF Reading
<1>3. params.Length = ReqLen /\ seqno(p) \in 0..(Len(trips) - 1) /\ p.len = RepLen
    <2>1. n \in {1, 2} /\ Len(trips) = n /\ params.Length = ReqLen
        BY DEF Receiving
    <2>2. seqno(p) = n - 1 /\ p.len = RepLen
        BY <1>2 DEF Reading
    <2> HIDE DEF p
    <2> QED BY <2>1, <2>2
<1> HIDE DEF p, r
<1>4. e = IF ~Arrives THEN "Lost" ELSE IF RepLen < ReqLen THEN "ShortReply" ELSE None
    <2>1. ~(readError(r) # None) /\ ~(seqno(p) \notin 0..(Len(trips) - 1)) /\ (p.len < params.Length <=> RepLen < ReqLen)
        BY <1>2, <1>3 DEF None
    <2>2. CASE ~Arrives
        BY <2>2
    <2>3. CASE Arrives /\ RepLen < ReqLen
        BY <2>1, <2>3
    <2>4. CASE Arrives /\ ~(RepLen < ReqLen)
        BY <2>1, <2>4
    <2> QED BY <2>2, <2>3, <2>4
<1> HIDE DEF e
<1>5. ReqLen \in Nat /\ RepLen \in Nat
    <2>1. ReqLen \in Nat /\ sc.server.MTU \in Nat /\ Supplied.Length \in Nat /\ FLen(RepFields) \in Nat
        BY LengthsAre DEF Receiving
    <2> QED BY <2>1 DEF RepLen, Lesser, Greater
<1>6. CASE ~Arrives
    <2>1. e = "Lost" /\ e # None
        BY <1>4, <1>6 DEF None
    <2> QED BY <1>1, <1>6, <2>1 DEF Lost
<1>7. CASE Arrives /\ RepLen < ReqLen
    <2>1. e = "ShortReply" /\ e # None /\ e # "Lost"
        BY <1>4, <1>7 DEF None
    <2> QED BY <1>1, <1>2, <1>7, <2>1 DEF IsCut
<1>8. CASE Arrives /\ RepLen >= ReqLen
    <2>1. e = None
        BY <1>4, <1>5, <1>8
    <2> QED BY <1>1, <1>2, <1>8, <2>1 DEF Gets
<1> QED BY <1>5, <1>6, <1>7, <1>8

\* The reply to a request that was whole is not shorter.
LEMMA ReplyLong ==
    ASSUME sc \in Scenario, ~OneWayTest, ReqLen <= sc.server.MTU
    PROVE  RepLen >= ReqLen
<1>1. /\ ReqLen \in Nat /\ Supplied.Length \in Nat /\ sc.server.MTU \in Nat /\ Supplied.Length <= ReqLen
      /\ FLen(ReqFields) \in Nat /\ FLen(RepFields) \in Nat /\ FLen(ReqFields) <= FLen(RepFields)
    BY LengthsAre
<1> QED BY <1>1 DEF RepLen, ReqLen, Lesser, Greater

\* What receiving leaves of the step and of the packets.
LEMMA ReceivedStep ==
    ASSUME Receiving, TestInv, pc' \in {"send", "close"}, Len(truth') = Len(truth),
           Well(rpkt'), rpkt'.key = Key, Cap(rpkt') = Cap(rpkt)
    PROVE  StepInv' /\ PacketsInv' /\ MessageInv'
<1>1. /\ sc' = sc /\ sc \in Scenario /\ now' \in Nat /\ sc.server.key = Key /\ params' = params /\ cpkt' = cpkt
      /\ spkt' = spkt /\ lconn' = lconn /\ conn' = conn /\ Shared(params) /\ ctoken(cpkt) = Token
      /\ params.TripMode = Supplied.TripMode /\ Well(cpkt) /\ Well(spkt) /\ ServerBuffer(spkt) /\ Linked
      /\ Cap(rpkt) = Greater(Supplied.Length, 92) /\ cpkt.len = ReqLen /\ ~OneWayTest
      /\ params.Length = ReqLen /\ Requests(cpkt, Len(truth)) /\ Unforged(cpkt)
    BY DEF Receiving, Stays
<1>2. /\ Supplied' = Supplied /\ Key' = Key /\ (OneWayTest' <=> OneWayTest) /\ ReqLen' = ReqLen /\ Linked'
      /\ Shared(params)' /\ ServerBuffer(spkt)' /\ Unforged(cpkt)'
    BY <1>1, SameTest DEF Linked
<1>3. Requests(cpkt, Len(truth))'
    <2>1. Requests(cpkt', Len(truth'))
        BY <1>1
    <2> QED BY <1>1, <2>1, SameTest
<1>4. StepInv'
    BY <1>1, <1>2 DEF StepInv, States, Opening, Testing
<1>5. PacketsInv'
    BY <1>1, <1>2, <1>3 DEF PacketsInv, Tested, Sending
<1>6. MessageInv'
    BY <1>2, <1>1 DEF MessageInv
<1> QED BY <1>4, <1>5, <1>6

\* No reply arrives, or one that is too short: nothing is recorded.
LEMMA UnreadTest ==
    ASSUME TestInv, Receiving, trips' = trips, truth' = truth, Well(rpkt'), rpkt'.key = Key, Cap(rpkt') = Cap(rpkt),
           pc' = "close" \/ pc' = Next1, Heard => ~Complete
    PROVE  TestInv'
<1> DEFINE n == Len(truth)
<1>1. /\ sc' = sc /\ params' = params /\ lconn' = lconn /\ conn' = conn /\ Shared(params) /\ params.Length = ReqLen
      /\ ~OneWayTest /\ n \in {1, 2} /\ truth # << >> /\ pc = "receive" /\ Tested /\ Taken
    BY DEF Receiving, Stays
<1>2. pc' \in {"send", "close"} /\ (pc' = "send" => n < 2)
    BY DEF Next1
<1>3. /\ (OneWayTest' <=> OneWayTest) /\ ReqLen' = ReqLen /\ Shared(params)'
      /\ (Complete' <=> Complete) /\ (Heard' <=> Heard) /\ (Taken' <=> Taken)
    BY <1>1, SameTest, HeardSame
<1>4. StepInv' /\ PacketsInv' /\ MessageInv'
    BY <1>2, ReceivedStep
<1>5. HistoryInv'
    BY <1>1, <1>2, <1>3 DEF HistoryInv, TestInv
<1>6. Counts' = Counts
    BY <1>1, <1>2, <1>3 DEF Counts, Had
<1>7. RoundInv'
    <2>1. /\ Len(trips) = n /\ conn.window = 2^Counts - 1 /\ conn.lastSeqno = Counts - 1
          /\ \A i \in 1..n : RoundRight(trips[i], truth[i], i)
        BY <1>1 DEF TestInv, RoundInv
    <2>2. \A i \in 1..n : RoundRight(trips[i], truth[i], i)'
        BY <1>1, <2>1, SameTest
    <2> QED BY <1>1, <1>6, <2>1, <2>2 DEF RoundInv
<1>8. OneWayInv'
    BY <1>1, <1>3 DEF OneWayInv
<1>9. AnswerInv'
    BY <1>1, <1>2, <1>3 DEF AnswerInv
<1> QED BY <1>4, <1>5, <1>7, <1>8, <1>9 DEF TestInv

\* A round trip whose reply is recorded.
LEMMA RecordedIs ==
    ASSUME Receiving, NEW p, Reading(p), NEW w, w = trips', w = Recorded(p), NEW t, t.got = now',
           t.sent = truth[Len(truth)].sent, t.received = truth[Len(truth)].received,
           t.replied = truth[Len(truth)].replied, RoundRight(trips[Len(truth)], truth[Len(truth)], Len(truth))
    PROVE  /\ IsBytes(w) /\ Len(w) = Len(truth) /\ \A i \in 1..Len(truth) : i # Len(truth) => w[i] = trips[i]
           /\ RoundRight(w[Len(truth)], t, Len(truth))
<1> DEFINE n == Len(truth)
           v == IF isset(p, fRWindow) THEN getNumber(p, fRWindow) ELSE 0
           trip == [client |-> [send |-> trips[n].client.send, receive |-> ClientTime(now', BothClocks)],
                    server |-> timestamp(p), window |-> v]
<1>1. n \in {1, 2} /\ IsBytes(trips) /\ Len(trips) = n
    BY DEF Receiving
<1>2. seqno(p) = n - 1 /\ (n - 1) + 1 = n /\ v = (IF "window" \in Rs THEN 2^n - 1 ELSE 0)
    BY <1>1 DEF Reading
<1>3. w = [trips EXCEPT ![n] = trip]
    BY <1>2 DEF Recorded
<1>4. PICK x : x = trip
    OBVIOUS
<1>5. w = [trips EXCEPT ![n] = x]
    BY <1>3, <1>4
<1>6. IsBytes(w) /\ Len(w) = n /\ w[n] = x /\ \A i \in 1..n : i # n => w[i] = trips[i]
    <2> HIDE DEF n
    <2>1. n \in 1..n /\ DOMAIN trips = 1..n
        BY <1>1 DEF IsBytes
    <2>2. w[n] = x
        BY <1>5, <2>1
    <2>3. w = [i \in DOMAIN trips |-> IF i = n THEN w[n] ELSE trips[i]]
        BY <1>5, <2>1, <2>2
    <2> QED BY <1>1, <2>1, <2>2, <2>3, Replaced
<1>7. RoundRight(x, t, n)
    <2> HIDE DEF n, v
    <2>1. /\ x.client.send = trips[n].client.send /\ x.client.receive = ClientTime(now', BothClocks)
          /\ x.server = timestamp(p) /\ x.window = v /\ DOMAIN x = {"client", "server", "window"}
        BY <1>4
    <2>2. trips[n].client.send = ClientTime(truth[n].sent, BothClocks)
        BY DEF RoundRight, n
    <2>3. truth[n].replied = truth[n].received + 1 /\ (~MonoMidpoint => timestamp(p) = ReadStamp(truth[n]))
        BY DEF Receiving, Reading, n
    <2>4. ReadStamp(truth[n]) = ReadStamp(t)
        BY DEF ReadStamp, n
    <2> QED BY <1>2, <2>1, <2>2, <2>3, <2>4 DEF RoundRight, n
<1> QED BY <1>6, <1>7

\* A reply is recorded.
LEMMA GetsTest ==
    ASSUME TestInv, Receiving, NEW p, Reading(p), RepLen >= ReqLen, Gets(p)
    PROVE  TestInv'
<1> DEFINE n == Len(truth)
<1>1. /\ sc' = sc /\ params' = params /\ lconn' = lconn /\ conn' = conn /\ Shared(params) /\ params.Length = ReqLen
      /\ ~OneWayTest /\ n \in {1, 2} /\ truth # << >> /\ truth \in Seq(Truths) /\ pc = "receive" /\ Tested /\ Taken
      /\ now' \in Nat /\ now' > 0 /\ Len(trips) = n
    BY DEF Receiving, Stays
<1>2. /\ rpkt' = p /\ trips' = Recorded(p) /\ truth' = [truth EXCEPT ![n].got = now'] /\ pc' = Next1 /\ err' = err
    BY DEF Gets
<1>3. pc' \in {"send", "close"} /\ (pc' = "send" => n < 2) /\ (pc' = "close" => n = 2)
    BY <1>1, <1>2 DEF Next1
<1>4. PICK t : t = [truth[n] EXCEPT !.got = now']
    OBVIOUS
<1>5. /\ t \in Truths /\ t.got = now' /\ t.sent = truth[n].sent /\ t.received = truth[n].received
      /\ t.replied = truth[n].replied
    <2> HIDE DEF n
    <2>1. n \in 1..n /\ truth \in [1..n -> Truths]
        BY <1>1 DEF n
    <2>2. truth[n] \in Truths
        BY <2>1
    <2> QED BY <1>1, <1>4, <2>2 DEF Truths
<1>6. /\ truth' \in Seq(Truths) /\ Len(truth') = n /\ truth'[n] = t /\ truth' # << >>
      /\ \A i \in 1..n : i # n => truth'[i] = truth[i]
    <2> HIDE DEF n
    <2>1. n \in 1..n /\ truth \in [1..n -> Truths] /\ n \in Nat /\ n > 0
        BY <1>1 DEF n
    <2>2. truth' = [truth EXCEPT ![n] = t]
        BY <1>2, <1>4
    <2>3. truth' \in [1..n -> Truths] /\ truth'[n] = t /\ \A i \in 1..n : i # n => truth'[i] = truth[i]
        BY <1>5, <2>1, <2>2
    <2>4. truth' \in Seq(Truths) /\ Len(truth') = n
        BY <2>1, <2>3
    <2>5. truth' # << >>
        BY <2>1, <2>4
    <2> QED BY <2>3, <2>4, <2>5
<1>7. /\ (OneWayTest' <=> OneWayTest) /\ ReqLen' = ReqLen /\ Shared(params)'
      /\ (Complete' <=> Complete) /\ (Heard' <=> Heard) /\ (Taken' <=> Taken)
    BY <1>1, SameTest, HeardSame
<1>8. StepInv' /\ PacketsInv' /\ MessageInv'
    <2>1. Well(rpkt') /\ rpkt'.key = Key /\ Cap(rpkt') = Cap(rpkt)
        BY <1>2 DEF Reading
    <2> QED BY <1>3, <1>6, <2>1, ReceivedStep
<1>9. Counts' = Counts /\ Had' = n /\ Had = n
    BY <1>1, <1>3, <1>6, <1>7 DEF Counts, Had
<1>10. /\ Len(trips) = n /\ conn.window = 2^Counts - 1 /\ conn.lastSeqno = Counts - 1
       /\ \A i \in 1..n : RoundRight(trips[i], truth[i], i)
    BY <1>1 DEF TestInv, RoundInv
<1>11. /\ IsBytes(trips') /\ Len(trips') = n /\ \A i \in 1..n : i # n => trips'[i] = trips[i]
       /\ RoundRight(trips'[n], t, n)
    <2>1. PICK w : w = trips'
        OBVIOUS
    <2>2. RoundRight(trips[n], truth[n], n)
        BY <1>1, <1>10
    <2> QED BY <1>2, <1>5, <2>1, <2>2, RecordedIs
<1>12. HistoryInv'
    BY <1>1, <1>3, <1>6, <1>7, <1>11 DEF HistoryInv
<1>13. RoundInv'
    <2>1. \A i \in 1..n : RoundRight(trips'[i], truth'[i], i)
        BY <1>6, <1>10, <1>11
    <2>2. \A i \in 1..Len(truth') : RoundRight(trips[i], truth[i], i)'
        BY <1>1, <1>6, <2>1, SameTest
    <2> QED BY <1>1, <1>6, <1>9, <1>10, <1>11, <2>2 DEF RoundInv
<1>14. OneWayInv'
    BY <1>1, <1>7 DEF OneWayInv
<1>15. AnswerInv'
    <2>1. Heard /\ Complete => err = None /\ \A i \in 1..n : i < n => truth[i].got > 0
        BY <1>1, <1>9 DEF TestInv, AnswerInv
    <2>2. Heard /\ Complete => \A i \in 1..n : truth'[i].got > 0
        <3> HIDE DEF n
        <3> SUFFICES ASSUME Heard, Complete, NEW i \in 1..n PROVE truth'[i].got > 0
            OBVIOUS
        <3>1. i = n \/ i < n
            BY <1>1 DEF n
        <3> QED BY <1>1, <1>5, <1>6, <2>1, <3>1
    <2> QED BY <1>1, <1>2, <1>3, <1>6, <1>7, <1>9, <2>1, <2>2 DEF AnswerInv
<1> QED BY <1>8, <1>12, <1>13, <1>14, <1>15 DEF TestInv

\* The client waits for a reply.
LEMMA ReceiveTest == ASSUME IInv, TestInv, Receive PROVE TestInv'
<1>1. Receiving
    BY ReceivingIs
<1>2. sc \in Scenario /\ ~OneWayTest /\ Well(rpkt) /\ rpkt.key = Key /\ msg.src \in ReplySources
      /\ Serves(lconn, sc.target)
    BY <1>1 DEF Receiving
<1>3. CASE Lost
    <2>1. Heard => Arrives
        BY <1>2, HeardArrives DEF Heard, Arrives
    <2> QED BY <1>1, <1>2, <1>3, <2>1, UnreadTest DEF Lost
<1>4. CASE \E p : Reading(p) /\ Arrives /\ (IsCut(p) \/ (RepLen >= ReqLen /\ Gets(p)))
    <2>1. PICK p : Reading(p) /\ Arrives /\ (IsCut(p) \/ (RepLen >= ReqLen /\ Gets(p)))
        BY <1>4
    <2>2. CASE IsCut(p)
        <3>1. ~Complete
            <4>1. ReqLen \in Nat /\ RepLen \in Nat
                <5>1. ReqLen \in Nat /\ sc.server.MTU \in Nat /\ Supplied.Length \in Nat /\ FLen(RepFields) \in Nat
                    BY <1>2, LengthsAre
                <5> QED BY <5>1 DEF RepLen, Lesser, Greater
            <4> QED BY <1>2, <2>2, <4>1, ReplyLong DEF IsCut, Complete
        <3>2. Well(rpkt') /\ rpkt'.key = Key /\ Cap(rpkt') = Cap(rpkt)
            BY <2>1, <2>2 DEF IsCut, Reading
        <3> QED BY <1>1, <2>2, <3>1, <3>2, UnreadTest DEF IsCut
    <2>3. CASE RepLen >= ReqLen /\ Gets(p)
        BY <1>1, <2>1, <2>3, GetsTest
    <2> QED BY <2>1, <2>2, <2>3
<1> QED BY <1>1, <1>3, <1>4, ReceiveIs

\* The client closes.
LEMMA CloseTest == ASSUME IInv, TestInv, Close PROVE TestInv'
<1>1. /\ pc = "close" /\ pc' = "done" /\ sc' = sc /\ err' = err /\ now' = now /\ lconn' = lconn
      /\ params' = params /\ cpkt' = cpkt /\ rpkt' = rpkt /\ trips' = trips /\ truth' = truth
    BY DEF Close
<1>2. Testing
    BY <1>1 DEF Testing
<1>3. /\ sc \in Scenario /\ now \in Nat /\ sc.server.key = Key /\ Linked /\ Shared(params)
      /\ ctoken(cpkt) = Token /\ params.TripMode = Supplied.TripMode
      /\ Well(cpkt) /\ Well(rpkt) /\ ServerBuffer(spkt)
    BY <1>2, TestingIs
<1>4. Well(spkt') /\ conn' = NoConn
    <2> DEFINE r == Received(spkt, bytes(ClosePacket))
               p == addFields(readReset(r), fRequest, FALSE)
    <2>1. /\ readError(r) = "none" /\ Well(p) /\ fbufValid(p) /\ ctoken(p) = Token /\ "close" \in flags(p)
        BY <1>3, CloseRead
    <2>2. /\ spkt' = p
          /\ conn' = IF readError(r) = None /\ fbufValid(p) /\ ctoken(p) = conn.token
                         /\ "close" \in flags(p) THEN NoConn ELSE conn
        BY Zenon DEF Close
    <2> HIDE DEF p, r
    <2>3. conn.token = Token
        BY <1>3 DEF Linked
    <2> QED BY <2>1, <2>2, <2>3 DEF None
<1>5. /\ (OneWayTest' <=> OneWayTest) /\ ReqLen' = ReqLen /\ Shared(params)' /\ Supplied' = Supplied
      /\ (Complete' <=> Complete) /\ (Heard' <=> Heard) /\ (Taken' <=> Taken) /\ Key' = Key /\ Rs' = Rs /\ Ck' = Ck
    BY <1>1, <1>3, SameTest, HeardSame
<1>6. StepInv'
    BY <1>1, <1>3, <1>5 DEF StepInv, States, Opening, Testing
<1>7. PacketsInv'
    BY <1>1, <1>3, <1>4, <1>5 DEF PacketsInv, Tested, Sending, TestInv
<1>8. MessageInv'
    BY <1>1 DEF MessageInv
<1>9. HistoryInv'
    BY <1>1, <1>3, <1>5 DEF HistoryInv, TestInv
<1>10. Had' = Had /\ Counts' = Counts
    BY <1>1, <1>5 DEF Had, Counts
<1>11. RoundInv'
    <2> SUFFICES ASSUME ~OneWayTest PROVE RoundInv'
        BY <1>5 DEF RoundInv
    <2>1. Len(trips) = Len(truth) /\ \A i \in 1..Len(truth) : RoundRight(trips[i], truth[i], i)
        BY DEF TestInv, RoundInv
    <2>2. \A i \in 1..Len(truth) : RoundRight(trips[i], truth[i], i)'
        BY <1>1, <2>1, SameTest
    <2> QED BY <1>1, <2>1, <2>2 DEF RoundInv, Tested
<1>12. OneWayInv'
    BY <1>1, <1>5, <1>10 DEF OneWayInv, TestInv
<1>13. AnswerInv'
    <2> DEFINE n == Had
    <2>1. Refused' <=> Refused
        BY <1>1 DEF Refused
    <2>2. Heard => /\ ~Refused => truth # << >>
                   /\ Complete => /\ err = None \/ Refused
                                  /\ ~Refused => Len(truth) = 2
                                  /\ ~OneWayTest => \A i \in 1..n : truth[i].got > 0
        BY <1>1 DEF AnswerInv, TestInv
    <2>3. Had' = n
        BY <1>10
    <2> HIDE DEF n
    <2> QED BY <1>1, <1>4, <1>5, <2>1, <2>2, <2>3 DEF AnswerInv, Tested
<1> QED BY <1>6, <1>7, <1>8, <1>9, <1>11, <1>12, <1>13 DEF TestInv

\* No step leaves the invariant.
LEMMA StutterTest == ASSUME TestInv, UNCHANGED vars PROVE TestInv'
<1>1. /\ sc' = sc /\ pc' = pc /\ err' = err /\ now' = now /\ lconn' = lconn /\ spkt' = spkt /\ conn' = conn
      /\ params' = params /\ cpkt' = cpkt /\ rpkt' = rpkt /\ msg' = msg /\ trips' = trips /\ truth' = truth
    BY DEF vars
<1>2. /\ (OneWayTest' <=> OneWayTest) /\ ReqLen' = ReqLen /\ Supplied' = Supplied
      /\ (Complete' <=> Complete) /\ (Heard' <=> Heard) /\ (Taken' <=> Taken) /\ Key' = Key /\ Rs' = Rs /\ Ck' = Ck
      /\ ReplySources' = ReplySources /\ FillOf(sc.server, Supplied)' = FillOf(sc.server, Supplied)
      /\ (Shared(params)' <=> Shared(params)) /\ (Ready(cpkt)' <=> Ready(cpkt))
      /\ (ServerBuffer(spkt)' <=> ServerBuffer(spkt)) /\ (Unforged(cpkt)' <=> Unforged(cpkt))
      /\ (Linked' <=> Linked)
    BY <1>1, SameTest, HeardSame DEF Linked
<1>3. StepInv'
    BY <1>1, <1>2 DEF StepInv, States, Opening, Testing, TestInv
<1>4. PacketsInv'
    <2>1. Requests(cpkt, Len(truth))' <=> Requests(cpkt, Len(truth))
        BY <1>1, SameTest
    <2> QED BY <1>1, <1>2, <2>1 DEF PacketsInv, Tested, Sending, TestInv
<1>5. MessageInv'
    <2>1. pc = "serve" => \E q : Asking(q)'
        <3> SUFFICES ASSUME pc = "serve" PROVE \E q : Asking(q)'
            OBVIOUS
        <3>1. PICK q : Asking(q)
            BY DEF MessageInv, TestInv
        <3>2. Requests(q, Len(truth) - 1)' /\ (Unforged(q)' <=> Unforged(q))
            BY <1>1, <3>1, SameTest DEF Asking
        <3>3. Asking(q)'
            BY <1>1, <1>2, <3>1, <3>2 DEF Asking
        <3> QED BY <3>3
    <2>2. LET n == Len(truth)
          IN  Answers(spkt, n - 1, 2^n - 1, truth[n], conn.fill) =>
                Answers(spkt, n - 1, 2^n - 1, truth[n], conn.fill)'
        BY <1>1, SameTest
    <2> QED BY <1>1, <1>2, <2>1, <2>2 DEF MessageInv, TestInv
<1>6. HistoryInv'
    BY <1>1, <1>2 DEF HistoryInv, TestInv
<1>7. Had' = Had /\ Counts' = Counts
    BY <1>1, <1>2 DEF Had, Counts
<1>8. RoundInv'
    <2> SUFFICES ASSUME ~OneWayTest PROVE RoundInv'
        BY <1>2 DEF RoundInv
    <2>1. /\ Len(trips) = Len(truth)
          /\ pc \in {"opened", "check"} \/ Tested => conn.window = 2^Counts - 1 /\ conn.lastSeqno = Counts - 1
          /\ \A i \in 1..Len(truth) : RoundRight(trips[i], truth[i], i)
        BY DEF TestInv, RoundInv
    <2>2. \A i \in 1..Len(truth) : RoundRight(trips[i], truth[i], i)'
        BY <1>1, <2>1, SameTest
    <2> QED BY <1>1, <1>7, <2>1, <2>2 DEF RoundInv, Tested
<1>9. OneWayInv'
    BY <1>1, <1>2, <1>7 DEF OneWayInv, TestInv
<1>10. AnswerInv'
    BY <1>1, <1>2, <1>7 DEF AnswerInv, TestInv, Tested, Refused
<1> QED BY <1>3, <1>4, <1>5, <1>6, <1>8, <1>9, <1>10 DEF TestInv

\* The invariant of a test.
THEOREM TestInvariant == Spec => [](IInv /\ TestInv)
<1>1. Init => IInv /\ TestInv
    BY InitRight, InitTest
<1>2. (IInv /\ TestInv) /\ [Next]_vars => (IInv /\ TestInv)'
    <2> SUFFICES ASSUME IInv, TestInv, [Next]_vars PROVE TestInv'
        BY NextRight
    <2> QED BY MakeListenersTest, OpenRequestTest, AcceptTest, OpenedTest, CheckTest, PrepareTest, SendTest,
               ServeTest, ReceiveTest, CloseTest, StutterTest DEF Next
<1> QED BY <1>1, <1>2, PTL DEF Spec

-----------------------------------------------------------------------------
(* What follows from both invariants                                       *)

\* No packet of client or server ever holds more fields than bytes (fbuf.go),
\* whatever fields setters and removers of packet.go add and take away.
THEOREM TypeOKHolds == Spec => []TypeOK
<1>1. ASSUME IInv, TestInv PROVE TypeOK
    <2>1. /\ pc \in States /\ (OneWay <=> OneWayTest) /\ Well(cpkt) /\ Well(rpkt)
          /\ (~OneWayTest /\ err # "OpenTimeout" => Well(spkt))
        BY <1>1 DEF TestInv, StepInv, PacketsInv, OneWay, OneWayTest
    <2>2. \A p \in {cpkt, rpkt} \cup Opt(~OneWay /\ err # "OpenTimeout", {spkt}) : Well(p)
        BY <2>1 DEF Opt
    <2>3. \A p : Well(p) => p.ok /\ p.len \in 0..Cap(p) /\ SumLens(p.flen) <= p.len
        BY DEF Well
    <2>4. Len(truth) \in 0..2 /\ Len(trips) <= Len(truth)
        <3> DEFINE n == Len(truth)
        <3>1. n \in Nat /\ n <= 2 /\ Len(trips) <= n
            BY <1>1 DEF TestInv, HistoryInv
        <3> HIDE DEF n
        <3>2. n \in 0..2
            BY <3>1
        <3> QED BY <3>1, <3>2 DEF n
    <2> QED BY <2>1, <2>2, <2>3, <2>4 DEF TypeOK, States
<1> QED BY <1>1, TestInvariant, PTL

\* A test that nothing stands in the way of has both of its requests taken by
\* readOneAndReply, its replies taken by receive, and its connection closed.
THEOREM AnsweredHolds == Spec => []Answered
<1>1. ASSUME IInv, TestInv PROVE Answered
    <2> SUFFICES ASSUME pc = "done", ~Refused, ~Unheard, Fits, sc.client.key = sc.server.key
                 PROVE  /\ conn = NoConn
                        /\ params.Length <= sc.server.MTU /\ ~HeaderTooLong /\ ~StampedAfterHMAC =>
                             /\ err = None /\ Len(trips) = 2
                             /\ ~OneWay => \A i \in 1..2 : truth[i].got > 0
        BY DEF Answered
    <2>1. sc \in Scenario /\ Heard /\ (OneWay <=> OneWayTest)
        BY <1>1 DEF IInv, Heard, Key, TestInv, StepInv, OneWay, OneWayTest
    <2>2. conn = NoConn /\ truth # << >>
        BY <1>1, <2>1 DEF TestInv, AnswerInv
    <2>3. params.Length = ReqLen /\ cpkt.len = ReqLen
        BY <1>1, <2>2 DEF TestInv, HistoryInv, PacketsInv
    <2> SUFFICES ASSUME params.Length <= sc.server.MTU, ~HeaderTooLong, ~StampedAfterHMAC
                 PROVE  /\ err = None /\ Len(trips) = 2
                        /\ ~OneWay => \A i \in 1..2 : truth[i].got > 0
        BY <2>2
    <2>4. Complete
        BY <2>1, <2>3 DEF Complete, HeaderTooLong, StampedAfterHMAC, Key
    <2>5. /\ err = None /\ Len(truth) = 2 /\ Had = Len(truth)
          /\ ~OneWayTest => \A i \in 1..Had : truth[i].got > 0
        BY <1>1, <2>1, <2>4 DEF TestInv, AnswerInv, Had
    <2>6. Len(trips) = 2
        <3>1. CASE OneWayTest
            <4>1. Taken /\ Key = NoKey
                BY <2>1, <2>4, <3>1, CompleteTaken DEF Complete
            <4> QED BY <1>1, <2>5, <3>1, <4>1 DEF TestInv, OneWayInv, Counts
        <3>2. CASE ~OneWayTest
            BY <1>1, <2>5, <3>2 DEF TestInv, RoundInv
        <3> QED BY <3>1, <3>2
    <2> QED BY <2>1, <2>5, <2>6
<1> QED BY <1>1, TestInvariant, PTL

\* A fill that is not the default one was asked for, and is allowed and known.
LEMMA FillAllowed ==
    ASSUME NEW cfg, NEW p, ParamsShaped(p)
    PROVE  LET q == AcceptedFill(cfg, restrictParams(cfg, p))
           IN  q.ServerFill # << >> /\ q.ServerFill # cfg.DefaultFill =>
                 q.ServerFill = p.ServerFill /\ globAny(cfg.AllowFills, p.ServerFill) /\ q.ServerFill \in cfg.Fills
<1> DEFINE l == Limited(cfg, p)
           r == restrictParams(cfg, p)
           q == AcceptedFill(cfg, r)
           D == DOMAIN NoParams
<1>1. DOMAIN NoParams = {"ProtocolVersion", "Duration", "Interval", "IntervalOffset", "Length",
                 "ReceivedStats", "StampAt", "TripMode", "Multiply", "Group", "Clock", "DSCP", "ServerFill"}
    BY DEF NoParams
<1>2. DOMAIN p = D /\ p = [x \in D |-> p[x]] /\ "ServerFill" \in D
    BY <1>1 DEF ParamsShaped
<1>3. DOMAIN l = D /\ l["ServerFill"] = p["ServerFill"]
    BY ZenonT(60), <1>1, <1>2 DEF Limited
<1>4. r = [l EXCEPT !.ProtocolVersion = ProtocolVersion,
                    !.StampAt = RestrictStamp(cfg.AllowStamp, @),
                    !.DSCP = IF cfg.AllowDSCP THEN @ ELSE 0,
                    !.ServerFill = IF @ # << >> /\ ~globAny(cfg.AllowFills, @)
                                   THEN cfg.DefaultFill ELSE @]
    <2> HIDE DEF l
    <2>1. l = S(cfg)!RestrictParams(p)
        BY LimitedIs DEF l
    <2> QED BY <2>1 DEF restrictParams
<1> HIDE DEF l, r
<1>5. /\ DOMAIN r = D
      /\ r.ServerFill = IF l.ServerFill # << >> /\ ~globAny(cfg.AllowFills, l.ServerFill)
                        THEN cfg.DefaultFill ELSE l.ServerFill
    <2> HIDE DEF D
    <2> QED BY <1>2, <1>3, <1>4
<1>6. q.ServerFill = IF r.ServerFill # << >> /\ r.ServerFill \notin cfg.Fills THEN cfg.DefaultFill ELSE r.ServerFill
    <2> HIDE DEF D
    <2> QED BY <1>2, <1>5 DEF AcceptedFill
<1> HIDE DEF q, D
<1> QED BY <1>3, <1>5, <1>6 DEF q, r

\* The server fills its replies as accept agreed to, with a fill that globAny
\* allows, and nothing else is left in their payload.
THEOREM FillAgreedHolds == Spec => []FillAgreed
<1> DEFINE c == sc.server
           f == Supplied.ServerFill
<1>1. ASSUME IInv, TestInv, pc \in {"check", "receive"}
      PROVE  /\ conn.fill = c.Filler \/ \E p \in c.AllowFills : Matches(p, conn.fill)
             /\ Fits /\ params.ServerFill # << >>
                  /\ ~(params.ServerFill = c.DefaultFill /\ c.Filler # c.DefaultFill)
                => conn.fill = params.ServerFill
    <2>1. Testing /\ sc \in Scenario /\ Linked
        BY <1>1, TestingIs DEF Testing
    <2>2. conn.fill = FillOf(c, Supplied)
        BY <2>1 DEF Linked
    <2>3. f # << >> /\ f # c.DefaultFill => f = Asked.ServerFill /\ globAny(c.AllowFills, f) /\ f \in c.Fills
        <3>1. ParamsShaped(Asked)
            BY <2>1, Settings
        <3>2. Supplied = AcceptedFill(c, restrictParams(c, Asked))
            BY DEF Supplied, Accepted
        <3> QED BY <3>1, <3>2, FillAllowed
    <2>4. Asked.ServerFill \in Seq(STRING) /\ c.AllowFills \subseteq Seq(STRING)
        BY <2>1, ScenarioAssumption DEF Asked, Named
    <2>5. Fits => params.ServerFill = f
        <3> SUFFICES ASSUME Fits PROVE params.ServerFill = f
            OBVIOUS
        <3>1. CASE pc = "check"
            BY <1>1, <3>1 DEF IInv, AgreedInv
        <3>2. CASE pc = "receive"
            <4>1. [params EXCEPT !.Length = 0] = [Supplied EXCEPT !.Length = 0]
                BY <1>1, <3>2 DEF IInv, AgreedInv, Tested
            <4>2. [params EXCEPT !.Length = 0].ServerFill = params.ServerFill
                OBVIOUS
            <4>3. [Supplied EXCEPT !.Length = 0].ServerFill = Supplied.ServerFill
                OBVIOUS
            <4> QED BY <4>1, <4>2, <4>3
        <3> QED BY <1>1, <3>1, <3>2
    <2> HIDE DEF f, c
    <2>6. conn.fill = IF f = << >> \/ f = c.DefaultFill \/ f \notin c.Fills THEN c.Filler ELSE f
        BY <2>2 DEF FillOf, f
    <2>7. ASSUME conn.fill # c.Filler PROVE \E p \in c.AllowFills : Matches(p, conn.fill)
        <3>1. conn.fill = f /\ f # << >> /\ f # c.DefaultFill
            BY <2>6, <2>7
        <3>2. PICK p \in c.AllowFills : glob(p, f)
            BY <2>3, <3>1 DEF globAny
        <3>3. p \in Seq(STRING) /\ f \in Seq(STRING)
            BY <2>3, <2>4, <3>1
        <3> QED BY <3>1, <3>2, <3>3, GlobRight
    <2>8. Fits /\ params.ServerFill # << >>
             /\ ~(params.ServerFill = c.DefaultFill /\ c.Filler # c.DefaultFill) => conn.fill = params.ServerFill
        BY <2>3, <2>5, <2>6
    <2> QED BY <2>7, <2>8
<1>2. ASSUME IInv, TestInv, pc = "receive"
      PROVE  SX!ToSet(payload(spkt)) \subseteq
               {IF conn.fill # c.NoFill THEN <<"fill", conn.fill>>
                ELSE IF sc.client.filler = << >> THEN Zero ELSE <<"fill", sc.client.filler>>}
    <2>1. Answers(spkt, Len(truth) - 1, 2^Len(truth) - 1, truth[Len(truth)], conn.fill)
        BY <1>2 DEF TestInv, MessageInv
    <2>2. Well(spkt) /\ Filled(spkt, RepByte(conn.fill))
        BY <2>1 DEF Answers, Sendable, Framed
    <2>3. \A i \in DOMAIN payload(spkt) : payload(spkt)[i] = RepByte(conn.fill)
        BY <2>2, FilledIs
    <2> QED BY <2>3 DEF SX!ToSet, RepByte, ReqByte
<1>3. IInv /\ TestInv => FillAgreed
    BY <1>1, <1>2 DEF FillAgreed
<1> QED BY <1>3, TestInvariant, PTL

\* When the server stamped a request first and last, as far as it did.
FirstOf(t) == IF At = {"send"} THEN t.replied ELSE t.received
LastOf(t) == IF "send" \in At THEN t.replied ELSE t.received
Tell(trip, t) ==
    /\ IsMonoTimestamped(trip) <=> "mono" \in Ck
    /\ IsWallTimestamped(trip) <=> "wall" \in Ck
    /\ "wall" \in Ck => /\ SendDiff(trip, "wall") = FirstOf(t) - t.sent
                        /\ ReceiveDiff(trip, "wall") = t.got - LastOf(t)
    /\ "mono" \in Ck => /\ SendDiff(trip, "mono") = FirstOf(t) - t.sent + 490
                        /\ ReceiveDiff(trip, "mono") = t.got - LastOf(t) - 490

\* What the recorder computes of a round trip whose reply was recorded.
LEMMA StampsTell ==
    ASSUME sc \in Scenario, ~MonoMidpoint, NEW t \in Truths, NEW trip, NEW i, RoundRight(trip, t, i), t.got > 0
    PROVE  MeasuredTrip(trip, t, At, Ck) /\ (At # {} => Tell(trip, t))
<1> DEFINE w == "wall" \in Ck
           m == "mono" \in Ck
           s == t.sent
           r == t.received
           p == t.replied
           g == t.got
           rs == trip.server.receive
           ss == trip.server.send
           cs == trip.client.send
           cr == trip.client.receive
           N == [wall |-> 0, mono |-> 0]
           R == [wall |-> IF w THEN 1000 + r ELSE 0, mono |-> IF m THEN 500 + r ELSE 0]
           P == [wall |-> IF w THEN 1000 + p ELSE 0, mono |-> IF m THEN 500 + p ELSE 0]
<1>1. s \in Nat /\ r \in Nat /\ p \in Nat /\ g \in Nat
    BY DEF Truths
<1>2. /\ ServerTime(r, Ck) = R /\ ServerTime(p, Ck) = P /\ NoTime = N
      /\ ClientTime(s, BothClocks) = [wall |-> 1000 + s, mono |-> 10 + s]
      /\ ClientTime(g, BothClocks) = [wall |-> 1000 + g, mono |-> 10 + g]
    <2>1. \A x \in Nat : \A c :
            /\ ClientTime(x, c) = [wall |-> IF "wall" \in c THEN 1000 + x ELSE 0,
                                   mono |-> IF "mono" \in c THEN 10 + x ELSE 0]
            /\ ServerTime(x, c) = [wall |-> IF "wall" \in c THEN 1000 + x ELSE 0,
                                   mono |-> IF "mono" \in c THEN 500 + x ELSE 0]
        BY TimesIs
    <2>2. "wall" \in BothClocks /\ "mono" \in BothClocks
        BY DEF BothClocks
    <2>3. /\ ClientTime(s, BothClocks) = [wall |-> 1000 + s, mono |-> 10 + s]
          /\ ClientTime(g, BothClocks) = [wall |-> 1000 + g, mono |-> 10 + g]
        BY <1>1, <2>1, <2>2
    <2>4. ServerTime(r, Ck) = R /\ ServerTime(p, Ck) = P
        BY <1>1, <2>1
    <2> QED BY <2>3, <2>4 DEF NoTime
<1>3. /\ p = r + 1 /\ cs = [wall |-> 1000 + s, mono |-> 10 + s] /\ cr = [wall |-> 1000 + g, mono |-> 10 + g]
      /\ trip.server = ReadStamp(t) /\ "oneway" \notin DOMAIN trip
    BY <1>2 DEF RoundRight
<1>4. /\ rs = (IF At = {} \/ At = {"send"} THEN N ELSE R)
      /\ ss = (IF At = {"midpoint"} THEN R ELSE IF "send" \in At THEN P ELSE N)
    BY <1>2, <1>3 DEF ReadStamp
<1>5. /\ At \in {{}, {"send"}, {"receive"}, {"receive", "send"}, {"midpoint"}} /\ (w \/ m)
      /\ (At = {"midpoint"} => w)
    <2>1. At \in (SUBSET {"receive", "send"}) \cup {{"midpoint"}} /\ Ck \in (SUBSET BothClocks) \ {{}}
        BY AgreedIs
    <2>2. w \/ m
        BY <2>1 DEF BothClocks
    <2>3. Ck = {"mono"} \/ w
        BY <2>1 DEF BothClocks
    <2>4. ASSUME At \in SUBSET {"receive", "send"} PROVE At \in {{}, {"send"}, {"receive"}, {"receive", "send"}}
        <3>1. \A x : x \in At <=> (x = "receive" /\ "receive" \in At) \/ (x = "send" /\ "send" \in At)
            BY <2>4
        <3> QED BY <3>1
    <2> QED BY <2>1, <2>2, <2>3, <2>4 DEF MonoMidpoint
<1>6. Stamped(trip) = {rs, ss}
    BY <1>3 DEF Stamped
<1>7. (IsMonoTimestamped(trip) <=> rs.mono # 0 \/ ss.mono # 0) /\ (IsWallTimestamped(trip) <=> rs.wall # 0 \/ ss.wall # 0)
    BY <1>6 DEF IsMonoTimestamped, IsWallTimestamped
<1>8. /\ SendDiff(trip, "wall") = BestReceive(trip.server).wall - cs.wall
      /\ SendDiff(trip, "mono") = BestReceive(trip.server).mono - cs.mono
      /\ ReceiveDiff(trip, "wall") = cr.wall - BestSend(trip.server).wall
      /\ ReceiveDiff(trip, "mono") = cr.mono - BestSend(trip.server).mono
    BY DEF SendDiff, ReceiveDiff
<1>9. /\ BestReceive(trip.server) = IF rs.wall = 0 /\ rs.mono = 0 THEN ss ELSE rs
      /\ BestSend(trip.server) = IF ss.wall = 0 /\ ss.mono = 0 THEN rs ELSE ss
    BY DEF BestReceive, BestSend, IsZero
<1>10. /\ RTT(trip) = LET rtt == cr.mono - cs.mono
                          spt == ProcessingTime(trip.server)
                      IN  IF spt = InvalidDuration THEN rtt ELSE rtt - spt
       /\ ProcessingTime(trip.server) =
            IF rs.mono # 0 /\ ss.mono # 0 THEN ss.mono - rs.mono
            ELSE IF rs.wall # 0 /\ ss.wall # 0 THEN ss.wall - rs.wall
            ELSE InvalidDuration
    BY DEF RTT, ProcessingTime, BothMono
<1>11. /\ SendDelay(trip) = IF IsWallTimestamped(trip) THEN SendDiff(trip, "wall") ELSE InvalidDuration
       /\ ReceiveDelay(trip) = IF IsWallTimestamped(trip) THEN ReceiveDiff(trip, "wall") ELSE InvalidDuration
    BY DEF SendDelay, ReceiveDelay
<1>12. /\ N.wall = 0 /\ N.mono = 0 /\ R.wall = (IF w THEN 1000 + r ELSE 0) /\ R.mono = (IF m THEN 500 + r ELSE 0)
       /\ P.wall = (IF w THEN 1000 + p ELSE 0) /\ P.mono = (IF m THEN 500 + p ELSE 0)
       /\ cs.wall = 1000 + s /\ cs.mono = 10 + s /\ cr.wall = 1000 + g /\ cr.mono = 10 + g
    BY <1>3
<1>13. /\ w => R.wall = 1000 + r /\ R.wall # 0 /\ P.wall = 1000 + p /\ P.wall # 0
       /\ m => R.mono = 500 + r /\ R.mono # 0 /\ P.mono = 500 + p /\ P.mono # 0
       /\ ~w => R.wall = 0 /\ P.wall = 0
       /\ ~m => R.mono = 0 /\ P.mono = 0
    BY <1>1, <1>12
<1> DEFINE Right == /\ RTT(trip) = (g - s) - (IF At = {"receive", "send"} THEN p - r ELSE 0)
                    /\ SendDelay(trip) = IF At # {} /\ w THEN FirstOf(t) - s ELSE InvalidDuration
                    /\ ReceiveDelay(trip) = IF At # {} /\ w THEN g - LastOf(t) ELSE InvalidDuration
                    /\ At # {} => Tell(trip, t)
<1> HIDE DEF N, R, P, rs, ss, cs, cr
<1>14. cr.mono - cs.mono = g - s /\ (g - s) - 0 = g - s
    BY <1>1, <1>12
<1>15. ASSUME At # {}, NEW V, NEW W, BestReceive(trip.server) = V, BestSend(trip.server) = W,
              w => V.wall = 1000 + FirstOf(t) /\ W.wall = 1000 + LastOf(t),
              m => V.mono = 500 + FirstOf(t) /\ W.mono = 500 + LastOf(t),
              IsMonoTimestamped(trip) <=> m, IsWallTimestamped(trip) <=> w,
              RTT(trip) = (g - s) - (IF At = {"receive", "send"} THEN p - r ELSE 0)
       PROVE  Right
    <2> DEFINE fr == FirstOf(t)
               la == LastOf(t)
    <2>1. fr \in Nat /\ la \in Nat
        BY <1>1 DEF FirstOf, LastOf
    <2> HIDE DEF fr, la
    <2>2. w => SendDiff(trip, "wall") = fr - s /\ ReceiveDiff(trip, "wall") = g - la
        <3> SUFFICES ASSUME w PROVE SendDiff(trip, "wall") = fr - s /\ ReceiveDiff(trip, "wall") = g - la
            OBVIOUS
        <3>1. SendDiff(trip, "wall") = (1000 + fr) - (1000 + s) /\ ReceiveDiff(trip, "wall") = (1000 + g) - (1000 + la)
            BY <1>8, <1>12, <1>15 DEF fr, la
        <3> QED BY <1>1, <2>1, <3>1
    <2>3. m => SendDiff(trip, "mono") = fr - s + 490 /\ ReceiveDiff(trip, "mono") = g - la - 490
        <3> SUFFICES ASSUME m PROVE SendDiff(trip, "mono") = fr - s + 490 /\ ReceiveDiff(trip, "mono") = g - la - 490
            OBVIOUS
        <3>1. SendDiff(trip, "mono") = (500 + fr) - (10 + s) /\ ReceiveDiff(trip, "mono") = (10 + g) - (500 + la)
            BY <1>8, <1>12, <1>15 DEF fr, la
        <3> QED BY <1>1, <2>1, <3>1
    <2>4. Tell(trip, t)
        BY <1>15, <2>2, <2>3 DEF Tell, fr, la
    <2> QED BY <1>11, <1>15, <2>2, <2>4 DEF fr, la
<1> HIDE DEF Right
<1>16. ASSUME At = {} PROVE Right
    <2>1. rs = N /\ ss = N
        BY <1>4, <1>16
    <2>2. ~IsWallTimestamped(trip) /\ ProcessingTime(trip.server) = InvalidDuration
        BY <1>7, <1>10, <1>12, <2>1
    <2>3. RTT(trip) = g - s
        BY <1>10, <1>14, <2>2
    <2>4. At # {"receive", "send"}
        BY <1>16
    <2>5. SendDelay(trip) = InvalidDuration /\ ReceiveDelay(trip) = InvalidDuration
        BY <1>11, <2>2
    <2> QED BY <1>14, <1>16, <2>3, <2>4, <2>5 DEF Right
<1>17. ASSUME At = {"send"} PROVE Right
    <2>1. rs = N /\ ss = P /\ FirstOf(t) = p /\ LastOf(t) = p /\ At # {} /\ At # {"receive", "send"}
        BY <1>4, <1>5, <1>17 DEF FirstOf, LastOf
    <2>2. BestReceive(trip.server) = P /\ BestSend(trip.server) = P
        BY <1>5, <1>9, <1>12, <1>13, <2>1
    <2>3. (IsMonoTimestamped(trip) <=> m) /\ (IsWallTimestamped(trip) <=> w)
        BY <1>7, <1>12, <1>13, <2>1
    <2>4. ProcessingTime(trip.server) = InvalidDuration
        BY <1>1, <1>3, <1>5, <1>10, <1>12, <1>13, <2>1
    <2>5. RTT(trip) = (g - s) - (IF At = {"receive", "send"} THEN p - r ELSE 0)
        BY <1>10, <1>14, <2>1, <2>4
    <2> QED BY <1>13, <1>15, <2>1, <2>2, <2>3, <2>5
<1>18. ASSUME At = {"receive"} PROVE Right
    <2>1. rs = R /\ ss = N /\ FirstOf(t) = r /\ LastOf(t) = r /\ At # {} /\ At # {"receive", "send"}
        BY <1>4, <1>5, <1>18 DEF FirstOf, LastOf
    <2>2. BestReceive(trip.server) = R /\ BestSend(trip.server) = R
        BY <1>5, <1>9, <1>12, <1>13, <2>1
    <2>3. (IsMonoTimestamped(trip) <=> m) /\ (IsWallTimestamped(trip) <=> w)
        BY <1>7, <1>12, <1>13, <2>1
    <2>4. ProcessingTime(trip.server) = InvalidDuration
        BY <1>1, <1>3, <1>5, <1>10, <1>12, <1>13, <2>1
    <2>5. RTT(trip) = (g - s) - (IF At = {"receive", "send"} THEN p - r ELSE 0)
        BY <1>10, <1>14, <2>1, <2>4
    <2> QED BY <1>13, <1>15, <2>1, <2>2, <2>3, <2>5
<1>19. ASSUME At = {"midpoint"} PROVE Right
    <2>1. rs = R /\ ss = R /\ FirstOf(t) = r /\ LastOf(t) = r /\ At # {} /\ At # {"receive", "send"} /\ w
        BY <1>4, <1>5, <1>19 DEF FirstOf, LastOf
    <2>2. BestReceive(trip.server) = R /\ BestSend(trip.server) = R
        BY <1>5, <1>9, <1>12, <1>13, <2>1
    <2>3. (IsMonoTimestamped(trip) <=> m) /\ (IsWallTimestamped(trip) <=> w)
        BY <1>7, <1>12, <1>13, <2>1
    <2>4. ProcessingTime(trip.server) = 0
        BY <1>1, <1>3, <1>5, <1>10, <1>12, <1>13, <2>1
    <2>5. RTT(trip) = (g - s) - (IF At = {"receive", "send"} THEN p - r ELSE 0)
        <3>1. 0 # InvalidDuration /\ RTT(trip) = (g - s) - 0
            BY <1>10, <1>14, <2>4 DEF InvalidDuration
        <3> QED BY <1>1, <1>3, <1>19, <2>1, <3>1
    <2> QED BY <1>13, <1>15, <2>1, <2>2, <2>3, <2>5
<1>20. ASSUME At = {"receive", "send"} PROVE Right
    <2>1. rs = R /\ ss = P /\ FirstOf(t) = r /\ LastOf(t) = p /\ At # {}
        BY <1>4, <1>5, <1>20 DEF FirstOf, LastOf
    <2>2. BestReceive(trip.server) = R /\ BestSend(trip.server) = P
        BY <1>5, <1>9, <1>12, <1>13, <2>1
    <2>3. (IsMonoTimestamped(trip) <=> m) /\ (IsWallTimestamped(trip) <=> w)
        BY <1>7, <1>12, <1>13, <2>1
    <2>4. ProcessingTime(trip.server) = 1
        BY <1>1, <1>3, <1>5, <1>10, <1>12, <1>13, <2>1
    <2>5. RTT(trip) = (g - s) - (IF At = {"receive", "send"} THEN p - r ELSE 0)
        <3>1. 1 # InvalidDuration /\ RTT(trip) = (g - s) - 1
            BY <1>10, <1>14, <2>4 DEF InvalidDuration
        <3> QED BY <1>1, <1>3, <1>20, <2>1, <3>1
    <2> QED BY <1>13, <1>15, <2>1, <2>2, <2>3, <2>5
<1>21. Right
    BY <1>5, <1>16, <1>17, <1>18, <1>19, <1>20
<1>22. MeasuredTrip(trip, t, At, Ck)
    <2>1. FirstOf(t) = (IF At \in {{"send"}} THEN t.replied ELSE t.received)
        BY DEF FirstOf
    <2>2. LastOf(t) = (IF "send" \in At THEN t.replied ELSE t.received)
        BY DEF LastOf
    <2> QED BY <1>2, <1>4, <1>21, <2>1, <2>2 DEF MeasuredTrip, Right, rs, ss
<1> QED BY <1>21, <1>22 DEF Right

\* What the recorder computes between two round trips.
LEMMA Variation ==
    ASSUME sc \in Scenario, NEW t \in Truths, NEW u \in Truths, NEW trip, NEW prev, Tell(trip, t), Tell(prev, u)
    PROVE  /\ SendIPDV(trip, prev) = (FirstOf(t) - t.sent) - (FirstOf(u) - u.sent)
           /\ ReceiveIPDV(trip, prev) = (t.got - LastOf(t)) - (u.got - LastOf(u))
<1>1. "wall" \in Ck \/ "mono" \in Ck
    <2>1. Ck \in (SUBSET BothClocks) \ {{}}
        BY AgreedIs
    <2> QED BY <2>1 DEF BothClocks
<1>2. /\ t.sent \in Nat /\ t.received \in Nat /\ t.replied \in Nat /\ t.got \in Nat
      /\ u.sent \in Nat /\ u.received \in Nat /\ u.replied \in Nat /\ u.got \in Nat
    BY DEF Truths
<1>3. FirstOf(t) \in Nat /\ LastOf(t) \in Nat /\ FirstOf(u) \in Nat /\ LastOf(u) \in Nat
    BY <1>2 DEF FirstOf, LastOf
<1>4. /\ SendIPDV(trip, prev) =
           IF "mono" \in Ck THEN SendDiff(trip, "mono") - SendDiff(prev, "mono")
           ELSE IF "wall" \in Ck THEN SendDiff(trip, "wall") - SendDiff(prev, "wall") ELSE InvalidDuration
      /\ ReceiveIPDV(trip, prev) =
           IF "mono" \in Ck THEN ReceiveDiff(trip, "mono") - ReceiveDiff(prev, "mono")
           ELSE IF "wall" \in Ck THEN ReceiveDiff(trip, "wall") - ReceiveDiff(prev, "wall") ELSE InvalidDuration
    BY DEF SendIPDV, ReceiveIPDV, IPDV, Tell
<1> QED BY <1>1, <1>2, <1>3, <1>4 DEF Tell

\* What the recorders keep of a trip, and compute of it and of two of them, is
\* what the network did, whatever was agreed to be stamped.
THEOREM MeasuresRightHolds == Spec => []MeasuresRight
<1> DEFINE got == {i \in DOMAIN trips : OneWay \/ truth[i].got > 0}
           Way(t) == t.received + (IF At = {"send"} THEN 1 ELSE 0) - t.sent
           Back(t) == t.got - t.replied + (IF "send" \in At THEN 0 ELSE 1)
<1>1. ASSUME IInv, TestInv, ~MonoMidpoint, trips # << >>
      PROVE  /\ Shared(params)
             /\ \A i \in got :
                  IF OneWay THEN MeasuredOneWay(trips[i], truth[i], Rs, Ck)
                  ELSE /\ MeasuredTrip(trips[i], truth[i], At, Ck)
                       /\ trips[i].window = IF "window" \in Rs THEN 2^i - 1 ELSE 0
             /\ got = {1, 2} /\ ~OneWay /\ At # {} =>
                  /\ SendIPDV(trips[2], trips[1]) = Way(truth[2]) - Way(truth[1])
                  /\ ReceiveIPDV(trips[2], trips[1]) = Back(truth[2]) - Back(truth[1])
    <2>1. /\ sc \in Scenario /\ (OneWay <=> OneWayTest) /\ truth \in Seq(Truths) /\ IsBytes(trips)
          /\ Len(trips) <= Len(truth)
        BY <1>1 DEF IInv, TestInv, StepInv, OneWay, OneWayTest, HistoryInv
    <2>2. DOMAIN trips = 1..Len(trips) /\ Len(trips) \in Nat /\ Len(trips) > 0
        <3>1. trips = [i \in 1..Len(trips) |-> trips[i]] /\ Len(trips) \in Nat
            BY <2>1 DEF IsBytes
        <3> QED BY <1>1, <3>1
    <2>3. truth # << >>
        BY <2>1, <2>2
    <2>4. Shared(params)
        BY <1>1, <2>3 DEF TestInv, HistoryInv
    <2>5. \A i \in 1..Len(trips) : i \in 1..Len(truth) /\ truth[i] \in Truths
        <3> DEFINE n == Len(truth)
                   k == Len(trips)
        <3>1. n \in Nat /\ k \in Nat /\ k <= n /\ truth \in [1..n -> Truths]
            BY <2>1, <2>2
        <3> HIDE DEF n, k
        <3>2. \A i \in 1..k : i \in 1..n /\ truth[i] \in Truths
            BY <3>1
        <3> QED BY <3>2 DEF n, k
    <2>6. CASE OneWay
        <3>1. \A i \in 1..Len(trips) : MeasuredOneWay(trips[i], truth[i], Rs, Ck)
            BY <1>1, <2>1, <2>6 DEF TestInv, OneWayInv
        <3> QED BY <2>2, <2>4, <2>6, <3>1
    <2>7. CASE ~OneWay
        <3>1. \A i \in 1..Len(trips) : RoundRight(trips[i], truth[i], i)
            BY <1>1, <2>1, <2>5, <2>7 DEF TestInv, RoundInv
        <3>2. \A i \in got : i \in 1..Len(trips) /\ truth[i].got > 0
            BY <2>2, <2>7
        <3>3. \A i \in got : /\ MeasuredTrip(trips[i], truth[i], At, Ck)
                             /\ At # {} => Tell(trips[i], truth[i])
            <4> SUFFICES ASSUME NEW i \in got
                         PROVE  MeasuredTrip(trips[i], truth[i], At, Ck) /\ (At # {} => Tell(trips[i], truth[i]))
                OBVIOUS
            <4> HIDE DEF got
            <4> QED BY <1>1, <2>1, <2>5, <3>1, <3>2, StampsTell
        <3>4. \A i \in got : /\ trips[i].window = IF "window" \in Rs THEN 2^i - 1 ELSE 0
                             /\ truth[i].replied = truth[i].received + 1
            BY <3>1, <3>2 DEF RoundRight
        <3>5. ASSUME got = {1, 2}, At # {}
              PROVE  /\ SendIPDV(trips[2], trips[1]) = Way(truth[2]) - Way(truth[1])
                     /\ ReceiveIPDV(trips[2], trips[1]) = Back(truth[2]) - Back(truth[1])
            <4> HIDE DEF got
            <4>1. /\ 1 \in got /\ 2 \in got /\ truth[1] \in Truths /\ truth[2] \in Truths
                BY <2>5, <3>2, <3>5
            <4>2. Tell(trips[1], truth[1]) /\ Tell(trips[2], truth[2])
                BY <3>3, <3>5, <4>1
            <4>3. \A t \in Truths : t.replied = t.received + 1 =>
                    FirstOf(t) - t.sent = Way(t) /\ t.got - LastOf(t) = Back(t)
                <5> SUFFICES ASSUME NEW t \in Truths, t.replied = t.received + 1
                             PROVE  FirstOf(t) - t.sent = Way(t) /\ t.got - LastOf(t) = Back(t)
                    OBVIOUS
                <5>1. t.sent \in Nat /\ t.received \in Nat /\ t.replied \in Nat /\ t.got \in Nat
                    BY DEF Truths
                <5>2. CASE At = {"send"}
                    <6>1. "send" \in At
                        BY <5>2
                    <6> QED BY <5>1, <5>2, <6>1 DEF FirstOf, LastOf
                <5>3. CASE At # {"send"}
                    BY <5>1, <5>3 DEF FirstOf, LastOf
                <5> QED BY <5>2, <5>3
            <4>4. FirstOf(truth[1]) - truth[1].sent = Way(truth[1]) /\ truth[1].got - LastOf(truth[1]) = Back(truth[1])
                BY <3>4, <4>1, <4>3
            <4>5. FirstOf(truth[2]) - truth[2].sent = Way(truth[2]) /\ truth[2].got - LastOf(truth[2]) = Back(truth[2])
                BY <3>4, <4>1, <4>3
            <4> HIDE DEF Way, Back
            <4> QED BY <2>1, <4>1, <4>2, <4>4, <4>5, Variation
        <3> HIDE DEF got, Way, Back
        <3> QED BY <2>4, <2>7, <3>3, <3>4, <3>5
    <2> QED BY <2>6, <2>7
<1>2. ASSUME IInv, TestInv PROVE MeasuresRight
    <2>1. CASE trips = << >>
        <3>1. got = {}
            BY <2>1
        <3>2. 1 \notin got
            BY <3>1
        <3> QED BY <3>1, <3>2 DEF MeasuresRight
    <2>2. CASE trips # << >> /\ ~MonoMidpoint
        <3>1. Shared(params)
            BY <1>1, <1>2, <2>2
        <3>2. params.StampAt = At /\ params.Clock = Ck /\ params.ReceivedStats = Rs
            BY <3>1 DEF Shared
        <3> QED BY <1>1, <1>2, <2>2, <3>2 DEF MeasuresRight
    <2>3. CASE trips # << >> /\ MonoMidpoint
        <3>1. truth # << >>
            <4>1. IsBytes(trips) /\ Len(trips) <= Len(truth)
                BY <1>2 DEF TestInv, HistoryInv
            <4>2. trips = [i \in 1..Len(trips) |-> trips[i]] /\ Len(trips) \in Nat
                BY <4>1 DEF IsBytes
            <4> QED BY <2>3, <4>1, <4>2
        <3>2. Shared(params)
            BY <1>2, <3>1 DEF TestInv, HistoryInv
        <3> QED BY <2>3, <3>2 DEF Shared, MonoMidpoint, MeasuresRight
    <2> QED BY <2>1, <2>2, <2>3
<1>3. IInv /\ TestInv => MeasuresRight
    BY <1>2
<1> QED BY <1>3, TestInvariant, PTL

-----------------------------------------------------------------------------
(* The addresses a server listens on: sorted by a comparison that is not   *)
(* an order, equal ones are next to each other all the same                *)

\* An address to listen on.
Addr == [ip : Nat, port : Nat, zone : Nat]

\* No part of x is larger than that of y: what Less denies.
Below(x, y) == x.ip <= y.ip /\ x.port <= y.port /\ x.zone <= y.zone

\* Addresses below each other are the same, and what is below is what Less denies.
LEMMA BelowIs ==
    ASSUME NEW a \in Addr, NEW b \in Addr
    PROVE  /\ ~Less(a, b) <=> Below(b, a)
           /\ Below(a, b) /\ Below(b, a) => a = b
           /\ Below(a, a)
           /\ \A c \in Addr : Below(a, b) /\ Below(b, c) => Below(a, c)
<1>1. /\ a.ip \in Nat /\ a.port \in Nat /\ a.zone \in Nat
      /\ b.ip \in Nat /\ b.port \in Nat /\ b.zone \in Nat
    BY DEF Addr
<1>2. a.ip = b.ip /\ a.port = b.port /\ a.zone = b.zone => a = b
    BY DEF Addr
<1>3. \A c \in Addr : c.ip \in Nat /\ c.port \in Nat /\ c.zone \in Nat
    BY DEF Addr
<1>4. ~Less(a, b) <=> Below(b, a)
    BY <1>1 DEF Less, Below
<1>5. Below(a, b) /\ Below(b, a) => a = b
    BY <1>1, <1>2 DEF Below
<1>6. \A c \in Addr : Below(a, b) /\ Below(b, c) => Below(a, c)
    BY <1>1, <1>3 DEF Below
<1> QED BY <1>1, <1>4, <1>5, <1>6 DEF Below

\* A list in which no address comes before a different one below it, and the
\* same one never comes again after another.
Grouped(s) ==
    \A i, j \in 1..Len(s) : i < j =>
      /\ Below(s[j], s[i]) => s[j] = s[i]
      /\ s[i] = s[j] => \A m \in i..j : s[m] = s[i]

\* An address is inserted behind the last one that is below it.
LEMMA InsertWhere ==
    ASSUME NEW s \in Seq(Addr), NEW a \in Addr
    PROVE  \E k \in 1..(Len(s) + 1) :
             /\ Insert(s, a) = SX!InsertAt(s, k, a)
             /\ \A j \in k..Len(s) : ~Below(s[j], a)
             /\ k > 1 => Below(s[k - 1], a)
<1> DEFINE N == Len(s)
           Free(k) == \A j \in k..N : Less(a, s[j])
           Place(k) == Free(k) /\ (k = 1 \/ ~Less(a, s[k - 1]))
           T == {k \in 1..(N + 1) : Free(k)}
<1>1. N \in Nat /\ \A j \in 1..N : s[j] \in Addr
    BY LenProperties, ElementOfSeq
<1>2. \E k \in 1..(N + 1) : Place(k)
    <2>1. N + 1 \in T
        BY <1>1
    <2>2. T \in SUBSET Nat /\ T # {}
        BY <1>1, <2>1
    <2> HIDE DEF T
    <2>3. PICK k \in T : \A m \in T : k <= m
        BY <2>2, LeastNatural
    <2>4. k \in 1..(N + 1) /\ Free(k)
        BY <2>3 DEF T
    <2>5. CASE k = 1
        BY <2>4, <2>5
    <2>6. CASE k # 1
        <3>1. k - 1 \in 1..(N + 1) /\ k - 1 < k
            BY <1>1, <2>4, <2>6
        <3>2. k - 1 \notin T
            BY <2>3, <2>4, <3>1
        <3>3. ~Free(k - 1)
            BY <3>1, <3>2 DEF T
        <3>4. PICK j \in (k - 1)..N : ~Less(a, s[j])
            BY <3>3
        <3>5. j = k - 1
            <4>1. j \notin k..N
                BY <2>4, <3>4
            <4> QED BY <1>1, <2>4, <3>1, <4>1
        <3> QED BY <2>4, <3>4, <3>5
    <2> QED BY <2>5, <2>6
<1>3. PICK k \in 1..(N + 1) : Place(k) /\ Insert(s, a) = SX!InsertAt(s, k, a)
    <2> DEFINE c == CHOOSE k \in 1..(N + 1) : Place(k)
    <2>1. c \in 1..(N + 1) /\ Place(c)
        <3> HIDE DEF Place
        <3> QED BY <1>2
    <2>2. Insert(s, a) = SX!InsertAt(s, c, a)
        BY DEF Insert
    <2> HIDE DEF c, Place
    <2> QED BY <2>1, <2>2
<1>4. ASSUME NEW j \in k..N PROVE ~Below(s[j], a)
    <2>1. j \in 1..N /\ Less(a, s[j])
        BY <1>1, <1>3
    <2> QED BY <1>1, <2>1, BelowIs
<1>5. ASSUME k > 1 PROVE Below(s[k - 1], a)
    <2>1. k - 1 \in 1..N /\ ~Less(a, s[k - 1])
        BY <1>1, <1>3, <1>5
    <2> QED BY <1>1, <2>1, BelowIs
<1> QED BY <1>3, <1>4, <1>5

\* What a list is into which an element was inserted.
LEMMA InsertAtIs ==
    ASSUME NEW A, NEW s \in Seq(A), NEW a \in A, NEW k \in 1..(Len(s) + 1)
    PROVE  LET q == SX!InsertAt(s, k, a)
           IN  /\ q \in Seq(A) /\ Len(q) = Len(s) + 1 /\ q[k] = a
               /\ \A i \in 1..(k - 1) : q[i] = s[i]
               /\ \A i \in (k + 1)..(Len(s) + 1) : q[i] = s[i - 1]
<1> DEFINE N == Len(s)
           x == SubSeq(s, 1, k - 1)
           y == SubSeq(s, k, N)
           xa == x \o <<a>>
<1>1. N \in Nat /\ \A i \in 1..N : s[i] \in A
    BY LenProperties, ElementOfSeq
<1>2. /\ x \in Seq(A) /\ Len(x) = k - 1 /\ \A i \in 1..(k - 1) : x[i] = s[i]
    <2>1. 1 \in Int /\ k - 1 \in Int /\ (\A i \in 1..(k - 1) : s[i] \in A)
        BY <1>1
    <2>2. /\ x \in Seq(A) /\ Len(x) = (IF 1 <= k - 1 THEN (k - 1) - 1 + 1 ELSE 0)
          /\ \A i \in 1..((k - 1) - 1 + 1) : x[i] = s[1 + i - 1]
        BY <2>1, SubSeqProperties
    <2> HIDE DEF x
    <2> QED BY <1>1, <2>2
<1>3. /\ y \in Seq(A) /\ Len(y) = (N + 1) - k /\ \A i \in 1..((N + 1) - k) : y[i] = s[k + i - 1]
    <2>1. k \in Int /\ N \in Int /\ (\A i \in k..N : s[i] \in A)
        BY <1>1
    <2>2. /\ y \in Seq(A) /\ Len(y) = (IF k <= N THEN N - k + 1 ELSE 0)
          /\ \A i \in 1..(N - k + 1) : y[i] = s[k + i - 1]
        BY <2>1, SubSeqProperties
    <2> HIDE DEF y
    <2> QED BY <1>1, <2>2
<1> DEFINE one == <<a>>
<1>4. one \in Seq(A) /\ Len(one) = 1 /\ one[1] = a
    OBVIOUS
<1>5. SX!InsertAt(s, k, a) = xa \o y
    BY DEF SX!InsertAt
<1> HIDE DEF x, y, one
<1>6. xa = x \o one
    BY DEF one
<1>7. /\ xa \in Seq(A) /\ Len(xa) = k
      /\ \A i \in 1..k : xa[i] = IF i <= k - 1 THEN x[i] ELSE one[i - (k - 1)]
    <2>1. /\ x \o one \in Seq(A) /\ Len(x \o one) = Len(x) + Len(one)
          /\ \A i \in 1..(Len(x) + Len(one)) : (x \o one)[i] = IF i <= Len(x) THEN x[i] ELSE one[i - Len(x)]
        BY <1>2, <1>4, ConcatProperties
    <2>2. Len(x) + Len(one) = k
        BY <1>2, <1>4
    <2> HIDE DEF xa
    <2> QED BY <1>2, <1>6, <2>1, <2>2
<1> HIDE DEF xa
<1> DEFINE q == xa \o y
<1>8. /\ q \in Seq(A) /\ Len(q) = N + 1
      /\ \A i \in 1..(N + 1) : q[i] = IF i <= k THEN xa[i] ELSE y[i - k]
    <2>1. /\ q \in Seq(A) /\ Len(q) = Len(xa) + Len(y)
          /\ \A i \in 1..(Len(xa) + Len(y)) : q[i] = IF i <= Len(xa) THEN xa[i] ELSE y[i - Len(xa)]
        BY <1>3, <1>7, ConcatProperties
    <2>2. Len(xa) + Len(y) = N + 1
        BY <1>1, <1>3, <1>7
    <2> HIDE DEF q
    <2> QED BY <1>7, <2>1, <2>2
<1> HIDE DEF q
<1>9. q[k] = a
    <2>1. k \in 1..(N + 1) /\ k <= k /\ k \in 1..k /\ ~(k <= k - 1) /\ k - (k - 1) = 1
        BY <1>1
    <2>2. q[k] = xa[k] /\ xa[k] = one[k - (k - 1)]
        BY <1>7, <1>8, <2>1
    <2> QED BY <1>4, <2>1, <2>2
<1>10. ASSUME NEW i \in 1..(k - 1) PROVE q[i] = s[i]
    <2>1. i \in 1..(N + 1) /\ i <= k /\ i \in 1..k /\ i <= k - 1
        BY <1>1
    <2>2. q[i] = xa[i] /\ xa[i] = x[i] /\ x[i] = s[i]
        BY <1>2, <1>7, <1>8, <2>1
    <2> QED BY <2>2
<1>11. ASSUME NEW i \in (k + 1)..(N + 1) PROVE q[i] = s[i - 1]
    <2>1. i \in 1..(N + 1) /\ ~(i <= k) /\ i - k \in 1..((N + 1) - k) /\ k + (i - k) - 1 = i - 1
        BY <1>1
    <2>2. q[i] = y[i - k] /\ y[i - k] = s[k + (i - k) - 1]
        BY <1>3, <1>8, <2>1
    <2> QED BY <2>1, <2>2
<1> QED BY <1>5, <1>8, <1>9, <1>10, <1>11 DEF q

\* An insertion keeps the list grouped.
LEMMA InsertGrouped ==
    ASSUME NEW s \in Seq(Addr), NEW a \in Addr, Grouped(s)
    PROVE  LET q == Insert(s, a)
           IN  /\ q \in Seq(Addr) /\ Len(q) = Len(s) + 1 /\ Grouped(q)
               /\ \A x : (\E i \in 1..Len(q) : q[i] = x) <=> x = a \/ \E i \in 1..Len(s) : s[i] = x
<1> DEFINE N == Len(s)
           q == Insert(s, a)
<1>1. N \in Nat /\ \A j \in 1..N : s[j] \in Addr
    BY LenProperties, ElementOfSeq
<1>2. PICK k \in 1..(N + 1) : /\ q = SX!InsertAt(s, k, a)
                              /\ \A j \in k..N : ~Below(s[j], a)
                              /\ k > 1 => Below(s[k - 1], a)
    BY InsertWhere
<1>3. /\ q \in Seq(Addr) /\ Len(q) = N + 1 /\ q[k] = a
      /\ \A i \in 1..(k - 1) : q[i] = s[i]
      /\ \A i \in (k + 1)..(N + 1) : q[i] = s[i - 1]
    <2> DEFINE r == SX!InsertAt(s, k, a)
    <2>1. /\ r \in Seq(Addr) /\ Len(r) = N + 1 /\ r[k] = a
          /\ \A i \in 1..(k - 1) : r[i] = s[i]
          /\ \A i \in (k + 1)..(N + 1) : r[i] = s[i - 1]
        BY InsertAtIs
    <2>2. q = r
        BY <1>2
    <2> HIDE DEF q, r
    <2> QED BY <2>1, <2>2
<1> HIDE DEF q
\* The pairs of s, for its elements.
<1>4. ASSUME NEW i \in 1..N, NEW j \in 1..N, i < j
      PROVE  /\ Below(s[j], s[i]) => s[j] = s[i]
             /\ s[i] = s[j] => \A m \in i..j : s[m] = s[i]
    BY <1>4 DEF Grouped
\* What lies before the new one and is not below an element before it is as it is.
<1>5. ASSUME NEW i \in 1..(k - 1), Below(a, s[i])
      PROVE  \A m \in i..(k - 1) : s[m] = a
    <2>1. k - 1 \in 1..N /\ i \in 1..N /\ i <= k - 1 /\ k > 1
        BY <1>1
    <2>2. Below(s[k - 1], a) /\ s[k - 1] \in Addr /\ s[i] \in Addr
        BY <1>1, <1>2, <2>1
    <2>3. Below(s[k - 1], s[i])
        BY <1>5, <2>2, BelowIs
    <2>4. \A m \in i..(k - 1) : s[m] = s[i]
        <3>1. CASE i = k - 1
            BY <2>1, <3>1
        <3>2. CASE i # k - 1
            <4>1. i < k - 1
                BY <2>1, <3>2
            <4>2. s[i] = s[k - 1]
                BY <1>4, <2>1, <2>3, <4>1
            <4> QED BY <1>4, <2>1, <4>1, <4>2
        <3> QED BY <3>1, <3>2
    <2>5. s[i] = a
        <3>1. s[k - 1] = s[i]
            BY <2>1, <2>4
        <3> QED BY <1>5, <2>2, <3>1, BelowIs
    <2> QED BY <2>4, <2>5
<1>6. ASSUME NEW i \in 1..(N + 1), NEW j \in 1..(N + 1), i < j
      PROVE  /\ Below(q[j], q[i]) => q[j] = q[i]
             /\ q[i] = q[j] => \A m \in i..j : q[m] = q[i]
    <2>1. CASE j < k
        <3>1. i \in 1..(k - 1) /\ j \in 1..(k - 1) /\ i \in 1..N /\ j \in 1..N /\ i..j \subseteq 1..(k - 1)
            BY <1>1, <1>6, <2>1
        <3>2. q[i] = s[i] /\ q[j] = s[j] /\ \A m \in i..j : q[m] = s[m]
            BY <1>3, <3>1
        <3> QED BY <1>4, <1>6, <3>1, <3>2
    <2>2. CASE j = k
        <3>1. i \in 1..(k - 1) /\ q[i] = s[i] /\ q[j] = a /\ i..(k - 1) \subseteq 1..(k - 1) /\ a \in Addr
            BY <1>1, <1>3, <1>6, <2>2
        <3>2. ASSUME Below(a, s[i]) PROVE \A m \in i..j : q[m] = a
            <4>1. \A m \in i..(k - 1) : s[m] = a
                BY <1>5, <3>1, <3>2
            <4>2. ASSUME NEW m \in i..j PROVE q[m] = a
                <5>1. m = k \/ m \in i..(k - 1)
                    BY <1>1, <2>2
                <5> QED BY <1>3, <3>1, <4>1, <5>1
            <4> QED BY <4>2
        <3>3. i \in i..j
            BY <1>6
        <3>4. s[i] = a => Below(a, s[i])
            BY BelowIs
        <3> QED BY <3>1, <3>2, <3>3, <3>4
    <2>3. CASE i = k
        <3>1. j \in (k + 1)..(N + 1) /\ j - 1 \in k..N /\ q[j] = s[j - 1] /\ q[i] = a
            BY <1>1, <1>3, <1>6, <2>3
        <3>2. ~Below(s[j - 1], a)
            BY <1>2, <3>1
        <3>3. s[j - 1] # a
            BY <3>2, BelowIs
        <3> QED BY <3>1, <3>2, <3>3
    <2>4. CASE i > k
        <3>1. /\ i \in (k + 1)..(N + 1) /\ j \in (k + 1)..(N + 1) /\ i - 1 \in 1..N /\ j - 1 \in 1..N
              /\ i - 1 < j - 1 /\ i..j \subseteq (k + 1)..(N + 1)
            BY <1>1, <1>6, <2>4
        <3>2. q[i] = s[i - 1] /\ q[j] = s[j - 1] /\ \A m \in i..j : q[m] = s[m - 1]
            BY <1>3, <3>1
        <3>3. \A m \in i..j : m - 1 \in (i - 1)..(j - 1)
            BY <3>1
        <3> QED BY <1>4, <3>1, <3>2, <3>3
    <2>5. CASE i < k /\ k < j
        <3>1. /\ i \in 1..(k - 1) /\ j \in (k + 1)..(N + 1) /\ i \in 1..N /\ j - 1 \in 1..N /\ i < j
              /\ j - 1 \in k..N /\ k - 1 \in 1..N /\ k > 1 /\ i <= j - 1 /\ i < j - 1 + 1
            BY <1>1, <1>6, <2>5
        <3>2. q[i] = s[i] /\ q[j] = s[j - 1] /\ i < j - 1
            BY <1>1, <1>3, <2>5, <3>1
        <3>3. s[i] # s[j - 1]
            <4> SUFFICES ASSUME s[i] = s[j - 1] PROVE FALSE
                OBVIOUS
            <4>1. k - 1 \in i..(j - 1)
                BY <1>1, <3>1
            <4>2. s[k - 1] = s[i]
                BY <1>4, <3>1, <3>2, <4>1
            <4>3. Below(s[k - 1], a) /\ ~Below(s[j - 1], a)
                BY <1>2, <3>1
            <4> QED BY <4>2, <4>3
        <3>4. Below(s[j - 1], s[i]) => s[j - 1] = s[i]
            BY <1>4, <3>1, <3>2
        <3> QED BY <3>2, <3>3, <3>4
    <2>6. j < k \/ j = k \/ i = k \/ i > k \/ (i < k /\ k < j)
        BY <1>1, <1>6
    <2> QED BY <2>1, <2>2, <2>3, <2>4, <2>5, <2>6
<1>7. Grouped(q)
    BY <1>3, <1>6 DEF Grouped
<1>8. ASSUME NEW x
      PROVE  (\E i \in 1..(N + 1) : q[i] = x) <=> x = a \/ \E i \in 1..N : s[i] = x
    <2>1. ASSUME NEW i \in 1..(N + 1), q[i] = x PROVE x = a \/ \E j \in 1..N : s[j] = x
        <3>1. CASE i < k
            <4>1. i \in 1..(k - 1) /\ i \in 1..N
                BY <1>1, <3>1
            <4> QED BY <1>3, <2>1, <4>1
        <3>2. CASE i = k
            BY <1>3, <2>1, <3>2
        <3>3. CASE i > k
            <4>1. i \in (k + 1)..(N + 1) /\ i - 1 \in 1..N
                BY <1>1, <3>3
            <4> QED BY <1>3, <2>1, <4>1
        <3> QED BY <1>1, <3>1, <3>2, <3>3
    <2>2. ASSUME x = a PROVE \E i \in 1..(N + 1) : q[i] = x
        BY <1>3, <2>2
    <2>3. ASSUME NEW j \in 1..N, s[j] = x PROVE \E i \in 1..(N + 1) : q[i] = x
        <3>1. CASE j < k
            <4>1. j \in 1..(k - 1) /\ j \in 1..(N + 1)
                BY <1>1, <3>1
            <4> QED BY <1>3, <2>3, <4>1
        <3>2. CASE j >= k
            <4>1. j + 1 \in (k + 1)..(N + 1) /\ j + 1 \in 1..(N + 1) /\ (j + 1) - 1 = j
                BY <1>1, <3>2
            <4>2. q[j + 1] = s[j]
                BY <1>3, <4>1
            <4> QED BY <2>3, <4>1, <4>2
        <3> QED BY <1>1, <3>1, <3>2
    <2> QED BY <2>1, <2>2, <2>3
<1> QED BY <1>3, <1>7, <1>8 DEF q

\* The elements of the first n of a list.
Upto(s, n) == {s[i] : i \in 1..n}

\* What sorting makes of any list is grouped and has the same addresses.
LEMMA SortedIs ==
    ASSUME NEW s \in Seq(Addr)
    PROVE  /\ Sorted(s) \in Seq(Addr) /\ Grouped(Sorted(s))
           /\ Upto(Sorted(s), Len(Sorted(s))) = Upto(s, Len(s))
<1> DEFINE N == Len(s)
           W == {t \in Seq(Addr) : Grouped(t)}
           base == << >>
           step == [n \in 1..N |-> [t \in W |-> Insert(t, s[n])]]
           Is(h) == h = [n \in 0..N |-> IF n = 0 THEN << >> ELSE Insert(h[n - 1], s[n])]
           sorted == CHOOSE h : Is(h)
<1>1. N \in Nat /\ \A j \in 1..N : s[j] \in Addr
    BY LenProperties, ElementOfSeq
<1>2. base \in W
    BY EmptySeq DEF Grouped
<1>3. \A n \in 1..N : \A t \in W : Insert(t, s[n]) \in W
    BY <1>1, InsertGrouped
<1>4. PICK f \in [0..N -> W] : Iterated(f, N, base, step)
    <2>1. step \in [1..N -> [W -> W]]
        <3> HIDE DEF W
        <3> QED BY <1>3
    <2> HIDE DEF W, base, step
    <2> QED BY <1>1, <1>2, <2>1, Iterates
<1>5. Is(f)
    <2>1. \A n \in 0..N : f[n] = IF n = 0 THEN << >> ELSE Insert(f[n - 1], s[n])
        <3> TAKE n \in 0..N
        <3>1. f[n] = IF n = 0 THEN base ELSE step[n][f[n - 1]]
            <4> HIDE DEF base, step, W
            <4> QED BY <1>4 DEF Iterated
        <3>2. n # 0 => n \in 1..N /\ f[n - 1] \in W
            <4> HIDE DEF W
            <4> QED BY <1>1
        <3> HIDE DEF W
        <3> QED BY <3>1, <3>2
    <2>2. f = [n \in 0..N |-> f[n]]
        <3> HIDE DEF W
        <3> QED OBVIOUS
    <2> HIDE DEF W
    <2> QED BY <2>1, <2>2
<1>6. Is(sorted) /\ Sorted(s) = sorted[N]
    <2>1. Sorted(s) = sorted[N]
        BY DEF Sorted
    <2> HIDE DEF Is
    <2> QED BY <1>5, <2>1
<1> HIDE DEF sorted
<1>7. sorted[0] = << >> /\ \A n \in Nat : n + 1 <= N => sorted[n + 1] = Insert(sorted[n], s[n + 1])
    <2>1. \A n \in 0..N : sorted[n] = IF n = 0 THEN << >> ELSE Insert(sorted[n - 1], s[n])
        BY <1>6
    <2>2. 0 \in 0..N
        BY <1>1
    <2>3. ASSUME NEW n \in Nat, n + 1 <= N PROVE sorted[n + 1] = Insert(sorted[n], s[n + 1])
        <3>1. n + 1 \in 0..N /\ n + 1 # 0 /\ (n + 1) - 1 = n
            BY <1>1, <2>3
        <3> QED BY <2>1, <3>1
    <2> QED BY <2>1, <2>2, <2>3
<1> DEFINE Good(t, n) == t \in W /\ Upto(t, Len(t)) = Upto(s, n)
           P == {n \in Nat : n <= N => Good(sorted[n], n)}
<1>8. 0 \in P
    <2>1. Upto(<< >>, 0) = {} /\ Upto(s, 0) = {} /\ Len(<< >>) = 0
        BY DEF Upto
    <2> HIDE DEF W
    <2> QED BY <1>2, <1>7, <2>1
<1>9. ASSUME NEW n \in Nat, n \in P PROVE n + 1 \in P
    <2> SUFFICES ASSUME n + 1 <= N PROVE Good(sorted[n + 1], n + 1)
        OBVIOUS
    <2> DEFINE t == sorted[n]
               a == s[n + 1]
               q == Insert(t, a)
    <2>1. n <= N /\ n + 1 \in 1..N
        BY <1>1
    <2>2. t \in W /\ Upto(t, Len(t)) = Upto(s, n) /\ a \in Addr /\ sorted[n + 1] = q
        <3> HIDE DEF W
        <3> QED BY <1>1, <1>7, <1>9, <2>1
    <2> HIDE DEF t, a
    <2>3. /\ q \in W
          /\ \A x : (\E i \in 1..Len(q) : q[i] = x) <=> x = a \/ \E i \in 1..Len(t) : t[i] = x
        BY <2>2, InsertGrouped
    <2> HIDE DEF q, W
    <2>4. \A x : x \in Upto(q, Len(q)) <=> x = a \/ x \in Upto(t, Len(t))
        BY <2>3 DEF Upto
    <2>5. \A x : x \in Upto(s, n + 1) <=> x = a \/ x \in Upto(s, n)
        <3>1. \A i : i \in 1..(n + 1) <=> i = n + 1 \/ i \in 1..n
            OBVIOUS
        <3> QED BY <3>1 DEF Upto, a
    <2>6. Upto(q, Len(q)) = Upto(s, n + 1)
        BY <2>2, <2>4, <2>5
    <2> QED BY <2>2, <2>3, <2>6
<1>10. N \in P
    <2> HIDE DEF P
    <2> QED BY <1>1, <1>8, <1>9, NaturalsIn
<1>11. Good(sorted[N], N)
    BY <1>1, <1>10
<1> QED BY <1>6, <1>11

\* What is left of a grouped list has each address once.
LEMMA DistinctIs ==
    ASSUME NEW s \in Seq(Addr), Grouped(s)
    PROVE  /\ Distinct(s) \in Seq(Addr) /\ SX!IsInjective(Distinct(s))
           /\ Upto(Distinct(s), Len(Distinct(s))) = Upto(s, Len(s))
<1> DEFINE N == Len(s)
           W == Seq(Addr)
           Onto(t, a) == IF t # << >> /\ t[Len(t)] = a THEN t ELSE Append(t, a)
           base == << >>
           step == [n \in 1..N |-> [t \in W |-> Onto(t, s[n])]]
           Is(h) == h = [n \in 0..N |-> IF n = 0 THEN << >> ELSE Onto(h[n - 1], s[n])]
           kept == CHOOSE h : Is(h)
<1>1. N \in Nat /\ \A j \in 1..N : s[j] \in Addr
    BY LenProperties, ElementOfSeq
<1>2. base \in W
    BY EmptySeq
<1>3. \A n \in 1..N : \A t \in W : Onto(t, s[n]) \in W
    BY <1>1, AppendProperties
<1>4. PICK f \in [0..N -> W] : Iterated(f, N, base, step)
    <2>1. step \in [1..N -> [W -> W]]
        <3> HIDE DEF W, Onto
        <3> QED BY <1>3
    <2> HIDE DEF W, base, step
    <2> QED BY <1>1, <1>2, <2>1, Iterates
<1>5. Is(f)
    <2>1. \A n \in 0..N : f[n] = IF n = 0 THEN << >> ELSE Onto(f[n - 1], s[n])
        <3> TAKE n \in 0..N
        <3>1. f[n] = IF n = 0 THEN base ELSE step[n][f[n - 1]]
            <4> HIDE DEF base, step, W
            <4> QED BY <1>4 DEF Iterated
        <3>2. n # 0 => n \in 1..N /\ f[n - 1] \in W
            <4> HIDE DEF W
            <4> QED BY <1>1
        <3> HIDE DEF W, Onto
        <3> QED BY <3>1, <3>2
    <2>2. f = [n \in 0..N |-> f[n]]
        <3> HIDE DEF W
        <3> QED OBVIOUS
    <2> HIDE DEF W, Onto
    <2> QED BY <2>1, <2>2
<1>6. Is(kept) /\ Distinct(s) = kept[N]
    <2>1. Distinct(s) = kept[N]
        BY DEF Distinct
    <2> HIDE DEF Is
    <2> QED BY <1>5, <2>1
<1> HIDE DEF kept
<1>7. kept[0] = << >> /\ \A n \in Nat : n + 1 <= N => kept[n + 1] = Onto(kept[n], s[n + 1])
    <2>1. \A n \in 0..N : kept[n] = IF n = 0 THEN << >> ELSE Onto(kept[n - 1], s[n])
        <3> HIDE DEF Onto
        <3> QED BY <1>6
    <2> HIDE DEF Onto
    <2>2. 0 \in 0..N
        BY <1>1
    <2>3. ASSUME NEW n \in Nat, n + 1 <= N PROVE kept[n + 1] = Onto(kept[n], s[n + 1])
        <3>1. n + 1 \in 0..N /\ n + 1 # 0 /\ (n + 1) - 1 = n
            BY <1>1, <2>3
        <3> QED BY <2>1, <3>1
    <2> QED BY <2>1, <2>2, <2>3
<1> DEFINE Once(t) == \A i, j \in 1..Len(t) : t[i] = t[j] => i = j
           Good(t, n) == /\ t \in W /\ Upto(t, Len(t)) = Upto(s, n) /\ Once(t)
                         /\ n > 0 => t # << >> /\ t[Len(t)] = s[n]
                         /\ n = 0 => t = << >>
           P == {n \in Nat : n <= N => Good(kept[n], n)}
<1>8. 0 \in P
    <2>1. Upto(<< >>, 0) = {} /\ Upto(s, 0) = {} /\ Len(<< >>) = 0
        BY DEF Upto
    <2>2. Once(<< >>)
        OBVIOUS
    <2> HIDE DEF W, Once
    <2>3. Good(kept[0], 0)
        <3>1. Good(<< >>, 0)
            BY <1>2, <2>1, <2>2
        <3> HIDE DEF Good
        <3> QED BY <1>7, <3>1
    <2> HIDE DEF Good
    <2> QED BY <2>3
<1>9. ASSUME NEW n \in Nat, n \in P PROVE n + 1 \in P
    <2> SUFFICES ASSUME n + 1 <= N PROVE Good(kept[n + 1], n + 1)
        OBVIOUS
    <2> DEFINE t == kept[n]
               a == s[n + 1]
               q == Onto(t, a)
    <2>1. n <= N /\ n + 1 \in 1..N
        BY <1>1
    <2>2. Good(t, n) /\ a \in Addr /\ kept[n + 1] = q
        <3> HIDE DEF Good, Onto
        <3> QED BY <1>1, <1>7, <1>9, <2>1
    <2>3. \A x : x \in Upto(s, n + 1) <=> x = a \/ x \in Upto(s, n)
        <3>1. \A i : i \in 1..(n + 1) <=> i = n + 1 \/ i \in 1..n
            OBVIOUS
        <3> QED BY <3>1 DEF Upto
    <2> HIDE DEF t
    <2>4. Len(t) \in Nat
        BY <2>2, LenProperties
    <2>5. CASE t # << >> /\ t[Len(t)] = a
        <3>1. n > 0
            BY <2>2, <2>5
        <3>2. a = s[n] /\ a \in Upto(s, n)
            BY <2>2, <2>5, <3>1 DEF Upto
        <3>3. Upto(s, n + 1) = Upto(s, n)
            BY <2>3, <3>2
        <3>4. q = t
            BY <2>5
        <3> HIDE DEF q, W, Once
        <3>5. Good(q, n + 1)
            BY <2>2, <2>5, <3>3, <3>4
        <3> QED BY <2>2, <3>5
    <2>6. CASE ~(t # << >> /\ t[Len(t)] = a)
        <3>1. a \notin Upto(s, n)
            <4> SUFFICES ASSUME NEW i \in 1..n, s[i] = a PROVE FALSE
                BY DEF Upto
            <4>1. i \in 1..N /\ n \in i..(n + 1) /\ i < n + 1 /\ n > 0
                BY <1>1, <2>1
            <4>2. s[n] = s[i]
                BY <2>1, <4>1 DEF Grouped
            <4> QED BY <2>2, <2>6, <4>1, <4>2
        <3>2. q = Append(t, a)
            BY <2>6
        <3> HIDE DEF q, a
        <3>3. /\ q \in W /\ q # << >> /\ Len(q) = Len(t) + 1 /\ q[Len(t) + 1] = a
              /\ \A i \in 1..Len(t) : q[i] = t[i]
            BY <2>2, <3>2, AppendProperties
        <3>4. \A i : i \in 1..Len(q) <=> i = Len(t) + 1 \/ i \in 1..Len(t)
            BY <2>4, <3>3
        <3>5. \A x : x \in Upto(q, Len(q)) <=> x = a \/ x \in Upto(t, Len(t))
            BY <3>3, <3>4 DEF Upto
        <3>6. Upto(q, Len(q)) = Upto(s, n + 1)
            BY <2>2, <2>3, <3>5
        <3>7. Once(q)
            <4>1. a \notin Upto(t, Len(t))
                BY <2>2, <3>1
            <4>2. \A i \in 1..Len(t) : t[i] # a
                BY <4>1 DEF Upto
            <4>3. Once(t)
                BY <2>2
            <4> SUFFICES ASSUME NEW i \in 1..Len(q), NEW j \in 1..Len(q), q[i] = q[j] PROVE i = j
                OBVIOUS
            <4>4. CASE i \in 1..Len(t) /\ j \in 1..Len(t)
                BY <3>3, <4>3, <4>4
            <4>5. CASE i = Len(t) + 1 /\ j = Len(t) + 1
                BY <4>5
            <4>6. CASE i \in 1..Len(t) /\ j = Len(t) + 1
                BY <3>3, <4>2, <4>6
            <4>7. CASE i = Len(t) + 1 /\ j \in 1..Len(t)
                BY <3>3, <4>2, <4>7
            <4> QED BY <3>4, <4>4, <4>5, <4>6, <4>7
        <3>8. q[Len(q)] = s[n + 1]
            BY <3>3 DEF a
        <3> HIDE DEF W, Once
        <3>9. Good(q, n + 1)
            BY <3>3, <3>6, <3>7, <3>8
        <3> QED BY <2>2, <3>9
    <2> QED BY <2>5, <2>6
<1>10. N \in P
    <2> HIDE DEF P
    <2> QED BY <1>1, <1>8, <1>9, NaturalsIn
<1>11. Good(kept[N], N)
    BY <1>1, <1>10
<1>12. SX!IsInjective(Distinct(s))
    <2>1. DOMAIN Distinct(s) = 1..Len(Distinct(s))
        BY <1>6, <1>11, LenProperties
    <2> QED BY <1>6, <1>11, <2>1 DEF SX!IsInjective
<1> QED BY <1>6, <1>11, <1>12

\* However an address comes more than once into a list, it is listened on once.
LEMMA OnceEach ==
    ASSUME NEW s \in Seq(Addr)
    PROVE  LET r == Distinct(Sorted(s))
           IN  /\ r \in Seq(Addr) /\ SX!IsInjective(r)
               /\ SX!ToSet(r) = SX!ToSet(s)
<1> DEFINE t == Sorted(s)
           r == Distinct(t)
<1>1. t \in Seq(Addr) /\ Grouped(t) /\ Upto(t, Len(t)) = Upto(s, Len(s))
    BY SortedIs
<1> HIDE DEF t
<1>2. r \in Seq(Addr) /\ SX!IsInjective(r) /\ Upto(r, Len(r)) = Upto(t, Len(t))
    BY <1>1, DistinctIs
<1> HIDE DEF r
<1>3. DOMAIN r = 1..Len(r) /\ DOMAIN s = 1..Len(s)
    BY <1>2, LenProperties
<1>4. SX!ToSet(r) = Upto(r, Len(r)) /\ SX!ToSet(s) = Upto(s, Len(s))
    BY <1>3 DEF SX!ToSet, Upto
<1> QED BY <1>1, <1>2, <1>4 DEF r, t

\* Lists put together have the addresses of each.
LEMMA JoinedAddrs ==
    ASSUME NEW s \in Seq(Seq(Addr))
    PROVE  /\ SX!FlattenSeq(s) \in Seq(Addr)
           /\ SX!ToSet(SX!FlattenSeq(s)) = UNION {SX!ToSet(s[i]) : i \in DOMAIN s}
<1> DEFINE c == SX!FlattenSeq(s)
           All == UNION {SX!ToSet(s[i]) : i \in DOMAIN s}
           K == {q \in Seq(Addr) : SX!ToSet(q) \subseteq All}
<1>1. Len(s) \in Nat /\ DOMAIN s = 1..Len(s) /\ \A i \in 1..Len(s) : s[i] \in Seq(Addr)
    BY LenProperties, ElementOfSeq
<1>2. CASE Len(s) = 0
    <2>1. c = << >> /\ s = << >>
        <3>1. s = << >>
            BY <1>2, EmptySeq
        <3> QED BY <1>2, <3>1 DEF SX!FlattenSeq
    <2>2. All = {} /\ SX!ToSet(<< >>) = {}
        BY <1>1, <1>2 DEF SX!ToSet
    <2> QED BY <2>1, <2>2, EmptySeq
<1>3. CASE Len(s) # 0
    <2> DEFINE N == Len(s) - 1
    <2>1. N \in Nat /\ Len(s) = N + 1
        BY <1>1, <1>3
    <2>2. c = SE!FlattenSeq(s)
        BY DEF SE!FlattenSeq, SX!FlattenSeq
    <2> HIDE DEF c, N
    <2>3. \A i \in 1..(N + 1) : s[i] \in K
        BY <1>1, <2>1
    <2>4. \A a, b \in Seq(Addr) : a \in K /\ b \in K => a \o b \in K
        <3> SUFFICES ASSUME NEW a \in Seq(Addr), NEW b \in Seq(Addr), a \in K, b \in K
                     PROVE  a \o b \in K
            OBVIOUS
        <3> DEFINE q == a \o b
        <3>1. /\ q \in Seq(Addr) /\ Len(q) = Len(a) + Len(b) /\ Len(a) \in Nat /\ Len(b) \in Nat
              /\ \A i \in 1..(Len(a) + Len(b)) : q[i] = IF i <= Len(a) THEN a[i] ELSE b[i - Len(a)]
            BY ConcatProperties, LenProperties
        <3> HIDE DEF q, All
        <3>2. DOMAIN q = 1..Len(q) /\ DOMAIN a = 1..Len(a) /\ DOMAIN b = 1..Len(b)
            BY <3>1, LenProperties
        <3>3. ASSUME NEW i \in 1..Len(q) PROVE q[i] \in All
            <4>1. CASE i <= Len(a)
                <5>1. q[i] = a[i] /\ i \in DOMAIN a
                    BY <3>1, <3>2, <4>1
                <5> QED BY <5>1 DEF SX!ToSet
            <4>2. CASE ~(i <= Len(a))
                <5>1. q[i] = b[i - Len(a)] /\ i - Len(a) \in DOMAIN b
                    BY <3>1, <3>2, <4>2
                <5> QED BY <5>1 DEF SX!ToSet
            <4> QED BY <4>1, <4>2
        <3>4. SX!ToSet(q) \subseteq All
            BY <3>2, <3>3 DEF SX!ToSet
        <3> QED BY <3>1, <3>4 DEF q
    <2> HIDE DEF K
    <2>5. SE!FlattenSeq(s) \in K /\ SE!FlattenSeq(s) \in Seq(Addr)
        BY <2>1, <2>3, <2>4, FlattenKeeps
    <2>6. c \in Seq(Addr) /\ SX!ToSet(c) \subseteq All
        BY <2>2, <2>5 DEF K
    <2>7. ASSUME NEW x \in All PROVE x \in SX!ToSet(c)
        <3>1. PICK i \in DOMAIN s : x \in SX!ToSet(s[i])
            BY <2>7
        <3>2. PICK k \in DOMAIN s[i] : x = s[i][k]
            BY <3>1 DEF SX!ToSet
        <3>3. i \in 1..(N + 1) /\ k \in 1..Len(s[i])
            BY <1>1, <2>1, <3>1, <3>2, LenProperties
        <3>4. Contains(c, x)
            BY <2>1, <2>2, <3>2, <3>3, FlattenHas
        <3>5. PICK j \in 1..Len(c) : c[j] = x
            BY <3>4 DEF Contains
        <3>6. DOMAIN c = 1..Len(c)
            BY <2>6, LenProperties
        <3> QED BY <3>5, <3>6 DEF SX!ToSet
    <2> QED BY <2>6, <2>7 DEF c
<1> QED BY <1>2, <1>3

\* Lists of one address or none.
LEMMA OneOrNone ==
    ASSUME NEW a \in Addr, NEW b \in BOOLEAN
    PROVE  LET q == IF b THEN <<a>> ELSE << >>
           IN  q \in Seq(Addr) /\ SX!ToSet(q) = IF b THEN {a} ELSE {}
<1>1. <<a>> \in Seq(Addr) /\ << >> \in Seq(Addr)
    BY EmptySeq
<1>2. SX!ToSet(<<a>>) = {a} /\ SX!ToSet(<< >>) = {}
    BY DEF SX!ToSet
<1> QED BY <1>1, <1>2

\* Only a link-local address has a zone.
Zoned(a) == a.ip \notin LinkLocal => a.zone = 0

\* The addresses a bound one stands for are well formed.
LEMMA BoundAddrsIs ==
    ASSUME NEW b \in Bound, NEW ipVer
    PROVE  /\ BoundAddrs(b, ipVer) \in Seq(Addr)
           /\ \A a \in SX!ToSet(BoundAddrs(b, ipVer)) : Zoned(a)
<1> DEFINE port == PortOf(b)
<1>1. port \in Nat
    BY ListenAssumption DEF Bound, PortOf
<1> HIDE DEF port
<1>2. CASE "iface" \in DOMAIN b
    <2> DEFINE One(i, k) ==
                 LET ip == Ifaces[i].ips[k]
                 IN  IF i \in b.iface /\ Ifaces[i].up /\ ip \in IPs(ipVer)
                     THEN <<[ip |-> ip, port |-> PortOf(b), zone |-> IF ip \in LinkLocal THEN i ELSE 0]>>
                     ELSE << >>
               Of(i) == [k \in DOMAIN Ifaces[i].ips |-> One(i, k)]
               All == [i \in DOMAIN Ifaces |-> SX!FlattenSeq(Of(i))]
    <2>1. ASSUME NEW i \in DOMAIN Ifaces, NEW k \in DOMAIN Ifaces[i].ips
          PROVE  One(i, k) \in Seq(Addr) /\ \A a \in SX!ToSet(One(i, k)) : Zoned(a)
        <3> DEFINE ip == Ifaces[i].ips[k]
                   a == [ip |-> ip, port |-> port, zone |-> IF ip \in LinkLocal THEN i ELSE 0]
                   c == i \in b.iface /\ Ifaces[i].up /\ ip \in IPs(ipVer)
                   d == IF c THEN TRUE ELSE FALSE
        <3>1. ip \in Nat
            <4>1. Ifaces[i].ips \in Seq(IPv4s \cup IPv6s) /\ IPv4s \cup IPv6s \subseteq Nat
                BY ListenAssumption
            <4> QED BY <4>1, LenProperties, ElementOfSeq
        <3>2. i \in Nat
            BY ListenAssumption
        <3>3. a \in Addr /\ Zoned(a)
            BY <1>1, <3>1, <3>2 DEF Addr, Zoned
        <3>4. One(i, k) = IF d THEN <<a>> ELSE << >>
            BY DEF port
        <3> HIDE DEF a, c, One
        <3>5. d \in BOOLEAN
            OBVIOUS
        <3> HIDE DEF d
        <3> QED BY <3>3, <3>4, <3>5, OneOrNone
    <2> HIDE DEF One
    <2>2. ASSUME NEW i \in DOMAIN Ifaces
          PROVE  /\ SX!FlattenSeq(Of(i)) \in Seq(Addr)
                 /\ \A a \in SX!ToSet(SX!FlattenSeq(Of(i))) : Zoned(a)
        <3>1. Len(Ifaces[i].ips) \in Nat /\ DOMAIN Ifaces[i].ips = 1..Len(Ifaces[i].ips)
            BY ListenAssumption, LenProperties
        <3>2. Of(i) \in Seq(Seq(Addr)) /\ DOMAIN Of(i) = DOMAIN Ifaces[i].ips
            <4>1. \A k \in DOMAIN Ifaces[i].ips : One(i, k) \in Seq(Addr)
                BY <2>1
            <4> DEFINE n == Len(Ifaces[i].ips)
                       L == Seq(Addr)
            <4>2. Of(i) = [k \in 1..n |-> One(i, k)]
                BY <3>1
            <4>3. \A k \in 1..n : One(i, k) \in L
                BY <3>1, <4>1
            <4> HIDE DEF n, L
            <4>4. [k \in 1..n |-> One(i, k)] \in Seq(L)
                BY <3>1, <4>3 DEF n
            <4> QED BY <4>2, <4>4 DEF L
        <3>3. \A k \in DOMAIN Of(i) : Of(i)[k] = One(i, k)
            OBVIOUS
        <3> DEFINE q == Of(i)
        <3>4. q \in Seq(Seq(Addr)) /\ \A k \in DOMAIN q : \A a \in SX!ToSet(q[k]) : Zoned(a)
            BY <2>1, <3>2, <3>3
        <3> HIDE DEF q
        <3>5. /\ SX!FlattenSeq(q) \in Seq(Addr)
              /\ SX!ToSet(SX!FlattenSeq(q)) = UNION {SX!ToSet(q[k]) : k \in DOMAIN q}
            BY <3>4, JoinedAddrs
        <3>6. \A a \in SX!ToSet(SX!FlattenSeq(q)) : Zoned(a)
            BY <3>4, <3>5
        <3> QED BY <3>5, <3>6 DEF q
    <2>3. BoundAddrs(b, ipVer) = SX!FlattenSeq(All)
        BY <1>2 DEF BoundAddrs, IfaceAddrs, One
    <2> HIDE DEF Of
    <2>4. All \in Seq(Seq(Addr)) /\ \A i \in DOMAIN All : \A a \in SX!ToSet(All[i]) : Zoned(a)
        <3> DEFINE n == Len(Ifaces)
                   L == Seq(Addr)
        <3>1. n \in Nat /\ DOMAIN Ifaces = 1..n
            BY ListenAssumption
        <3>2. All = [i \in 1..n |-> SX!FlattenSeq(Of(i))] /\ \A i \in 1..n : SX!FlattenSeq(Of(i)) \in L
            BY <2>2, <3>1
        <3> HIDE DEF n, L
        <3>3. [i \in 1..n |-> SX!FlattenSeq(Of(i))] \in Seq(L)
            BY <3>1, <3>2
        <3>4. All \in Seq(Seq(Addr))
            BY <3>2, <3>3 DEF L
        <3>5. \A i \in DOMAIN All : All[i] = SX!FlattenSeq(Of(i)) /\ i \in DOMAIN Ifaces
            OBVIOUS
        <3> HIDE DEF All
        <3> QED BY <2>2, <3>4, <3>5
    <2> HIDE DEF All
    <2>5. /\ SX!FlattenSeq(All) \in Seq(Addr)
          /\ SX!ToSet(SX!FlattenSeq(All)) = UNION {SX!ToSet(All[i]) : i \in DOMAIN All}
        BY <2>4, JoinedAddrs
    <2>6. \A a \in SX!ToSet(SX!FlattenSeq(All)) : Zoned(a)
        BY <2>4, <2>5
    <2> QED BY <2>3, <2>5, <2>6
<1>3. CASE "iface" \notin DOMAIN b
    <2> DEFINE v(k) == <<4, 6>>[k]
               ip(k) == IF b.ip # AnyHost THEN b.ip ELSE IF v(k) = 4 THEN ZeroIP4 ELSE ZeroIP6
               c(k) == v(k) \in ipVer /\ ip(k) \in IPs({v(k)})
               One(k) == IF c(k) THEN <<[ip |-> ip(k), port |-> PortOf(b), zone |-> 0]>> ELSE << >>
               q == [k \in 1..2 |-> One(k)]
    <2>1. BoundAddrs(b, ipVer) = SX!FlattenSeq(q)
        BY <1>3 DEF BoundAddrs, HostAddrs
    <2>2. ASSUME NEW k \in 1..2
          PROVE  One(k) \in Seq(Addr) /\ \A a \in SX!ToSet(One(k)) : Zoned(a)
        <3> DEFINE a == [ip |-> ip(k), port |-> port, zone |-> 0]
                   d == IF c(k) THEN TRUE ELSE FALSE
        <3>1. ip(k) \in Nat
            <4>1. b.ip # AnyHost => b.ip \in IPv4s \cup IPv6s
                BY <1>3 DEF Bound
            <4> QED BY <4>1, ListenAssumption
        <3> HIDE DEF ip
        <3>2. a \in Addr /\ Zoned(a)
            BY <1>1, <3>1 DEF Addr, Zoned
        <3>3. One(k) = IF d THEN <<a>> ELSE << >>
            BY DEF port
        <3> HIDE DEF a, c, One
        <3>4. d \in BOOLEAN
            OBVIOUS
        <3> HIDE DEF d
        <3> QED BY <3>2, <3>3, <3>4, OneOrNone
    <2> HIDE DEF One
    <2>3. q \in Seq(Seq(Addr)) /\ \A k \in DOMAIN q : \A a \in SX!ToSet(q[k]) : Zoned(a)
        <3> DEFINE L == Seq(Addr)
        <3>1. \A k \in 1..2 : One(k) \in L
            BY <2>2
        <3> HIDE DEF L
        <3>2. q \in Seq(L)
            BY <3>1
        <3>3. DOMAIN q = 1..2 /\ \A k \in 1..2 : q[k] = One(k)
            OBVIOUS
        <3> HIDE DEF q
        <3> QED BY <2>2, <3>2, <3>3 DEF L
    <2> HIDE DEF q
    <2>4. /\ SX!FlattenSeq(q) \in Seq(Addr)
          /\ SX!ToSet(SX!FlattenSeq(q)) = UNION {SX!ToSet(q[k]) : k \in DOMAIN q}
        BY <2>3, JoinedAddrs
    <2>5. \A a \in SX!ToSet(SX!FlattenSeq(q)) : Zoned(a)
        BY <2>3, <2>4
    <2> QED BY <2>1, <2>4, <2>5
<1> QED BY <1>2, <1>3

\* The server listens once on each address that was bound.
LEMMA ResolvedIs ==
    ASSUME NEW bound \in Seq(Bound), NEW ipVer
    PROVE  LET r == Resolved(bound, ipVer)
           IN  /\ r \in Seq(Addr) /\ SX!IsInjective(r)
               /\ SX!ToSet(r) = UNION {SX!ToSet(BoundAddrs(bound[i], ipVer)) : i \in DOMAIN bound}
               /\ \A a \in SX!ToSet(r) : Zoned(a)
<1> DEFINE n == Len(bound)
           L == Seq(Addr)
           q == [i \in DOMAIN bound |-> BoundAddrs(bound[i], ipVer)]
           s == SX!FlattenSeq(q)
           r == Resolved(bound, ipVer)
<1>1. n \in Nat /\ DOMAIN bound = 1..n /\ \A i \in 1..n : bound[i] \in Bound
    BY LenProperties, ElementOfSeq
<1>2. \A i \in 1..n : BoundAddrs(bound[i], ipVer) \in L /\ \A a \in SX!ToSet(BoundAddrs(bound[i], ipVer)) : Zoned(a)
    BY <1>1, BoundAddrsIs
<1> HIDE DEF n, L
<1>3. q \in Seq(L) /\ DOMAIN q = DOMAIN bound /\ \A i \in DOMAIN bound : q[i] = BoundAddrs(bound[i], ipVer)
    <2>1. q = [i \in 1..n |-> BoundAddrs(bound[i], ipVer)]
        BY <1>1
    <2>2. [i \in 1..n |-> BoundAddrs(bound[i], ipVer)] \in Seq(L)
        BY <1>1, <1>2
    <2>3. DOMAIN q = DOMAIN bound /\ \A i \in DOMAIN bound : q[i] = BoundAddrs(bound[i], ipVer)
        OBVIOUS
    <2> HIDE DEF q
    <2> QED BY <2>1, <2>2, <2>3
<1>4. r = Distinct(Sorted(s))
    BY DEF Resolved
<1> HIDE DEF q
<1>5. s \in Seq(Addr) /\ SX!ToSet(s) = UNION {SX!ToSet(q[i]) : i \in DOMAIN q}
    BY <1>3, JoinedAddrs DEF L
<1> HIDE DEF s, r
<1>6. r \in Seq(Addr) /\ SX!IsInjective(r) /\ SX!ToSet(r) = SX!ToSet(s)
    BY <1>4, <1>5, OnceEach
<1>7. UNION {SX!ToSet(q[i]) : i \in DOMAIN q}
        = UNION {SX!ToSet(BoundAddrs(bound[i], ipVer)) : i \in DOMAIN bound}
    BY <1>3
<1>8. \A a \in SX!ToSet(r) : Zoned(a)
    BY <1>1, <1>2, <1>5, <1>6, <1>7
<1> QED BY <1>5, <1>6, <1>7, <1>8 DEF r

\* A server that listens found no error in its addresses.
ListenInv == sc \in Scenario /\ (pc = "open" => ListenError(sc.bound, sc.ipVer) = None)

\* That is an invariant.
LEMMA ListenInvariant == Spec => []ListenInv
<1>1. Init => ListenInv
    BY DEF Init, ListenInv
<1>2. ListenInv /\ [Next]_vars => ListenInv'
    <2> SUFFICES ASSUME ListenInv, [Next]_vars PROVE ListenInv'
        OBVIOUS
    <2>1. CASE UNCHANGED vars
        BY <2>1 DEF vars, ListenInv
    <2>2. CASE MakeListeners
        <3> DEFINE e == ListenError(sc.bound, sc.ipVer)
                   ls == {l \in SX!ToSet(Resolved(sc.bound, sc.ipVer)) : Serves(l, sc.target)}
        <3>1. sc' = sc /\ (pc' = "done" \/ (pc' = "open" /\ e = None))
            <4> HIDE DEF e, ls
            <4> QED BY <2>2 DEF MakeListeners, Fail, e, ls
        <3>2. (ListenError(sc.bound, sc.ipVer) = None)' <=> e = None
            BY <3>1
        <3> HIDE DEF e
        <3> QED BY <3>1, <3>2 DEF ListenInv, None
    <2>3. CASE sc' = sc /\ pc' # "open"
        BY <2>3 DEF ListenInv
    <2>4. OpenRequest \/ Accept \/ Opened \/ Check \/ Prepare \/ Send \/ Serve \/ Receive \/ Close
          => sc' = sc /\ pc' # "open"
        BY DEF OpenRequest, Accept, Opened, Check, Prepare, Send, Serve, Receive, Close, Fail, Next1
    <2> QED BY <2>1, <2>2, <2>3, <2>4 DEF Next
<1> QED BY <1>1, <1>2, PTL DEF Spec

\* Any addresses that are bound and any interfaces there are: the server
\* listens once on each address and on no other, and at most one of its
\* listeners serves a target, but for a link-local one of several interfaces.
THEOREM ListensOnceHolds == Spec => []ListensOnce
<1>1. ListenInv => ListensOnce
    <2> SUFFICES ASSUME ListenInv, pc = "open" PROVE ListensOnce
        BY DEF ListensOnce
    <2> DEFINE r == Resolved(sc.bound, sc.ipVer)
    <2>1. sc.bound \in Seq(Bound) /\ ListenError(sc.bound, sc.ipVer) = None
        BY ScenarioAssumption DEF ListenInv
    <2>2. /\ r \in Seq(Addr) /\ SX!IsInjective(r)
          /\ SX!ToSet(r) = UNION {SX!ToSet(BoundAddrs(sc.bound[i], sc.ipVer)) : i \in DOMAIN sc.bound}
          /\ \A a \in SX!ToSet(r) : Zoned(a)
        BY <2>1, ResolvedIs
    <2>3. ~Mixed(r)
        <3> DEFINE failed == {i \in DOMAIN sc.bound : "iface" \in DOMAIN sc.bound[i] /\ IfaceError(sc.bound[i]) # "none"}
        <3>1. failed = {}
            <4> SUFFICES ASSUME failed # {} PROVE FALSE
                OBVIOUS
            <4> DEFINE i == CHOOSE i \in failed : \A j \in failed : i <= j
            <4>1. ListenError(sc.bound, sc.ipVer) = IfaceError(sc.bound[i])
                BY DEF ListenError
            <4>2. i \in failed
                <5>1. failed \in SUBSET Nat
                    BY <2>1, LenProperties
                <5> HIDE DEF failed
                <5>2. \E k \in failed : \A j \in failed : k <= j
                    BY <5>1, LeastNatural
                <5> QED BY <5>2
            <4> HIDE DEF i
            <4> QED BY <2>1, <4>1, <4>2 DEF None
        <3>2. ListenError(sc.bound, sc.ipVer) = IF Mixed(r) THEN "UnspecifiedWithSpecifiedAddresses"
                                                ELSE IF r = << >> THEN "NoSuitableAddressFound" ELSE "none"
            BY <3>1 DEF ListenError
        <3> HIDE DEF r
        <3> QED BY <2>1, <3>2 DEF None
    <2>4. ASSUME NEW l1 \in SX!ToSet(r), NEW l2 \in SX!ToSet(r),
                 Serves(l1, sc.target), Serves(l2, sc.target)
          PROVE  l1 = l2 \/ (l1.ip = l2.ip /\ l1.ip \in LinkLocal)
        <3> HIDE DEF r
        <3>1. l1 \in Addr /\ l2 \in Addr /\ Zoned(l1) /\ Zoned(l2)
            <4>1. DOMAIN r = 1..Len(r)
                BY <2>2, LenProperties
            <4>2. \A a \in SX!ToSet(r) : a \in Addr
                BY <2>2, <4>1, ElementOfSeq DEF SX!ToSet
            <4> QED BY <2>2, <4>2
        <3> DEFINE wild == IF sc.target.ip \in IPv4s THEN ZeroIP4 ELSE ZeroIP6
        <3>2. l1.port = l2.port /\ l1.ip \in {sc.target.ip, wild} /\ l2.ip \in {sc.target.ip, wild}
            BY <2>4 DEF Serves
        <3>3. l1.ip = l2.ip
            <4> SUFFICES ASSUME l1.ip # l2.ip PROVE FALSE
                OBVIOUS
            <4>1. Unspecified(wild)
                BY DEF Unspecified
            <4>2. ~(Unspecified(l1.ip) /\ ~Unspecified(l2.ip)) /\ ~(Unspecified(l2.ip) /\ ~Unspecified(l1.ip))
                BY <2>3, <2>4, <3>2 DEF Mixed
            <4>3. Unspecified(sc.target.ip)
                <5> HIDE DEF wild
                <5> QED BY <3>2, <4>1, <4>2
            <4>4. sc.target.ip = wild
                BY <4>3, ListenAssumption DEF Unspecified
            <4> QED BY <3>2, <4>4
        <3>4. CASE l1.ip \notin LinkLocal
            <4>1. l1.zone = 0 /\ l2.zone = 0
                BY <3>1, <3>3, <3>4 DEF Zoned
            <4>2. l1 = l2
                BY <3>1, <3>2, <3>3, <4>1 DEF Addr
            <4> QED BY <4>2
        <3>5. CASE l1.ip \in LinkLocal
            BY <3>3, <3>5
        <3> QED BY <3>4, <3>5
    <2>5. LET x == Resolved(sc.bound, sc.ipVer)
          IN  \A l1, l2 \in SX!ToSet(x) : Serves(l1, sc.target) /\ Serves(l2, sc.target) =>
                 l1 = l2 \/ (l1.ip = l2.ip /\ l1.ip \in LinkLocal)
        BY <2>4
    <2> HIDE DEF r
    <2> QED BY <2>2, <2>5 DEF ListensOnce, r
<1> QED BY <1>1, ListenInvariant, PTL

\* The server listens as it was told to, and its replies arrive.
THEOREM ListenersRightHolds == Spec => []ListenersRight
<1>1. ListensOnce /\ RepliesArrive => ListenersRight
    BY DEF ListenersRight
<1> QED BY <1>1, ListensOnceHolds, RepliesArriveHolds, PTL
=============================================================================
