---------------------------- MODULE ServerProofs ----------------------------
(***************************************************************************)
(* Proofs about Server.tla, for every value of its constants: all clocks,  *)
(* windows, limits and numbers of connections.                             *)
(***************************************************************************)
EXTENDS Server, Lemmas, FiniteSetTheorems

(***************************************************************************)
(* The inductive invariant.  Conn relates a stored connection to its       *)
(* history at time t; what outlives the connection is in Past.             *)
(***************************************************************************)

\* From any served request on, what was served and what is left in the bucket
\* was in the bucket or has been earned since.
Budget(sc, u) ==
    \A i \in 1..Len(u) :
        /\ u[i] <= sc.lastUsed
        /\ (Len(u) - i + 1) * MinInterval + sc.packetBucket
             <= BucketSize + (sc.lastUsed - u[i])

RatePairs(u) ==
    \A j \in 1..Len(u) : \A i \in 1..j :
        (j - i + 1) * MinInterval <= BucketSize + (u[j] - u[i])

BitsReceived(sc, received) ==
    \A k \in sc.receivedWindow : SeqSub(sc.lastSeqno, k) \in received

Conn(sc, h, t) ==
    /\ sc.lastUsed <= t /\ sc.firstUsed <= t
    /\ h.uses # << >> => sc.lastUsed # Never
    /\ h.uses = << >> => h.received = {}
    /\ BitsReceived(sc, h.received)
    /\ h.inOrder => WindowHolds(sc.receivedWindow, sc.lastSeqno, h.received) /\ \A s \in h.received : s <= sc.lastSeqno
    /\ Budget(sc, h.uses)

Past(h) ==
    /\ RatePairs(h.uses)
    /\ h.overtime <= 1
    /\ h.reports <= 1

IInv ==
    /\ TypeOK
    /\ \A ct \in Live : /\ Conn(sconns[ct], hist[ct], now)
                        /\ hist[ct].overtime = 0 /\ hist[ct].reports = 0
    /\ \A ct \in Token : Past(hist[ct])

-----------------------------------------------------------------------------
(* The token bucket                                                        *)

\* The burst, in units of time, is a number.
LEMMA BucketSizeType == BucketSize \in Nat /\ (MinInterval = 0 => BucketSize = 0)
BY SConnAssumption DEF BucketSize

\* What a request finds in the bucket.
LEMMA BucketBound ==
    ASSUME NEW sc \in Sconn, NEW t \in Nat, sc.lastUsed <= t
    PROVE  /\ Bucket(sc, t) \in 0..BucketSize
           /\ sc.lastUsed = Never => Bucket(sc, t) = sc.packetBucket
           /\ sc.lastUsed # Never => Bucket(sc, t) <= sc.packetBucket + (t - sc.lastUsed)
<1>1. /\ sc.packetBucket \in 0..BucketSize
      /\ sc.lastUsed \in Nat \cup {Never}
    BY DEF Sconn
<1> QED BY <1>1, BucketSizeType, SConnAssumption DEF Bucket, Earned, Never

\* What the provers need to know of a product.
LEMMA Times == ASSUME NEW n \in Int, NEW m \in Int
               PROVE  (n + 1) * m = n * m + m /\ n * m \in Int /\ 1 * m = m
OBVIOUS

\* A dropped request keeps the budget.
LEMMA BudgetShort ==
    ASSUME NEW sc \in Sconn, NEW t \in Nat, sc.lastUsed <= t,
           NEW u \in Seq(Nat), Budget(sc, u), u # << >> => sc.lastUsed # Never
    PROVE  Budget(ShortIntervalSconn(sc, t), u)
<1> DEFINE sc2 == ShortIntervalSconn(sc, t)
<1>1. sc2.lastUsed = t /\ sc2.packetBucket = Bucket(sc, t)
    BY DEF ShortIntervalSconn, Sconn
<1>2. sc.packetBucket \in Int /\ sc.lastUsed \in Int /\ BucketSize \in Int
    BY BucketSizeType DEF Sconn, Never
<1> SUFFICES ASSUME NEW i \in 1..Len(u)
             PROVE  /\ u[i] <= t
                    /\ (Len(u) - i + 1) * MinInterval + Bucket(sc, t)
                         <= BucketSize + (t - u[i])
    BY <1>1 DEF Budget
<1> DEFINE c == (Len(u) - i + 1) * MinInterval
<1>3. /\ u[i] \in Int /\ c \in Int
    BY SConnAssumption
<1>4. u[i] <= sc.lastUsed /\ c + sc.packetBucket <= BucketSize + (sc.lastUsed - u[i])
    BY DEF Budget
<1>5. sc.lastUsed # Never
    <2>1. u # << >>
        OBVIOUS
    <2> QED BY <2>1
<1>6. /\ Bucket(sc, t) \in Int
      /\ Bucket(sc, t) <= sc.packetBucket + (t - sc.lastUsed)
    BY <1>5, BucketBound, BucketSizeType
<1> HIDE DEF c
<1>7. u[i] <= t /\ c + Bucket(sc, t) <= BucketSize + (t - u[i])
    <2> DEFINE x == u[i]
               q == Bucket(sc, t)
               p == sc.packetBucket
               l == sc.lastUsed
               z == BucketSize
    <2>1. x \in Int /\ q \in Int /\ p \in Int /\ l \in Int /\ z \in Int
        BY <1>2, <1>3, <1>6
    <2>2. x <= l
        BY <1>4
    <2>3. c + p <= z + (l - x)
        BY <1>4
    <2>4. q <= p + (t - l)
        BY <1>6
    <2>5. l <= t
        OBVIOUS
    <2> HIDE DEF x, q, p, l, z
    <2>6. x <= t /\ c + q <= z + (t - x)
        BY <1>3, <2>1, <2>2, <2>3, <2>4, <2>5
    <2> QED BY <2>6 DEF x, q, z
<1> QED BY <1>7 DEF c

\* A served request keeps it, and enters the history within it.
LEMMA BudgetServed ==
    ASSUME NEW sc \in Sconn, NEW t \in Nat, sc.lastUsed <= t, NEW seqno,
           NEW u \in Seq(Nat), Budget(sc, u), u # << >> => sc.lastUsed # Never,
           ~ShortInterval(sc, t)
    PROVE  Budget(ServedSconn(sc, seqno, t), Append(u, t))
<1> DEFINE sc2 == ServedSconn(sc, seqno, t)
           v   == Append(u, t)
           b   == Bucket(sc, t)
<1>1. sc2.lastUsed = t /\ sc2.packetBucket = b - MinInterval
    BY DEF ServedSconn, Sconn
<1>2. /\ sc.packetBucket \in Int /\ sc.lastUsed \in Int /\ BucketSize \in Int
      /\ MinInterval \in Int
    BY BucketSizeType, SConnAssumption DEF Sconn, Never
<1>3. b \in Int /\ b <= BucketSize
    BY BucketBound, BucketSizeType
<1>4. Len(v) = Len(u) + 1 /\ Len(u) \in Nat
    OBVIOUS
<1> SUFFICES ASSUME NEW i \in 1..Len(v)
             PROVE  /\ v[i] <= t
                    /\ (Len(v) - i + 1) * MinInterval + (b - MinInterval)
                         <= BucketSize + (t - v[i])
    BY <1>1 DEF Budget
<1> DEFINE e == (Len(v) - i + 1) * MinInterval
<1>5. CASE i = Len(v)
    <2>1. v[i] = t /\ Len(v) - i + 1 = 1
        BY <1>4, <1>5
    <2>2. (Len(v) - i + 1) * MinInterval = MinInterval
        BY <1>2, <2>1, Times
    <2> HIDE DEF v, b, e
    <2>3. e = MinInterval
        BY <2>2 DEF e
    <2>4. v[i] <= t /\ e + (b - MinInterval) <= BucketSize + (t - v[i])
        BY <1>2, <1>3, <2>1, <2>3
    <2> QED BY <2>4 DEF e
<1>6. CASE i # Len(v)
    <2> DEFINE n == Len(u) - i + 1
               c == n * MinInterval
    <2>1. i \in 1..Len(u) /\ v[i] = u[i] /\ n \in Int /\ Len(v) - i + 1 = n + 1
        BY <1>4, <1>6
    <2>2. c \in Int /\ (Len(v) - i + 1) * MinInterval = c + MinInterval
        BY <1>2, <2>1, Times
    <2>3. u[i] <= sc.lastUsed /\ c + sc.packetBucket <= BucketSize + (sc.lastUsed - u[i])
        BY <2>1 DEF Budget
    <2>4. sc.lastUsed # Never
        <3>1. u # << >>
            BY <2>1
        <3> QED BY <3>1
    <2>5. b <= sc.packetBucket + (t - sc.lastUsed)
        BY <2>4, BucketBound
    <2>6. u[i] \in Int
        BY <2>1
    <2> HIDE DEF v, b, c, n, e
    <2>7. e = c + MinInterval
        BY <2>2 DEF e
    <2>8. v[i] <= t /\ c + b <= BucketSize + (t - v[i])
        <3> DEFINE x == u[i]
                   p == sc.packetBucket
                   l == sc.lastUsed
                   z == BucketSize
        <3>1. x \in Int /\ p \in Int /\ l \in Int /\ z \in Int
            BY <1>2, <2>6
        <3>2. x <= l /\ c + p <= z + (l - x)
            BY <2>3
        <3>3. b <= p + (t - l)
            BY <2>5
        <3>4. l <= t
            OBVIOUS
        <3> HIDE DEF x, p, l, z
        <3>5. x <= t /\ c + b <= z + (t - x)
            BY <1>3, <2>2, <3>1, <3>2, <3>3, <3>4
        <3> QED BY <2>1, <3>5 DEF x, z
    <2>9. e + (b - MinInterval) = c + b
        BY <1>2, <1>3, <2>2, <2>7
    <2> QED BY <2>8, <2>9 DEF e
<1> QED BY <1>5, <1>6

\* The request just served keeps the limit with every one before it.
LEMMA PairsServed ==
    ASSUME NEW sc \in Sconn, NEW t \in Nat, NEW u \in Seq(Nat), RatePairs(u),
           Budget(sc, Append(u, t)), sc.lastUsed = t
    PROVE  RatePairs(Append(u, t))
<1> DEFINE v == Append(u, t)
<1>1. Len(v) = Len(u) + 1 /\ Len(u) \in Nat
    OBVIOUS
<1> SUFFICES ASSUME NEW j \in 1..Len(v), NEW i \in 1..j
             PROVE  (j - i + 1) * MinInterval <= BucketSize + (v[j] - v[i])
    BY DEF RatePairs
<1>2. CASE j = Len(v)
    <2> DEFINE c == (j - i + 1) * MinInterval
    <2>1. i \in 1..Len(v) /\ v[j] = t /\ v[i] \in Int
        BY <1>1, <1>2
    <2>2. c + sc.packetBucket <= BucketSize + (t - v[i])
        BY <1>2, <2>1 DEF Budget
    <2>3. c \in Int /\ sc.packetBucket \in Nat /\ BucketSize \in Int
        BY BucketSizeType, SConnAssumption DEF Sconn
    <2> HIDE DEF c, v
    <2>4. c <= BucketSize + (v[j] - v[i])
        BY <2>1, <2>2, <2>3
    <2> QED BY <2>4 DEF c
<1>3. CASE j # Len(v)
    <2>1. j \in 1..Len(u) /\ v[j] = u[j] /\ v[i] = u[i]
        BY <1>1, <1>3
    <2> HIDE DEF v
    <2> QED BY <2>1 DEF RatePairs
<1> QED BY <1>2, <1>3

-----------------------------------------------------------------------------
(* One connection                                                          *)

\* The fields of a history.
LEMMA HistoryFields ==
    ASSUME NEW h \in History
    PROVE  /\ h.uses \in Seq(Nat) /\ h.received \in SUBSET Seqno
           /\ h.overtime \in Nat /\ h.reports \in Nat /\ h.inOrder \in BOOLEAN
<1>1. h.inOrder \in BOOLEAN
    BY Zenon DEF History
<1>2. h.uses \in Seq(Nat) /\ h.received \in SUBSET Seqno
    BY DEF History
<1>3. h.overtime \in Nat
    BY Zenon DEF History
<1>4. h.reports \in Nat
    BY Zenon DEF History
<1> QED BY <1>1, <1>2, <1>3, <1>4

\* A connection just opened is a good one (newSconn).
LEMMA NewConn ==
    ASSUME NEW addr \in Addr, NEW params \in OpenParams, NEW t \in Nat
    PROVE  /\ NewSconn(addr, RestrictParams(params), t) \in Sconn
           /\ Conn(NewSconn(addr, RestrictParams(params), t), NoHistory, t)
<1>1. RestrictParams(params) \in Params
    <2>1. params \in Params
        BY ServerAssumption
    <2>2. Timeout \div IntervalFactor \in Nat
        BY SConnAssumption
    <2> QED BY <2>1, <2>2, SConnAssumption DEF RestrictParams, Params
<1>2. InvalidSeqno \in Seqno
    BY WindowAssumption DEF InvalidSeqno, Seqno
<1>3. BucketSize \in 0..BucketSize
    BY BucketSizeType
<1>4. NewSconn(addr, RestrictParams(params), t) \in Sconn
    BY <1>1, <1>2, <1>3 DEF NewSconn, Sconn, ReceivedWindow, Never
<1>5. Conn(NewSconn(addr, RestrictParams(params), t), NoHistory, t)
    BY DEF NewSconn, NoHistory, Conn, BitsReceived, WindowHolds, Budget, Never
<1> QED BY <1>4, <1>5

\* A request dropped by the minimum interval leaves a good connection good.
LEMMA ShortConn ==
    ASSUME NEW sc \in Sconn, NEW h \in History, NEW t \in Nat, Conn(sc, h, t)
    PROVE  /\ ShortIntervalSconn(sc, t) \in Sconn
           /\ Conn(ShortIntervalSconn(sc, t), h, t)
<1> DEFINE sc2 == ShortIntervalSconn(sc, t)
<1>1. sc.lastUsed <= t /\ sc.firstUsed <= t
    BY DEF Conn
<1>2. Bucket(sc, t) \in 0..BucketSize
    BY <1>1, BucketBound
<1>3. FirstUsed(sc, t) \in Nat /\ FirstUsed(sc, t) <= t
    BY <1>1 DEF FirstUsed, Sconn
<1>4. sc2 \in Sconn
    BY <1>2, <1>3 DEF ShortIntervalSconn, Sconn
<1>5. Budget(sc2, h.uses)
    <2>1. h.uses \in Seq(Nat)
        BY HistoryFields
    <2> QED BY <1>1, <2>1, BudgetShort DEF Conn
<1>6. /\ sc2.lastUsed = t /\ sc2.firstUsed = FirstUsed(sc, t)
      /\ sc2.receivedWindow = sc.receivedWindow /\ sc2.lastSeqno = sc.lastSeqno
    BY DEF ShortIntervalSconn
<1>7. t # Never
    BY DEF Never
<1>8. sc2.lastUsed <= t /\ sc2.firstUsed <= t
    BY <1>3, <1>6
<1>9. BitsReceived(sc2, h.received)
    BY <1>6 DEF Conn, BitsReceived
<1>10. h.inOrder => WindowHolds(sc2.receivedWindow, sc2.lastSeqno, h.received)
                    /\ \A s \in h.received : s <= sc2.lastSeqno
    BY <1>6 DEF Conn, WindowHolds
<1>11. Conn(sc2, h, t)
    <2> HIDE DEF sc2
    <2> QED BY <1>5, <1>6, <1>7, <1>8, <1>9, <1>10 DEF Conn
<1> QED BY <1>4, <1>11

\* The part of the history that Serve adds to a connection's.
Served(sc, h, seqno, t, n) ==
    [uses     |-> Append(h.uses, t),
     received |-> h.received \cup {seqno},
     inOrder  |-> h.inOrder /\ (h.uses = << >> \/ seqno >= sc.lastSeqno),
     overtime |-> n,
     reports  |-> h.reports]

\* So does a request that is served.
LEMMA ServedConn ==
    ASSUME NEW sc \in Sconn, NEW h \in History, NEW t \in Nat, Conn(sc, h, t),
           NEW seqno \in Seqno, NEW n \in Nat, ~ShortInterval(sc, t),
           RatePairs(h.uses)
    PROVE  LET sc2 == ServedSconn(sc, seqno, t)
               h2  == Served(sc, h, seqno, t, n)
           IN  /\ sc2 \in Sconn /\ h2 \in History
               /\ Conn(sc2, h2, t)
               /\ RatePairs(h2.uses)
<1> DEFINE sc2 == ServedSconn(sc, seqno, t)
           h2  == Served(sc, h, seqno, t, n)
           u   == h.uses
           v   == Append(u, t)
<1>1. sc.lastUsed <= t /\ sc.firstUsed <= t
    BY DEF Conn
<1>2. Bucket(sc, t) - MinInterval \in 0..BucketSize
    BY <1>1, BucketBound, BucketSizeType, SConnAssumption DEF ShortInterval
<1>3. FirstUsed(sc, t) \in Nat /\ FirstUsed(sc, t) <= t
    BY <1>1 DEF FirstUsed, Sconn
<1>4. SlideWindow(sc.receivedWindow, sc.lastSeqno, seqno) \in ReceivedWindow
    BY SlideType
<1>5. sc2 \in Sconn
    BY <1>2, <1>3, <1>4 DEF ServedSconn, Sconn
<1>6. u \in Seq(Nat) /\ v \in Seq(Nat) /\ v # << >>
      /\ h.received \in SUBSET Seqno
    BY HistoryFields
<1>7. h2 \in History
    BY <1>6, HistoryFields DEF Served, History
<1>8. /\ sc2.lastUsed = t /\ sc2.firstUsed = FirstUsed(sc, t) /\ sc2.lastSeqno = seqno
      /\ sc2.receivedWindow = SlideWindow(sc.receivedWindow, sc.lastSeqno, seqno)
    BY DEF ServedSconn
<1>9. /\ h2.uses = v /\ h2.received = h.received \cup {seqno}
      /\ h2.inOrder = (h.inOrder /\ (u = << >> \/ seqno >= sc.lastSeqno))
    BY DEF Served
<1>10. Budget(sc2, v)
    BY <1>1, <1>6, BudgetServed DEF Conn
<1>11. RatePairs(v)
    BY <1>5, <1>6, <1>8, <1>10, PairsServed
<1>12. BitsReceived(sc2, h2.received)
    <2>1. sc.receivedWindow \in ReceivedWindow /\ sc.lastSeqno \in Seqno
        BY DEF Sconn
    <2>2. \A k \in sc.receivedWindow : SeqSub(sc.lastSeqno, k) \in h.received
        BY DEF Conn, BitsReceived
    <2> QED BY <1>8, <1>9, <2>1, <2>2, SlideSound DEF BitsReceived
<1>13. ASSUME h2.inOrder
       PROVE  WindowHolds(sc2.receivedWindow, sc2.lastSeqno, h2.received) /\ \A s \in h2.received : s <= seqno
    <2>1. sc.receivedWindow \in ReceivedWindow /\ sc.lastSeqno \in Seqno
        BY DEF Sconn
    <2>2. CASE u = << >>
        <3>1. h2.received = {seqno}
            BY <1>9, <2>2 DEF Conn
        <3>2. seqno - seqno = 0 /\ seqno <= seqno
            BY DEF Seqno
        <3>3. 0 \in sc2.receivedWindow
            BY <1>8 DEF SlideWindow
        <3> HIDE DEF sc2, h2
        <3> QED BY <1>8, <3>1, <3>2, <3>3 DEF WindowHolds
    <2>3. CASE u # << >>
        <3>1. h.inOrder /\ seqno >= sc.lastSeqno
            BY <1>9, <1>13, <2>3
        <3>2. \A s \in h.received :
                 s <= sc.lastSeqno
                 /\ (sc.lastSeqno - s < WindowBits => sc.lastSeqno - s \in sc.receivedWindow)
            BY <3>1 DEF Conn, WindowHolds
        <3>3. \A s \in h.received \cup {seqno} :
                 s <= seqno
                 /\ (seqno - s < WindowBits
                       => seqno - s \in SlideWindow(sc.receivedWindow, sc.lastSeqno, seqno))
            BY <1>6, <2>1, <3>1, <3>2, SlideHolds
        <3> HIDE DEF sc2, h2
        <3> QED BY <1>8, <1>9, <3>3 DEF WindowHolds
    <2> QED BY <2>2, <2>3
<1>14. sc2.lastUsed # Never /\ sc2.lastUsed <= t /\ sc2.firstUsed <= t
    BY <1>3, <1>8 DEF Never
<1>15. Conn(sc2, h2, t)
    <2> HIDE DEF sc2, h2, v
    <2> QED BY <1>6, <1>8, <1>9, <1>10, <1>12, <1>13, <1>14 DEF Conn
<1> HIDE DEF sc2, h2, v
<1>16. RatePairs(h2.uses)
    BY <1>9, <1>11
<1> QED BY <1>5, <1>7, <1>15, <1>16 DEF sc2, h2

-----------------------------------------------------------------------------
(* The steps of the listener                                               *)

\* get, an update of the sconn and remove leave every other connection alone.
LEMMA StoreFrame ==
    ASSUME TypeOK, NEW ct \in Live, NEW sc \in Sconn, NEW closed,
           Store(ct, sc, closed)
    PROVE  /\ DOMAIN sconns' \subseteq Live
           /\ sconns' \in [DOMAIN sconns' -> Sconn]
           /\ \A c \in DOMAIN sconns' : sconns'[c] = IF c = ct THEN sc ELSE sconns[c]
           /\ closed => ct \notin DOMAIN sconns'
           /\ ~closed => ct \in DOMAIN sconns' \/ Expired(sconns[ct], now)
           /\ Expired(sconns[ct], now) => ct \notin DOMAIN sconns'
<1> DEFINE left == IF closed THEN Live \ {ct} ELSE Got(ct)
<1>1. sconns' = [c \in left |-> IF c = ct THEN sc ELSE sconns[c]]
    BY DEF Store
<1>2. left \subseteq Live /\ DOMAIN sconns' = left
    BY <1>1 DEF Got
<1>3. \A c \in left : (IF c = ct THEN sc ELSE sconns[c]) \in Sconn
    BY <1>2 DEF TypeOK
<1>4. /\ closed => ct \notin left
      /\ ~closed => ct \in left \/ Expired(sconns[ct], now)
      /\ Expired(sconns[ct], now) => ct \notin left
    BY DEF Got, ExpiredTokens
<1> HIDE DEF left
<1> QED BY <1>1, <1>2, <1>3, <1>4

\* A listener that starts has no connection.
LEMMA InitIInv == Init => IInv
<1> SUFFICES ASSUME Init PROVE IInv
    OBVIOUS
<1>1. NoHistory \in History /\ Past(NoHistory)
    BY DEF NoHistory, History, Past, RatePairs
<1>2. Live = {}
    BY DEF Init, Live
<1>3. TypeOK
    BY <1>1, <1>2 DEF Init, TypeOK, NoReply, Live
<1> QED BY <1>1, <1>2, <1>3 DEF Init, IInv

\* Every handler preserves the invariant.
LEMMA NextIInv == IInv /\ [Next]_vars => IInv'
<1> SUFFICES ASSUME IInv, [Next]_vars PROVE IInv'
    OBVIOUS
<1> USE DEF Live
<1>1. TypeOK /\ now \in Nat
    BY DEF IInv, TypeOK
<1>2. ASSUME NEW ct \in Live
      PROVE  /\ ct \in Token /\ sconns[ct] \in Sconn /\ hist[ct] \in History
             /\ Conn(sconns[ct], hist[ct], now)
             /\ hist[ct].overtime = 0 /\ hist[ct].reports = 0
             /\ RatePairs(hist[ct].uses)
    BY <1>2 DEF IInv, TypeOK, Past
<1>3. ASSUME NEW addr \in Addr, NEW params \in OpenParams, NEW S \in Looked,
             NEW ct \in Token, Accept(addr, params, S, ct)
      PROVE  IInv'
    <2> DEFINE sc == NewSconn(addr, RestrictParams(params), now)
    <2>1. /\ sconns' = [c \in Swept(S) \cup {ct} |-> IF c = ct THEN sc ELSE sconns[c]]
          /\ hist' = [hist EXCEPT ![ct] = NoHistory] /\ now' = now
          /\ Swept(S) \subseteq Live /\ ct \notin Swept(S)
          /\ out'.kind \in {"none", "open", "echo"}
        BY <1>3 DEF Accept, Swept, Send, NoReply, OpenReply
    <2>2. sc \in Sconn /\ Conn(sc, NoHistory, now)
        BY <1>1, NewConn
    <2>3. NoHistory \in History /\ Past(NoHistory)
          /\ NoHistory.overtime = 0 /\ NoHistory.reports = 0
        BY DEF NoHistory, History, Past, RatePairs
    <2> HIDE DEF sc
    <2>4. DOMAIN sconns' = Swept(S) \cup {ct}
        BY <2>1
    <2>5. TypeOK'
        <3>1. sconns' \in [DOMAIN sconns' -> Sconn]
            BY <1>2, <2>1, <2>2, <2>4
        <3>2. hist' \in [Token -> History]
            BY <1>1, <2>1, <2>3 DEF TypeOK
        <3> QED BY <1>1, <2>1, <2>4, <3>1, <3>2 DEF TypeOK
    <2>6. ASSUME NEW c \in DOMAIN sconns'
          PROVE  /\ Conn(sconns'[c], hist'[c], now')
                 /\ hist'[c].overtime = 0 /\ hist'[c].reports = 0
        <3>1. CASE c = ct
            BY <1>1, <2>1, <2>2, <2>3, <2>4, <3>1 DEF TypeOK
        <3>2. CASE c # ct
            <4>1. c \in Live /\ sconns'[c] = sconns[c] /\ hist'[c] = hist[c]
                BY <1>1, <2>1, <2>4, <3>2 DEF TypeOK
            <4> QED BY <1>2, <2>1, <4>1
        <3> QED BY <3>1, <3>2
    <2>7. \A c \in Token : Past(hist'[c])
        BY <1>1, <2>1, <2>3 DEF IInv, TypeOK
    <2> QED BY <2>5, <2>6, <2>7 DEF IInv
<1>4. ASSUME UNCHANGED <<now, sconns, hist>>, out'.kind \in {"none", "open", "echo"}
      PROVE  IInv'
    BY <1>4 DEF IInv, TypeOK
<1>5. ASSUME NEW ct \in Live, NEW sc \in Sconn, Conn(sc, hist[ct], now),
             NEW closed \in BOOLEAN,
             Store(ct, sc, closed), out' = NoReply, UNCHANGED <<now, hist>>
      PROVE  IInv'
    <2>1. /\ DOMAIN sconns' \subseteq Live
          /\ sconns' \in [DOMAIN sconns' -> Sconn]
          /\ \A c \in DOMAIN sconns' : sconns'[c] = IF c = ct THEN sc ELSE sconns[c]
        BY <1>1, <1>5, StoreFrame
    <2>2. TypeOK'
        BY <1>1, <1>5, <2>1 DEF TypeOK, NoReply
    <2>3. \A c \in DOMAIN sconns' : /\ Conn(sconns'[c], hist'[c], now')
                                    /\ hist'[c].overtime = 0 /\ hist'[c].reports = 0
        BY <1>2, <1>5, <2>1
    <2> QED BY <1>5, <2>2, <2>3 DEF IInv
<1>6. ASSUME NEW ct \in Token, NEW addr \in Addr, NEW length \in RequestLength,
             Refuse(ct, addr, length)
      PROVE  IInv'
    BY <1>2, <1>5, <1>6 DEF Refuse
<1>7. ASSUME NEW ct \in Token, NEW length \in RequestLength,
             DropShortInterval(ct, length)
      PROVE  IInv'
    BY <1>1, <1>2, <1>5, <1>7, ShortConn DEF DropShortInterval
<1>8. ASSUME NEW ct \in Token, NEW length \in RequestLength, NEW seqno \in RequestSeqno,
             Serve(ct, length, seqno)
      PROVE  IInv'
    <2> DEFINE sc     == sconns[ct]
               sc2    == ServedSconn(sc, seqno, now)
               closed == DurationExceeded(sc2, now)
               over   == Expired(sc, now) \/ closed
               n      == IF over THEN hist[ct].overtime + 1 ELSE hist[ct].overtime
               h2     == Served(sc, hist[ct], seqno, now, n)
    <2>1. /\ ct \in Live /\ ~ShortInterval(sc, now) /\ Store(ct, sc2, closed)
          /\ hist' = [hist EXCEPT ![ct] = h2] /\ now' = now
          /\ out'.kind \in {"none", "open", "echo"}
        BY <1>8 DEF Serve, Served, Send, NoReply, EchoReply
    <2>2. seqno \in Seqno
        BY ServerAssumption
    <2>3. n \in Nat /\ n <= 1 /\ (~over => n = 0)
        BY <1>2, <2>1
    <2>4. sc2 \in Sconn /\ h2 \in History /\ Conn(sc2, h2, now) /\ RatePairs(h2.uses)
        BY <1>1, <1>2, <2>1, <2>2, <2>3, ServedConn
    <2>5. h2.overtime = n /\ h2.reports = 0
        BY <1>2, <2>1 DEF Served
    <2>6. /\ DOMAIN sconns' \subseteq Live
          /\ sconns' \in [DOMAIN sconns' -> Sconn]
          /\ \A c \in DOMAIN sconns' : sconns'[c] = IF c = ct THEN sc2 ELSE sconns[c]
          /\ over => ct \notin DOMAIN sconns'
        BY <1>1, <2>1, <2>4, StoreFrame
    <2> HIDE DEF sc2, h2, closed, over, n
    <2>7. hist' \in [Token -> History]
          /\ \A c \in Token : hist'[c] = IF c = ct THEN h2 ELSE hist[c]
        BY <1>1, <2>1, <2>4 DEF TypeOK
    <2>8. TypeOK'
        BY <1>1, <2>1, <2>6, <2>7 DEF TypeOK
    <2>9. ASSUME NEW c \in DOMAIN sconns'
          PROVE  /\ Conn(sconns'[c], hist'[c], now')
                 /\ hist'[c].overtime = 0 /\ hist'[c].reports = 0
        <3>1. c \in Token
            BY <1>2, <2>6
        <3>2. CASE c = ct
            BY <2>1, <2>3, <2>4, <2>5, <2>6, <2>7, <3>1, <3>2
        <3>3. CASE c # ct
            BY <1>2, <2>1, <2>6, <2>7, <3>1, <3>3
        <3> QED BY <3>2, <3>3
    <2>10. \A c \in Token : Past(hist'[c])
        <3>1. Past(h2)
            BY <2>3, <2>4, <2>5 DEF Past
        <3> QED BY <2>7, <3>1 DEF IInv
    <2> QED BY <2>8, <2>9, <2>10 DEF IInv
<1>9. ASSUME NEW ct \in Token, Close(ct)
      PROVE  IInv'
    <2> DEFINE h2 == [hist[ct] EXCEPT !.reports = @ + 1]
    <2>1. /\ ct \in Live /\ Store(ct, sconns[ct], TRUE) /\ out' = NoReply /\ now' = now
          /\ \/ hist' = [hist EXCEPT ![ct] = h2]
             \/ hist' = hist
        BY <1>9 DEF Close
    <2>2. CASE hist' = hist
        BY <1>2, <1>5, <2>1, <2>2
    <2>3. CASE hist' = [hist EXCEPT ![ct] = h2]
        <3>1. hist[ct] \in History /\ hist[ct].reports = 0
            BY <1>2, <2>1
        <3>2. /\ h2 \in History /\ h2.uses = hist[ct].uses
              /\ h2.overtime = hist[ct].overtime /\ h2.reports = 1
            BY <3>1, HistoryFields DEF History
        <3>3. Past(h2)
            BY <1>2, <2>1, <3>2 DEF Past
        <3>4. /\ DOMAIN sconns' \subseteq Live /\ ct \notin DOMAIN sconns'
              /\ sconns' \in [DOMAIN sconns' -> Sconn]
              /\ \A c \in DOMAIN sconns' : sconns'[c] = sconns[c]
            BY <1>1, <1>2, <2>1, StoreFrame
        <3> HIDE DEF h2
        <3>5. hist' \in [Token -> History]
              /\ \A c \in Token : hist'[c] = IF c = ct THEN h2 ELSE hist[c]
            BY <1>1, <2>3, <3>2 DEF TypeOK
        <3>6. TypeOK'
            BY <1>1, <2>1, <3>4, <3>5 DEF TypeOK, NoReply
        <3>7. \A c \in DOMAIN sconns' : /\ Conn(sconns'[c], hist'[c], now')
                                        /\ hist'[c].overtime = 0 /\ hist'[c].reports = 0
            BY <1>2, <2>1, <3>4, <3>5
        <3>8. \A c \in Token : Past(hist'[c])
            BY <3>3, <3>5 DEF IInv
        <3> QED BY <3>6, <3>7, <3>8 DEF IInv
    <2> QED BY <2>1, <2>2, <2>3
<1>10. CASE Tick
    <2>1. now' = now + 1 /\ out' = NoReply /\ sconns' = sconns /\ hist' = hist
        BY <1>10 DEF Tick
    <2>2. TypeOK'
        BY <1>1, <2>1 DEF TypeOK, NoReply
    <2>3. ASSUME NEW ct \in Live
          PROVE  Conn(sconns[ct], hist[ct], now + 1)
        <3>1. sconns[ct].lastUsed \in Int /\ sconns[ct].firstUsed \in Int
            BY <1>2 DEF Sconn, Never
        <3>2. Conn(sconns[ct], hist[ct], now)
            BY <1>2
        <3> QED BY <1>1, <3>1, <3>2 DEF Conn
    <2> QED BY <1>2, <2>1, <2>2, <2>3 DEF IInv
<1>11. CASE UNCHANGED vars
    BY <1>1, <1>4, <1>11 DEF vars, TypeOK
<1>12. CASE Open
    <2>1. ASSUME NEW addr \in Addr, NEW params \in OpenParams, AcceptClose(addr, params)
          PROVE  IInv'
        BY <1>4, <2>1 DEF AcceptClose, Send, OpenReply, NoReply
    <2> QED BY <1>3, <1>12, <2>1 DEF Open
<1>13. CASE Request
    <2>1. ASSUME NEW ct \in Token, InvalidToken(ct)
          PROVE  IInv'
        BY <1>4, <2>1 DEF InvalidToken, NoReply
    <2> QED BY <1>6, <1>7, <1>8, <1>9, <1>13, <2>1 DEF Request
<1> QED BY <1>10, <1>11, <1>12, <1>13 DEF Next

\* IInv is an invariant of the listener.
LEMMA Invariant == Spec => []IInv
BY InitIInv, NextIInv, PTL DEF Spec

-----------------------------------------------------------------------------
(* Theorems                                                                *)

\* The types of the listener's state; the token bucket stays between 0 and
\* the burst (newSconn, serveEcho, serveNoEcho).
THEOREM TypeCorrect == Spec => []TypeOK
<1>1. IInv => TypeOK
    BY DEF IInv
<1> QED BY <1>1, Invariant, PTL

\* A bit of the received window never stands for a seqno that was not
\* received, for any width of seqno and window and any order of requests.
THEOREM WindowIsSound == Spec => []WindowSound
<1>1. IInv => WindowSound
    BY DEF IInv, Conn, BitsReceived, WindowSound
<1> QED BY <1>1, Invariant, PTL

\* In-order requests leave no gap in the received window.
THEOREM WindowIsComplete == Spec => []WindowCompleteInOrder
<1>1. IInv => WindowCompleteInOrder
    BY DEF IInv, Conn, WindowCompleteInOrder
<1> QED BY <1>1, Invariant, PTL

\* The minimum interval and burst of the server hold between any two requests
\* served on a connection (the token bucket of serveEcho and serveNoEcho).
THEOREM RateIsLimited == Spec => []RateLimit
<1>1. IInv => RateLimit
    BY DEF IInv, Past, RatePairs, RateLimit
<1> QED BY <1>1, Invariant, PTL

\* At most one request is served past the idle timeout or duration limit.
THEOREM ServedOnceOvertime == Spec => []OvertimeOnce
<1>1. IInv => OvertimeOnce
    BY DEF IInv, Past, OvertimeOnce
<1> QED BY <1>1, Invariant, PTL

\* A one-way result is printed once at most.
THEOREM ResultReportedOnce == Spec => []ReportedOnce
<1>1. IInv => ReportedOnce
    BY DEF IInv, Past, ReportedOnce
<1> QED BY <1>1, Invariant, PTL

-----------------------------------------------------------------------------
(* The sweep of the table when a connection is opened                      *)

\* The table is finite: a handler adds one connection at most.
LEMMA FiniteLive == Spec => []IsFiniteSet(Live)
<1>1. Init => IsFiniteSet(Live)
    BY FS_EmptySet DEF Init, Live
<1>2. IInv /\ IsFiniteSet(Live) /\ [Next]_vars => IsFiniteSet(Live)'
    <2> SUFFICES ASSUME IInv, IsFiniteSet(Live), [Next]_vars
                 PROVE  IsFiniteSet(Live)'
        OBVIOUS
    <2>1. ASSUME NEW S, NEW ct, DOMAIN sconns' = Swept(S) \cup {ct}
          PROVE  IsFiniteSet(Live)'
        <3>1. IsFiniteSet(Swept(S))
            BY FS_Subset DEF Swept
        <3> QED BY <2>1, <3>1, FS_AddElement DEF Live
    <2>2. ASSUME DOMAIN sconns' \subseteq DOMAIN sconns
          PROVE  IsFiniteSet(Live)'
        BY <2>2, FS_Subset DEF Live
    <2>3. ASSUME NEW ct, NEW sc, NEW closed, Store(ct, sc, closed)
          PROVE  IsFiniteSet(Live)'
        BY <2>2, <2>3 DEF Store, Got, Live
    <2>4. CASE Open
        BY <2>1, <2>2, <2>4 DEF Open, Accept, AcceptClose, Live
    <2>5. CASE Request
        BY <2>2, <2>3, <2>5 DEF Request, InvalidToken, Refuse, DropShortInterval,
                                Serve, Close
    <2>6. CASE Tick \/ UNCHANGED vars
        BY <2>2, <2>6 DEF Tick, vars
    <2> QED BY <2>4, <2>5, <2>6 DEF Next
<1> QED BY <1>1, <1>2, Invariant, PTL DEF Spec

\* With no more connections than removeSomeExpired looks at, opening one
\* leaves no expired connection behind.
THEOREM OpenSweepsExpired == Spec => OpenSweeps
<1> DEFINE P == Opened /\ Cardinality(Live) <= CheckExpiredCount
                  => \A ct \in DOMAIN sconns' : ~Expired(sconns'[ct], now)
<1>1. IInv /\ IsFiniteSet(Live) /\ [Next]_vars => [P]_vars
    <2> SUFFICES ASSUME IInv, IsFiniteSet(Live), [Next]_vars, Opened,
                        Cardinality(Live) <= CheckExpiredCount,
                        NEW c \in DOMAIN sconns'
                 PROVE  ~Expired(sconns'[c], now)
        OBVIOUS
    <2>1. PICK addr \in Addr, params \in OpenParams, S \in Looked, ct \in Token :
             Accept(addr, params, S, ct)
        BY DEF Next, Open, Request, AcceptClose, InvalidToken, Refuse,
               DropShortInterval, Serve, Close, Tick, Store, Got, vars, Opened, Live
    <2>2. S = Live
        <3>1. Cardinality(Live) \in Nat
            BY FS_CardinalityType
        <3>2. CASE Cardinality(S) = CheckExpiredCount
            <4>1. Cardinality(S) <= Cardinality(Live)
                BY FS_Subset DEF Looked
            <4>2. Cardinality(S) = Cardinality(Live)
                BY <3>1, <3>2, <4>1, ServerAssumption
            <4> QED BY <4>2, FS_Subset DEF Looked
        <3> QED BY <3>2 DEF Looked
    <2>3. sconns' = [d \in Swept(S) \cup {ct} |->
                       IF d = ct THEN NewSconn(addr, RestrictParams(params), now)
                       ELSE sconns[d]]
        BY <2>1 DEF Accept
    <2>4. CASE c = ct
        BY <2>3, <2>4 DEF NewSconn, Expired
    <2>5. CASE c # ct
        BY <2>2, <2>3, <2>5 DEF Swept, ExpiredTokens
    <2> QED BY <2>4, <2>5
<1> QED BY <1>1, Invariant, FiniteLive, PTL DEF Spec, OpenSweeps

-----------------------------------------------------------------------------
(* What a request does to the connection it is for                         *)

\* A connection that outlived its timeout is not stored after its next
\* request (get of connmgr).
THEOREM NoConnIsRevived == Spec => NeverRevived
<1> DEFINE P == \A ct \in Live \cap DOMAIN sconns' :
                  /\ sconns[ct].lastUsed # Never
                  /\ sconns'[ct].lastUsed > sconns[ct].lastUsed
                  => ~Expired(sconns[ct], now)
<1>1. IInv /\ [Next]_vars => [P]_vars
    <2> SUFFICES ASSUME IInv, [Next]_vars, NEW c \in Live \cap DOMAIN sconns',
                        sconns'[c].lastUsed > sconns[c].lastUsed,
                        Expired(sconns[c], now)
                 PROVE  FALSE
        OBVIOUS
    <2>1. TypeOK /\ now \in Nat /\ c \in Live /\ sconns[c] \in Sconn
        BY DEF IInv, TypeOK
    <2>2. sconns[c].lastUsed \in Int /\ ~(sconns[c].lastUsed > sconns[c].lastUsed)
          /\ ~(Never > sconns[c].lastUsed)
        BY <2>1 DEF Sconn, Never
    <2>3. sconns'[c] # sconns[c]
        BY <2>2
    <2>4. ASSUME NEW ct, NEW sc, NEW closed, Store(ct, sc, closed)
          PROVE  FALSE
        <3>1. c \in IF closed THEN Live \ {ct} ELSE Got(ct)
            BY <2>4 DEF Store
        <3>2. c # ct
            BY <2>1, <3>1 DEF Got, ExpiredTokens
        <3> QED BY <2>3, <2>4, <3>1, <3>2 DEF Store
    <2>5. CASE Open
        <3>1. PICK addr \in Addr, params \in OpenParams, S \in Looked, ct \in Token :
                 Accept(addr, params, S, ct)
            BY <2>3, <2>5 DEF Open, AcceptClose
        <3>2. sconns' = [d \in Swept(S) \cup {ct} |->
                           IF d = ct THEN NewSconn(addr, RestrictParams(params), now)
                           ELSE sconns[d]]
            BY <3>1 DEF Accept
        <3>3. c = ct
            BY <2>3, <3>2
        <3>4. sconns'[c].lastUsed = Never
            BY <3>2, <3>3 DEF NewSconn
        <3> QED BY <2>2, <3>4
    <2>6. CASE Request
        BY <2>3, <2>4, <2>6 DEF Request, InvalidToken, Refuse, DropShortInterval,
                                Serve, Close
    <2>7. CASE Tick \/ UNCHANGED vars
        BY <2>3, <2>7 DEF Tick, vars
    <2> QED BY <2>5, <2>6, <2>7 DEF Next
<1> QED BY <1>1, Invariant, PTL DEF Spec, NeverRevived

\* The close flag of a reply is set if the connection was closed, and not set
\* on a connection that is kept or had expired (serveEcho).
THEOREM ReplyIsHonest == Spec => CloseFlagHonest
<1> DEFINE P == LET ct == out'.token IN
                out'.kind = "echo" =>
                  IF out'.close THEN ct \notin DOMAIN sconns'
                  ELSE ct \in DOMAIN sconns' \/ Expired(sconns[ct], now)
<1>1. IInv /\ [Next]_vars => [P]_vars
    <2> SUFFICES ASSUME IInv, Next, out'.kind = "echo"
                 PROVE  P
        OBVIOUS
    <2>1. PICK ct \in Token, length \in RequestLength, seqno \in RequestSeqno :
             Serve(ct, length, seqno)
        <3>1. out' # NoReply
            BY DEF NoReply
        <3>2. ~Tick
            BY <3>1 DEF Tick
        <3>3. ASSUME NEW addr, NEW token, NEW params, NEW close,
                     Send(OpenReply(addr, token, params, close))
              PROVE  FALSE
            BY <3>1, <3>3 DEF Send, OpenReply
        <3>4. ~Open
            BY <3>3 DEF Open, Accept, AcceptClose
        <3>5. Request
            BY <3>2, <3>4 DEF Next
        <3> QED BY <3>1, <3>5 DEF Request, InvalidToken, Refuse, DropShortInterval, Close
    <2> DEFINE sc2    == ServedSconn(sconns[ct], seqno, now)
               closed == DurationExceeded(sc2, now)
    <2>2. /\ ct \in Live /\ Store(ct, sc2, closed) /\ ~ShortInterval(sconns[ct], now)
          /\ out' \in {EchoReply(sconns[ct].raddr, ct, sc2, closed), NoReply}
        BY <2>1 DEF Serve, Send
    <2>3. out'.token = ct /\ out'.close = closed
        BY <2>2 DEF EchoReply, NoReply
    <2>4. /\ TypeOK /\ now \in Nat /\ sconns[ct] \in Sconn /\ hist[ct] \in History
          /\ Conn(sconns[ct], hist[ct], now) /\ RatePairs(hist[ct].uses)
        BY <2>2 DEF IInv, TypeOK, Past, Live
    <2>5. sc2 \in Sconn
        BY <2>2, <2>4, ServedConn, ServerAssumption
    <2> HIDE DEF sc2, closed
    <2>6. /\ closed => ct \notin DOMAIN sconns'
          /\ ~closed => ct \in DOMAIN sconns' \/ Expired(sconns[ct], now)
        BY <2>2, <2>4, <2>5, StoreFrame
    <2> QED BY <2>3, <2>6
<1> QED BY <1>1, Invariant, PTL DEF Spec, CloseFlagHonest
=============================================================================
