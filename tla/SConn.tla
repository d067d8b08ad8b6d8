------------------------------- MODULE SConn -------------------------------
(***************************************************************************)
(* The state the server keeps for one connection (type sconn of sconn.go)  *)
(* and the pure functions its handlers compute on it.  Server.tla keeps a  *)
(* table of these records; RoundTrip.tla uses the received window alone.   *)
(*                                                                         *)
(* Times are natural numbers of one unit.  The token bucket is counted in  *)
(* that unit too: one packet of the float64 packetBucket is MinInterval    *)
(* units here, so that earning is exact.                                   *)
(***************************************************************************)
EXTENDS Window

CONSTANTS
    MinInterval,         \* 0: no minimum interval
    PacketBurst,
    MaxDuration,         \* 0: no limit
    MaxDurationGrace,
    Timeout,             \* 0: no timeout
    TimeoutGrace,
    IntervalFactor,      \* maxIntervalTimeoutFactor
    MaxLength            \* 0: no limit

ASSUME SConnAssumption ==
    /\ MinInterval \in Nat /\ PacketBurst \in Nat
    /\ MaxDuration \in Nat /\ MaxDurationGrace \in Nat
    /\ Timeout \in Nat /\ TimeoutGrace \in Nat
    /\ IntervalFactor \in Nat \ {0}
    /\ MaxLength \in Nat

Never == -1                         \* the zero time.Time
BucketSize == PacketBurst * MinInterval

TripMode == {"round", "oneway"}
Params == [Duration: Nat, Interval: Nat, Length: Nat, TripMode: TripMode]

-----------------------------------------------------------------------------
(* Token bucket                                                            *)

Earned(sc, now) == IF sc.lastUsed = Never THEN 0 ELSE now - sc.lastUsed

Bucket(sc, now) ==
    LET b == sc.packetBucket + Earned(sc, now)
    IN  IF MinInterval = 0 THEN sc.packetBucket
        ELSE IF sc.lastUsed # Never /\ b > BucketSize THEN BucketSize ELSE b

\* Mutant of ShortInterval: a part of a packet is enough.
ShortIntervalPart(sc, now) == MinInterval > 0 /\ Bucket(sc, now) <= 0

ShortInterval(sc, now) == MinInterval > 0 /\ Bucket(sc, now) < MinInterval

-----------------------------------------------------------------------------
(* Limits of a connection's life                                           *)

Expired(sc, now) ==
    /\ Timeout # 0
    /\ sc.lastUsed # Never
    /\ now - sc.lastUsed > Timeout + TimeoutGrace

DurationExceeded(sc, now) ==
    /\ MaxDuration > 0
    /\ sc.firstUsed # Never
    /\ now - sc.firstUsed > MaxDuration + MaxDurationGrace

\* Length 0 stands for a packet too short for the fields of an echo request.
BadLength(length) == length = 0 \/ (MaxLength > 0 /\ length > MaxLength)

-----------------------------------------------------------------------------
(* Opening                                                                 *)

RestrictParams(p) ==
    LET lo == IF MinInterval > 0 /\ p.Interval < MinInterval
              THEN MinInterval ELSE p.Interval
        hi == Timeout \div IntervalFactor
    IN  [p EXCEPT
           !.Duration = IF MaxDuration > 0 /\ @ > MaxDuration THEN MaxDuration ELSE @,
           !.Interval = IF Timeout > 0 /\ lo > hi THEN hi ELSE lo,
           !.Length   = IF MaxLength > 0 /\ @ > MaxLength THEN MaxLength ELSE @]

NewSconn(raddr, params, now) ==
    [raddr |-> raddr, params |-> params, created |-> now,
     firstUsed |-> Never, lastUsed |-> Never, packetBucket |-> BucketSize,
     lastSeqno |-> InvalidSeqno, receivedCount |-> 0, receivedWindow |-> {}]

-----------------------------------------------------------------------------
(* Requests                                                                *)

FirstUsed(sc, now) == IF sc.firstUsed = Never THEN now ELSE sc.firstUsed

\* Mutant of ShortIntervalSconn: the time of the drop is not kept, so that the
\* time before it is earned again.
ShortIntervalForgotten(sc, now) ==
    [sc EXCEPT !.firstUsed = FirstUsed(sc, now), !.packetBucket = Bucket(sc, now)]

\* A request dropped by the minimum interval: it is a use all the same.
ShortIntervalSconn(sc, now) ==
    [raddr |-> sc.raddr, params |-> sc.params, created |-> sc.created,
     firstUsed |-> FirstUsed(sc, now), lastUsed |-> now,
     packetBucket |-> Bucket(sc, now),
     lastSeqno |-> sc.lastSeqno, receivedCount |-> sc.receivedCount,
     receivedWindow |-> sc.receivedWindow]

\* A request served.
ServedSconn(sc, seqno, now) ==
    [raddr |-> sc.raddr, params |-> sc.params, created |-> sc.created,
     firstUsed |-> FirstUsed(sc, now), lastUsed |-> now,
     packetBucket |-> Bucket(sc, now) - MinInterval,
     lastSeqno |-> seqno, receivedCount |-> sc.receivedCount + 1,
     receivedWindow |-> SlideWindow(sc.receivedWindow, sc.lastSeqno, seqno)]
=============================================================================
