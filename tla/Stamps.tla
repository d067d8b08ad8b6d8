------------------------------- MODULE Stamps -------------------------------
(***************************************************************************)
(* Times with a wall and a monotonic clock (time.go) and what the client   *)
(* and the server compute from the times of a round trip or of a one-way   *)
(* trip (recorder.go, onewayrecorder.go).  A clock value of 0 is none;     *)
(* InvalidDuration is a value no duration reaches.                         *)
(***************************************************************************)
EXTENDS Integers, Sequences

NoTime == [wall |-> 0, mono |-> 0]
InvalidDuration == 1000000

IsZero(t) == t.wall = 0 /\ t.mono = 0
KeepClocks(t, c) == [wall |-> IF "wall" \in c THEN t.wall ELSE 0,
                     mono |-> IF "mono" \in c THEN t.mono ELSE 0]
BothMono(t, u) == t.mono # 0 /\ u.mono # 0

\* Sub; every caller has a clock that both times keep.
TimeSub(t, u) == IF BothMono(t, u) THEN t.mono - u.mono ELSE t.wall - u.wall
TimeAdd(t, d) == [wall |-> IF t.wall # 0 THEN t.wall + d ELSE 0,
                  mono |-> IF t.mono # 0 THEN t.mono + d ELSE 0]
Midpoint(t, u) == TimeAdd(t, TimeSub(u, t) \div 2)

-----------------------------------------------------------------------------
(* A trip is a record of client and server timestamps, each [receive,      *)
(* send]; that of a one-way trip has no client.receive and server.send.    *)

BestSend(ts) == IF IsZero(ts.send) THEN ts.receive ELSE ts.send
BestReceive(ts) == IF IsZero(ts.receive) THEN ts.send ELSE ts.receive

\* ServerProcessingTime
ProcessingTime(ts) ==
    IF BothMono(ts.receive, ts.send) THEN ts.send.mono - ts.receive.mono
    ELSE IF ts.receive.wall # 0 /\ ts.send.wall # 0 THEN ts.send.wall - ts.receive.wall
    ELSE InvalidDuration

RTT(trip) ==
    LET rtt == trip.client.receive.mono - trip.client.send.mono
        spt == ProcessingTime(trip.server)
    IN  IF spt = InvalidDuration THEN rtt ELSE rtt - spt

\* The timestamps that say with which clock the trip was stamped.
Stamped(trip) == IF "oneway" \in DOMAIN trip THEN {trip.server.receive, trip.client.send}
                 ELSE {trip.server.receive, trip.server.send}
IsMonoTimestamped(trip) == \E t \in Stamped(trip) : t.mono # 0
IsWallTimestamped(trip) == \E t \in Stamped(trip) : t.wall # 0

SendDiff(trip, c) == BestReceive(trip.server)[c] - trip.client.send[c]
ReceiveDiff(trip, c) == trip.client.receive[c] - BestSend(trip.server)[c]
SendDelay(trip) == IF IsWallTimestamped(trip) THEN SendDiff(trip, "wall") ELSE InvalidDuration
ReceiveDelay(trip) == IF IsWallTimestamped(trip) THEN ReceiveDiff(trip, "wall") ELSE InvalidDuration

\* SendIPDVSince, ReceiveIPDVSince; IPDVSince is the difference of the RTTs.
IPDV(trip, prev, Diff(_, _)) ==
    IF IsMonoTimestamped(trip) /\ IsMonoTimestamped(prev)
    THEN Diff(trip, "mono") - Diff(prev, "mono")
    ELSE IF IsWallTimestamped(trip) /\ IsWallTimestamped(prev)
    THEN Diff(trip, "wall") - Diff(prev, "wall") ELSE InvalidDuration
SendIPDV(trip, prev) == IPDV(trip, prev, SendDiff)
ReceiveIPDV(trip, prev) == IPDV(trip, prev, ReceiveDiff)
=============================================================================
