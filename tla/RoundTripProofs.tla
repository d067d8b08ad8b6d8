-------------------------- MODULE RoundTripProofs --------------------------
(***************************************************************************)
(* Proofs about RoundTrip, for any number of packets, any batch and any    *)
(* width of the window: no reply is unknown, when the loss counts of the   *)
(* result cannot wrap, LostDown is right always and LostUp when requests   *)
(* come in order, and what the one-way recorder counts.                    *)
(***************************************************************************)
EXTENDS RoundTrip, Lemmas, FiniteSetTheorems, SequenceTheorems

-----------------------------------------------------------------------------
(* The invariant                                                           *)

\* Where send is in the array of round trips: sendN packets were sent, and
\* the next one has the next seqno and a slot of its own once it is stamped.
Sending ==
    /\ \A k \in 0..Multiply-1 : seqno[k] = seqno[0] + k
    /\ spc # "ended" => seqno[j] = sendN
    /\ Len(rtd) = sendN + (IF spc \in {"send", "postsend"} THEN 1 ELSE 0)
    /\ requests \subseteq 0..(IF spc = "postsend" THEN sendN ELSE sendN - 1)

\* A reply is to a request that was received, which was sent.
ReceivedSet == {s \in Sent : Received(s)}
Known ==
    /\ served \subseteq requests
    /\ \A r \in replies : r.seqno \in served
    /\ ReceivedSet \subseteq served
    /\ ~failed

Counted == rttN = Cardinality(ReceivedSet)

\* Each bit of a window, on the server, on its way or recorded, stands for a
\* request the server has received.
Says(last, w) == \A k \in w : SeqSub(last, k) \in served
Sound ==
    /\ Says(sc.lastSeqno, sc.receivedWindow)
    /\ \A r \in replies : Says(r.seqno, r.window)
    /\ \A s \in ReceivedSet : Says(s, rtd[s + 1].window)

\* In order, a window has the bits of all requests in its reach, and a later
\* reply a higher count.
Complete ==
    inOrder =>
      /\ \A s \in served : s <= sc.lastSeqno
      /\ served # {} => WindowHolds(sc.receivedWindow, sc.lastSeqno, served)
      /\ \A r \in replies : WindowHolds(r.window, r.seqno, served)
      /\ \A s \in ReceivedSet : WindowHolds(rtd[s + 1].window, s, served)
      /\ \A r1, r2 \in replies : r1.seqno < r2.seqno => r1.count < r2.count

\* The server's count as it is, in replies and as last recorded.
Counts ==
    /\ \A r \in replies : r.count \in 1..sc.receivedCount
    /\ serverReceived <= sc.receivedCount
    /\ once => sc.receivedCount = Cardinality(served)
    /\ inOrder /\ late = 0 /\ rttN > 0 =>
         /\ lastSeqno \in ReceivedSet
         /\ \E r \in replies : r.seqno = lastSeqno /\ r.count = serverReceived
         /\ rttN <= serverReceived

\* The one-way recorder: until a second duplicate, or as long as requests
\* come in order, its array has a slot more than is marked, or just enough.
Recorded ==
    /\ served # {} => sc.lastSeqno \in served
    /\ trip = "oneway" =>
         /\ owr.n + owr.duplicates = sc.receivedCount
         /\ owr.duplicates <= 1 \/ inOrder => Marked = served /\ owr.n = Cardinality(served)
         /\ owr.duplicates = 0 => \A s \in served : s + 2 <= Len(owr.trips)
         /\ inOrder => /\ owr.late = 0
                       /\ owr.lastSeqno = IF served = {} THEN 0 ELSE sc.lastSeqno

IInv == TypeOK /\ Sending /\ Known /\ Counted /\ Sound /\ Complete /\ Counts /\ Recorded

-----------------------------------------------------------------------------
(* Types                                                                   *)

\* TypeOK in parts that steps change together.
SendTypes ==
    /\ spc \in {"presend", "send", "postsend", "wait", "ended"}
    /\ seqno \in [0..Multiply-1 -> Nat] /\ j \in 0..Multiply-1
FlagTypes ==
    /\ rpc \in {"run", "ended"} /\ failed \in BOOLEAN /\ closed \in BOOLEAN
    /\ trip \in {"round", "oneway"}
TripTypes == rtd \in Seq(RoundTripData) /\ Len(rtd) <= MaxSend
CountTypes ==
    /\ sendN \in Nat /\ rttN \in Nat /\ duplicates \in Nat /\ late \in Nat
    /\ lastSeqno \in Nat /\ serverReceived \in Nat
OneWayTypes ==
    owr \in [trips: Seq(BOOLEAN), n: Nat, duplicates: Nat, late: Nat, lastSeqno: Seqno]
ServerTypes ==
    /\ sc \in [lastSeqno: Seqno, receivedCount: Nat, receivedWindow: ReceivedWindow]
    /\ served \subseteq Seqno
NetTypes ==
    /\ requests \subseteq Seqno
    /\ replies \subseteq [seqno: Seqno, count: Nat, window: ReceivedWindow]
HistoryTypes == inOrder \in BOOLEAN /\ once \in BOOLEAN

LEMMA TypeParts ==
    TypeOK <=> /\ SendTypes /\ FlagTypes /\ TripTypes /\ CountTypes
               /\ OneWayTypes /\ ServerTypes /\ NetTypes /\ HistoryTypes
BY Zenon DEF TypeOK, SendTypes, FlagTypes, TripTypes, CountTypes, OneWayTypes,
   ServerTypes, NetTypes, HistoryTypes

\* What the one-way recorder's array holds once it is long enough.
LEMMA GrownTrips ==
    ASSUME NEW trips \in Seq(BOOLEAN), NEW s \in Nat
    PROVE  LET g == Grown(trips, s)
           IN  /\ g \in Seq(BOOLEAN) /\ DOMAIN g = 1..Len(g)
               /\ Len(g) = IF Len(trips) > s + 2 THEN Len(trips) ELSE s + 2
               /\ \A i \in 1..Len(g) : g[i] = (i \in DOMAIN trips /\ trips[i])
<1> DEFINE g == Grown(trips, s)
           n == IF Len(trips) > s + 2 THEN Len(trips) ELSE s + 2
<1>1. n \in Nat /\ DOMAIN trips \cup 1..(s + 2) = 1..n
    BY LenProperties
<1>2. g = [i \in 1..n |-> i \in DOMAIN trips /\ trips[i]]
    BY <1>1 DEF Grown
<1> HIDE DEF n
<1>3. g \in [1..n -> BOOLEAN]
    BY <1>2, Zenon
<1>4. g \in Seq(BOOLEAN)
    BY <1>1, <1>3, SeqDef, Zenon
<1>5. Len(g) = n
    BY <1>1, <1>3, <1>4, LenProperties
<1>6. \A i \in 1..n : g[i] = (i \in DOMAIN trips /\ trips[i])
    BY <1>2, Zenon
<1> QED BY <1>3, <1>4, <1>5, <1>6 DEF n

\* The state before anything is sent.
LEMMA InitTypes == Init => TypeOK
<1> SUFFICES ASSUME Init PROVE TypeOK
    OBVIOUS
<1> USE RoundTripAssumption, WindowAssumption
<1>1. SendTypes
    BY DEF SendTypes, Init
<1>2. FlagTypes /\ HistoryTypes
    BY Zenon DEF FlagTypes, HistoryTypes, Init
<1>3. TripTypes
    BY EmptySeq DEF TripTypes, Init
<1>4. CountTypes
    BY DEF CountTypes, Init
<1>5. OneWayTypes
    <2>1. << >> \in Seq(BOOLEAN) /\ 0 \in Nat /\ 0 \in Seqno
        BY EmptySeq DEF Seqno
    <2> QED BY <2>1, Zenon DEF OneWayTypes, Init
<1>6. ServerTypes /\ NetTypes
    BY DEF ServerTypes, NetTypes, Init, Seqno, InvalidSeqno, ReceivedWindow
<1> QED BY <1>1, <1>2, <1>3, <1>4, <1>5, <1>6, TypeParts

LEMMA SendTypesStep == SendTypes /\ [Next]_vars => SendTypes'
<1> SUFFICES ASSUME SendTypes, [Next]_vars PROVE SendTypes'
    OBVIOUS
<1>1. CASE PostSend
    BY <1>1, RoundTripAssumption DEF PostSend, SendTypes
<1>2. CASE UNCHANGED sendVars
    BY <1>2 DEF SendTypes, sendVars
<1>3. CASE UNCHANGED <<seqno, j>> /\ spc' \in {"send", "postsend", "ended"}
    BY <1>3 DEF SendTypes
<1> QED
    BY <1>1, <1>2, <1>3
       DEF Next, vars, sendVars, PreSend, SendOk, SendError, Cancel, EndWait, ReadError,
           Echo, OneWay, Served, Receive

LEMMA FlagTypesStep == FlagTypes /\ [Next]_vars => FlagTypes'
BY Zenon
   DEF FlagTypes, Next, vars, serverVars, PreSend, SendOk, SendError, PostSend, Cancel,
       EndWait, ReadError, Echo, OneWay, Served, Receive, Record, Unknown

LEMMA HistoryTypesStep == HistoryTypes /\ [Next]_vars => HistoryTypes'
BY Zenon
   DEF HistoryTypes, Next, vars, serverVars, PreSend, SendOk, SendError, PostSend, Cancel,
       EndWait, ReadError, Echo, OneWay, Served, Receive

LEMMA CountTypesStep == CountTypes /\ NetTypes /\ [Next]_vars => CountTypes'
<1> SUFFICES ASSUME CountTypes, NetTypes, [Next]_vars PROVE CountTypes'
    OBVIOUS
<1>1. CASE PostSend
    BY <1>1 DEF PostSend, CountTypes
<1>2. ASSUME NEW r \in replies, Receive(r), Record(r) PROVE CountTypes'
    <2>1. r.seqno \in Nat /\ r.count \in Nat
        BY WindowAssumption DEF NetTypes, Seqno
    <2> QED BY <1>2, <2>1 DEF Record, Receive, CountTypes
<1>3. CASE UNCHANGED recVars \/ UNCHANGED <<sendN, rttN, duplicates, late, lastSeqno,
                                          serverReceived>>
    BY <1>3 DEF CountTypes, recVars
<1> QED
    BY <1>1, <1>2, <1>3
       DEF Next, vars, recVars, PreSend, SendOk, SendError, Cancel, EndWait, ReadError,
           Echo, OneWay, Served, Receive, Unknown

LEMMA ServerTypesStep == ServerTypes /\ NetTypes /\ [Next]_vars => ServerTypes'
BY SlideType
   DEF ServerTypes, NetTypes, Next, vars, serverVars, PreSend, SendOk, SendError,
       PostSend, Cancel, EndWait, ReadError, Echo, OneWay, Served, Receive

\* The next seqno to be sent is in range.
LEMMA NextSeqno ==
    ASSUME SendTypes, TripTypes, CountTypes, Sending, spc \in {"send", "postsend"}
    PROVE  sendN \in Seqno /\ seqno[j] = sendN /\ Len(rtd) = sendN + 1
<1>1. sendN \in Nat /\ Len(rtd) = sendN + 1 /\ Len(rtd) <= MaxSend /\ seqno[j] = sendN
    BY DEF TripTypes, CountTypes, Sending
<1> QED BY <1>1, RoundTripAssumption, WindowAssumption DEF Seqno

LEMMA NetTypesStep ==
    SendTypes /\ TripTypes /\ CountTypes /\ ServerTypes /\ NetTypes /\ Sending
      /\ [Next]_vars => NetTypes'
<1> SUFFICES ASSUME SendTypes, TripTypes, CountTypes, ServerTypes, NetTypes, Sending,
                    [Next]_vars
             PROVE  NetTypes'
    OBVIOUS
<1>1. CASE SendOk
    BY <1>1, NextSeqno DEF SendOk, NetTypes
<1>2. ASSUME NEW s \in requests, Echo(s) PROVE NetTypes'
    <2>1. ServerTypes'
        BY <1>2, ServerTypesStep DEF Next
    <2>2. sc'.receivedCount \in Nat /\ sc'.receivedWindow \in ReceivedWindow
        BY <2>1 DEF ServerTypes
    <2> QED BY <1>2, <2>2 DEF Echo, Served, NetTypes
<1>3. CASE ~SendOk /\ ~ \E s \in requests : Echo(s)
    BY <1>3 DEF NetTypes, Next, vars, PreSend, SendError, PostSend, Cancel, EndWait,
                ReadError, OneWay, Served, Receive
<1> QED BY <1>1, <1>2, <1>3

LEMMA TripTypesStep ==
    TripTypes /\ NetTypes /\ [Next]_vars => TripTypes'
<1> SUFFICES ASSUME TripTypes, NetTypes, [Next]_vars PROVE TripTypes'
    OBVIOUS
<1> USE RoundTripAssumption, WindowAssumption
<1>1. CASE PreSend
    <2>1. NoReplyYet \in RoundTripData
        BY DEF NoReplyYet, RoundTripData, ReceivedWindow
    <2> QED BY <1>1, <2>1, AppendProperties DEF PreSend, TripTypes
<1>2. CASE SendError
    <2>1. \A i \in 1..Len(rtd)-1 : rtd[i] \in RoundTripData
        BY ElementOfSeq, LenProperties DEF TripTypes
    <2> QED BY <1>2, <2>1, SubSeqProperties, LenProperties DEF SendError, TripTypes
<1>3. ASSUME NEW r \in replies, Receive(r), Record(r), r.seqno < Len(rtd) PROVE TripTypes'
    <2> DEFINE e == [received |-> TRUE, window |-> r.window]
    <2>1. r.seqno + 1 \in 1..Len(rtd) /\ e \in RoundTripData
        BY <1>3, LenProperties DEF Seqno, NetTypes, TripTypes, RoundTripData
    <2>2. rtd' = rtd \/ rtd' = [rtd EXCEPT ![r.seqno + 1] = e]
        BY <1>3 DEF Record
    <2> HIDE DEF e
    <2> QED BY <2>1, <2>2, ExceptSeq DEF TripTypes
<1>4. CASE /\ ~PreSend /\ ~SendError
           /\ ~ \E r \in replies : Receive(r) /\ Record(r) /\ r.seqno < Len(rtd)
    BY <1>4, Zenon
       DEF TripTypes, Next, vars, recVars, SendOk, PostSend, Cancel, EndWait, ReadError,
           Echo, OneWay, Served, Receive, Unknown
<1> QED BY <1>1, <1>2, <1>3, <1>4

LEMMA OneWayTypesStep ==
    OneWayTypes /\ NetTypes /\ [Next]_vars => OneWayTypes'
<1> SUFFICES ASSUME OneWayTypes, NetTypes, [Next]_vars PROVE OneWayTypes'
    OBVIOUS
<1> USE RoundTripAssumption, WindowAssumption
<1>1. ASSUME NEW s \in requests, OneWay(s) PROVE OneWayTypes'
    <2> DEFINE g == Grown(owr.trips, s)
    <2>1. s \in Nat /\ s \in Seqno /\ owr.trips \in Seq(BOOLEAN)
        BY DEF Seqno, NetTypes, OneWayTypes
    <2>2. g \in Seq(BOOLEAN) /\ Len(g) \in Nat /\ s + 1 \in 1..Len(g)
        BY <2>1, GrownTrips, LenProperties
    <2>3. owr' = [owr EXCEPT !.trips = SubSeq(g, 1, Len(g) - 1), !.duplicates = @ + 1]
          \/ owr' = [owr EXCEPT !.trips = [g EXCEPT ![s + 1] = TRUE], !.n = @ + 1,
                                !.late = IF s < owr.lastSeqno THEN @ + 1 ELSE @,
                                !.lastSeqno = s]
        BY <1>1, Zenon DEF OneWay, RecordOneWay
    <2> HIDE DEF g
    <2>4. SubSeq(g, 1, Len(g) - 1) \in Seq(BOOLEAN)
        BY <2>2, ElementOfSeq, SubSeqProperties
    <2>5. [g EXCEPT ![s + 1] = TRUE] \in Seq(BOOLEAN)
        BY <2>2, ExceptSeq
    <2>6. \A t \in Seq(BOOLEAN), n \in Nat, d \in Nat, l \in Nat, m \in Seqno :
              [trips |-> t, n |-> n, duplicates |-> d, late |-> l, lastSeqno |-> m]
                \in [trips: Seq(BOOLEAN), n: Nat, duplicates: Nat, late: Nat,
                     lastSeqno: Seqno]
        OBVIOUS
    <2>7. /\ owr.n \in Nat /\ owr.duplicates \in Nat /\ owr.late \in Nat
          /\ owr.lastSeqno \in Seqno
          /\ owr = [trips |-> owr.trips, n |-> owr.n, duplicates |-> owr.duplicates,
                    late |-> owr.late, lastSeqno |-> owr.lastSeqno]
        BY DEF OneWayTypes
    <2>8. CASE owr' = [owr EXCEPT !.trips = SubSeq(g, 1, Len(g) - 1), !.duplicates = @ + 1]
        <3>1. owr' = [trips |-> SubSeq(g, 1, Len(g) - 1), n |-> owr.n,
                      duplicates |-> owr.duplicates + 1, late |-> owr.late,
                      lastSeqno |-> owr.lastSeqno]
            BY <2>8, <2>7
        <3> QED BY <3>1, <2>4, <2>6, <2>7 DEF OneWayTypes
    <2>9. CASE owr' = [owr EXCEPT !.trips = [g EXCEPT ![s + 1] = TRUE], !.n = @ + 1,
                                  !.late = IF s < owr.lastSeqno THEN @ + 1 ELSE @,
                                  !.lastSeqno = s]
        <3>1. owr' = [trips |-> [g EXCEPT ![s + 1] = TRUE], n |-> owr.n + 1,
                      duplicates |-> owr.duplicates,
                      late |-> IF s < owr.lastSeqno THEN owr.late + 1 ELSE owr.late,
                      lastSeqno |-> s]
            BY <2>9, <2>7
        <3> QED BY <3>1, <2>1, <2>5, <2>6, <2>7 DEF OneWayTypes
    <2> QED BY <2>3, <2>8, <2>9
<1>2. CASE ~ \E s \in requests : OneWay(s)
    BY <1>2, Zenon
       DEF OneWayTypes, Next, vars, serverVars, PreSend, SendOk, SendError, PostSend,
           Cancel, EndWait, ReadError, Echo, Receive
<1> QED BY <1>1, <1>2

LEMMA TypeStep == TypeOK /\ Sending /\ [Next]_vars => TypeOK'
<1> SUFFICES ASSUME TypeOK, Sending, [Next]_vars PROVE TypeOK'
    OBVIOUS
<1>1. SendTypes' /\ FlagTypes' /\ TripTypes' /\ CountTypes'
    BY TypeParts, SendTypesStep, FlagTypesStep, TripTypesStep, CountTypesStep
<1>2. OneWayTypes' /\ ServerTypes' /\ NetTypes' /\ HistoryTypes'
    BY TypeParts, OneWayTypesStep, ServerTypesStep, NetTypesStep, HistoryTypesStep
<1> QED
    BY <1>1, <1>2, Zenon
       DEF TypeOK, SendTypes, FlagTypes, TripTypes, CountTypes, OneWayTypes, ServerTypes,
           NetTypes, HistoryTypes

-----------------------------------------------------------------------------
(* Sending and the round trips                                             *)

LEMMA SendingStep == TypeOK /\ Sending /\ [Next]_vars => Sending'
<1> SUFFICES ASSUME TypeOK, Sending, [Next]_vars PROVE Sending'
    OBVIOUS
<1>1. SendTypes /\ TripTypes /\ CountTypes /\ NetTypes
    BY TypeParts
<1> USE RoundTripAssumption
<1>2. CASE PreSend
    BY <1>1, <1>2, AppendProperties, LenProperties
       DEF PreSend, Sending, TripTypes, CountTypes, NoReplyYet, RoundTripData, ReceivedWindow
<1>3. CASE SendOk
    <2>1. seqno[j] = sendN /\ sendN \in Nat
        BY <1>1, <1>3 DEF SendOk, Sending, CountTypes
    <2> QED BY <1>3, <2>1 DEF SendOk, Sending, recVars
<1>4. CASE SendError
    <2>1. Len(rtd) = sendN + 1 /\ sendN \in Nat
        BY <1>1, <1>4 DEF SendError, Sending, CountTypes
    <2>2. \A i \in 1..Len(rtd)-1 : rtd[i] \in RoundTripData
        BY <1>1, ElementOfSeq, LenProperties DEF TripTypes
    <2>3. Len(rtd') = sendN
        BY <1>4, <2>1, <2>2, SubSeqProperties DEF SendError
    <2> QED BY <1>4, <2>1, <2>3 DEF SendError, Sending
<1>5. CASE PostSend
    <2>1. /\ \A k \in 0..Multiply-1 : seqno[k] \in Nat
          /\ j \in 0..Multiply-1 /\ sendN \in Nat /\ seqno[j] = sendN
          /\ \A k \in 0..Multiply-1 : seqno[k] = seqno[0] + k
        BY <1>1, <1>5 DEF PostSend, SendTypes, CountTypes, Sending
    <2>2. /\ \A k \in 0..Multiply-1 : seqno'[k] = seqno'[0] + k
          /\ seqno'[j'] = sendN + 1
        <3>1. CASE j + 1 < Multiply
            <4>1. j' = j + 1 /\ seqno' = seqno
                BY <1>5, <3>1 DEF PostSend
            <4> QED BY <2>1, <3>1, <4>1
        <3>2. CASE ~(j + 1 < Multiply)
            <4>1. j' = 0 /\ seqno' = [k \in 0..Multiply-1 |-> seqno[k] + Multiply]
                BY <1>5, <3>2 DEF PostSend
            <4>2. j = Multiply - 1 /\ 0 \in 0..Multiply-1
                BY <2>1, <3>2
            <4>3. \A k \in 0..Multiply-1 : seqno'[k] = seqno[k] + Multiply
                BY <4>1
            <4>4. seqno'[0] = sendN + 1
                BY <2>1, <4>2, <4>3
            <4> QED BY <2>1, <4>1, <4>2, <4>3, <4>4
        <3> QED BY <3>1, <3>2
    <2>3. spc' \in {"presend", "wait"} /\ sendN' = sendN + 1 /\ UNCHANGED <<rtd, requests>>
        BY <1>5 DEF PostSend
    <2> QED BY <1>5, <2>1, <2>2, <2>3 DEF PostSend, Sending
<1>6. CASE Cancel \/ EndWait
    BY <1>6 DEF Cancel, EndWait, Sending, recVars
<1>7. CASE UNCHANGED <<sendVars, rtd, sendN, requests>>
    BY <1>7 DEF Sending, sendVars
<1>8. CASE UNCHANGED <<sendVars, sendN, requests>> /\ Len(rtd') = Len(rtd)
    BY <1>8 DEF Sending, sendVars
<1>9. ASSUME NEW r \in replies, Receive(r) PROVE Len(rtd') = Len(rtd)
    <2>1. CASE r.seqno < Len(rtd) /\ ~rtd[r.seqno + 1].received
        <3> DEFINE e == [received |-> TRUE, window |-> r.window]
        <3>1. r.seqno + 1 \in 1..Len(rtd) /\ e \in RoundTripData
            BY <1>1, <2>1, LenProperties, WindowAssumption
               DEF Seqno, NetTypes, TripTypes, RoundTripData
        <3>2. rtd' = [rtd EXCEPT ![r.seqno + 1] = e]
            BY <1>9, <2>1 DEF Receive, Record
        <3> HIDE DEF e
        <3> QED BY <1>1, <3>1, <3>2, ExceptSeq DEF TripTypes
    <2>2. CASE ~(r.seqno < Len(rtd) /\ ~rtd[r.seqno + 1].received)
        BY <1>9, <2>2 DEF Receive, Record, Unknown
    <2> QED BY <2>1, <2>2
<1> QED
    BY <1>2, <1>3, <1>4, <1>5, <1>6, <1>7, <1>8, <1>9
       DEF Next, vars, recVars, ReadError, Echo, OneWay, Served, Receive

\* What a step does to the replies recorded: nothing, or it records one.
Kept ==
    /\ ReceivedSet' = ReceivedSet
    /\ \A s \in ReceivedSet : rtd'[s + 1] = rtd[s + 1]
    /\ UNCHANGED <<rttN, lastSeqno, serverReceived, late, failed>>
Gains(r) ==
    /\ r.seqno \notin ReceivedSet
    /\ ReceivedSet' = ReceivedSet \cup {r.seqno}
    /\ \A s \in ReceivedSet : rtd'[s + 1] = rtd[s + 1]
    /\ rtd'[r.seqno + 1].window = r.window
    /\ rttN' = rttN + 1 /\ lastSeqno' = r.seqno /\ serverReceived' = r.count
    /\ late' = IF IsLate(r.seqno) THEN late + 1 ELSE late
    /\ UNCHANGED <<serverVars, requests, replies, failed>>

LEMMA ReceivedStep ==
    ASSUME TypeOK, Sending, Known, [Next]_vars
    PROVE  Kept \/ \E r \in replies : Gains(r)
<1>1. SendTypes /\ TripTypes /\ CountTypes /\ NetTypes
    BY TypeParts
<1>2. rtd \in Seq(RoundTripData) /\ Len(rtd) \in Nat
    BY <1>1, LenProperties DEF TripTypes
<1> USE DEF ReceivedSet, Sent, Received
<1>3. CASE PreSend
    <2>1. NoReplyYet \in RoundTripData
        BY WindowAssumption DEF NoReplyYet, RoundTripData, ReceivedWindow
    <2>2. rtd' = Append(rtd, NoReplyYet)
        BY <1>3 DEF PreSend
    <2>3. /\ Len(rtd') = Len(rtd) + 1
          /\ \A i \in 1..Len(rtd) : rtd'[i] = rtd[i]
          /\ ~ rtd'[Len(rtd) + 1].received
        BY <1>2, <2>1, <2>2, AppendProperties DEF NoReplyYet
    <2> QED BY <1>2, <1>3, <2>3 DEF PreSend, Kept
<1>4. CASE SendError
    <2>1. Len(rtd) = sendN + 1 /\ sendN \in Nat /\ requests \subseteq 0..sendN-1
        BY <1>1, <1>4 DEF SendError, Sending, CountTypes
    <2>2. \A i \in 1..Len(rtd)-1 : rtd[i] \in RoundTripData
        BY <1>2, ElementOfSeq
    <2>3. Len(rtd') = sendN /\ \A i \in 1..sendN : rtd'[i] = rtd[i]
        BY <1>4, <2>1, <2>2, SubSeqProperties DEF SendError
    <2>4. sendN \notin ReceivedSet
        BY <2>1 DEF Known
    <2> QED BY <1>4, <2>1, <2>3, <2>4 DEF SendError, Kept
<1>5. ASSUME NEW r \in replies, Receive(r) PROVE Kept \/ Gains(r)
    <2>1. r.seqno \in Nat /\ r.seqno < Len(rtd)
        <3>1. r.seqno \in requests /\ sendN \in Nat
            BY <1>1 DEF Known, CountTypes
        <3>2. CASE spc = "postsend"
            <4>1. r.seqno \in 0..sendN
                BY <3>1, <3>2, Zenon DEF Sending
            <4>2. Len(rtd) = sendN + 1
                BY <3>1, <3>2 DEF Sending
            <4> QED BY <3>1, <4>1, <4>2
        <3>3. CASE spc # "postsend"
            <4>1. r.seqno \in 0..sendN-1
                BY <3>1, <3>3, Zenon DEF Sending
            <4>2. Len(rtd) >= sendN
                BY <3>1, <3>3 DEF Sending
            <4> QED BY <1>2, <3>1, <4>1, <4>2
        <3> QED BY <3>2, <3>3
    <2>2. CASE rtd[r.seqno + 1].received
        BY <1>5, <2>1, <2>2 DEF Receive, Record, Kept
    <2>3. CASE ~rtd[r.seqno + 1].received
        <3> DEFINE e == [received |-> TRUE, window |-> r.window]
        <3>1. r.seqno + 1 \in 1..Len(rtd) /\ e \in RoundTripData
            BY <1>1, <1>2, <2>1 DEF NetTypes, RoundTripData
        <3>2. rtd' = [rtd EXCEPT ![r.seqno + 1] = e]
            BY <1>5, <2>1, <2>3 DEF Receive, Record
        <3>3. e.received = TRUE /\ e.window = r.window
            OBVIOUS
        <3> HIDE DEF e
        <3>4. /\ Len(rtd') = Len(rtd) /\ rtd'[r.seqno + 1] = e
              /\ \A i \in 1..Len(rtd) : i # r.seqno + 1 => rtd'[i] = rtd[i]
            BY <1>2, <3>1, <3>2, ExceptSeq
        <3>5. r.seqno \notin ReceivedSet /\ ReceivedSet' = ReceivedSet \cup {r.seqno}
            BY <1>2, <2>1, <2>3, <3>3, <3>4
        <3>6. \A s \in ReceivedSet : rtd'[s + 1] = rtd[s + 1]
            BY <1>2, <2>1, <2>3, <3>4
        <3>7. /\ rttN' = rttN + 1 /\ lastSeqno' = r.seqno /\ serverReceived' = r.count
              /\ late' = IF IsLate(r.seqno) THEN late + 1 ELSE late
              /\ UNCHANGED <<serverVars, requests, replies, failed>>
            BY <1>5, <2>1, <2>3 DEF Receive, Record
        <3> QED BY <3>3, <3>4, <3>5, <3>6, <3>7 DEF Gains
    <2> QED BY <2>2, <2>3
<1>6. CASE UNCHANGED <<rtd, rttN, lastSeqno, serverReceived, late, failed>>
    BY <1>6 DEF Kept
<1> QED
    BY <1>3, <1>4, <1>5, <1>6
       DEF Next, vars, recVars, SendOk, PostSend, Cancel, EndWait, ReadError, Echo, OneWay,
           Served

-----------------------------------------------------------------------------
(* The steps of the server and of the others                               *)

\* Every step serves a request or changes nothing of the server.
LEMMA ServedStep ==
    ASSUME [Next]_vars
    PROVE  \/ \E s \in requests : Served(s) /\ (Echo(s) \/ OneWay(s))
           \/ UNCHANGED <<serverVars, replies>>
BY DEF Next, vars, PreSend, SendOk, SendError, PostSend, Cancel, EndWait, ReadError, Echo,
       OneWay, Receive

LEMMA ServedKeeps ==
    ASSUME NEW s, Served(s)
    PROVE  Kept
BY DEF Served, Kept, recVars, ReceivedSet, Sent, Received

LEMMA KnownStep == TypeOK /\ Sending /\ Known /\ [Next]_vars => Known'
<1> SUFFICES ASSUME TypeOK, Sending, Known, [Next]_vars PROVE Known'
    OBVIOUS
<1>1. failed' = failed /\ (ReceivedSet' = ReceivedSet
                           \/ \E r \in replies : ReceivedSet' = ReceivedSet \cup {r.seqno})
    BY ReceivedStep DEF Kept, Gains
<1> DEFINE Answered == /\ served \subseteq served' /\ served' \subseteq requests'
                       /\ \A r \in replies' : r.seqno \in served'
<1>2. Answered
    <2>1. CASE UNCHANGED <<serverVars, replies>>
        <3>1. requests \subseteq requests'
            BY DEF Next, vars, PreSend, SendOk, SendError, PostSend, Cancel, EndWait,
                   ReadError, Echo, OneWay, Served, Receive
        <3> QED BY <2>1, <3>1 DEF serverVars, Known
    <2>2. ASSUME NEW s \in requests, Served(s), Echo(s) \/ OneWay(s)
          PROVE  Answered
        <3>1. requests' = requests /\ served' = served \cup {s}
            BY <2>2 DEF Served
        <3>2. \A r \in replies' : r \in replies \/ r.seqno = s
            BY <2>2 DEF Echo, OneWay
        <3> QED BY <2>2, <3>1, <3>2 DEF Known
    <2> QED BY <2>1, <2>2, ServedStep
<1> QED BY <1>1, <1>2 DEF Known

LEMMA CountedStep ==
    TypeOK /\ Sending /\ Known /\ Counted /\ [Next]_vars => Counted'
<1> SUFFICES ASSUME TypeOK, Sending, Known, Counted, [Next]_vars PROVE Counted'
    OBVIOUS
<1>1. IsFiniteSet(ReceivedSet)
    <2>1. Len(rtd) \in Nat
        BY TypeParts, LenProperties DEF TripTypes
    <2>2. IsFiniteSet(Sent)
        BY <2>1, FS_Interval DEF Sent
    <2> QED BY <2>2, FS_Subset DEF ReceivedSet
<1>2. CASE Kept
    BY <1>2 DEF Kept, Counted
<1>3. ASSUME NEW r \in replies, Gains(r) PROVE Counted'
    BY <1>1, <1>3, FS_AddElement DEF Gains, Counted
<1> QED BY <1>2, <1>3, ReceivedStep

LEMMA SoundStep ==
    TypeOK /\ Sending /\ Known /\ Sound /\ [Next]_vars => Sound'
<1> SUFFICES ASSUME TypeOK, Sending, Known, Sound, [Next]_vars PROVE Sound'
    OBVIOUS
<1>1. CASE UNCHANGED <<serverVars, replies>>
    <2>1. sc' = sc /\ replies' = replies /\ served' = served
        BY <1>1 DEF serverVars
    <2>2. CASE Kept
        BY <2>1, <2>2 DEF Sound, Says, Kept
    <2>3. ASSUME NEW r \in replies, Gains(r) PROVE Sound'
        BY <2>1, <2>3 DEF Sound, Says, Gains
    <2> QED BY <2>2, <2>3, ReceivedStep
<1>2. ASSUME NEW s \in requests, Served(s), Echo(s) \/ OneWay(s) PROVE Sound'
    <2>1. /\ sc.receivedWindow \in ReceivedWindow /\ sc.lastSeqno \in Seqno /\ s \in Seqno
        BY TypeParts DEF ServerTypes, NetTypes
    <2>2. \A k \in sc.receivedWindow : SeqSub(sc.lastSeqno, k) \in served
        BY DEF Sound, Says
    <2>3. /\ served' = served \cup {s} /\ sc'.lastSeqno = s
          /\ sc'.receivedWindow = SlideWindow(sc.receivedWindow, sc.lastSeqno, s)
        BY <1>2 DEF Served
    <2>4. \A k \in sc'.receivedWindow : SeqSub(s, k) \in served'
        BY <2>1, <2>2, <2>3, SlideSound
    <2>5. \A r \in replies' : r \in replies \/ (r.seqno = s /\ r.window = sc'.receivedWindow)
        BY <1>2 DEF Echo, OneWay
    <2>6. Kept
        BY <1>2, ServedKeeps
    <2> QED BY <2>3, <2>4, <2>5, <2>6 DEF Sound, Says, Kept
<1> QED BY <1>1, <1>2, ServedStep

LEMMA CompleteStep ==
    TypeOK /\ Sending /\ Known /\ Complete /\ Counts /\ Recorded /\ [Next]_vars => Complete'
<1> SUFFICES ASSUME TypeOK, Sending, Known, Complete, Counts, Recorded, [Next]_vars, inOrder'
             PROVE  Complete'
    BY DEF Complete
<1>1. CASE UNCHANGED <<serverVars, replies>>
    <2>1. sc' = sc /\ replies' = replies /\ served' = served /\ inOrder
        BY <1>1 DEF serverVars
    <2>2. CASE Kept
        BY <2>1, <2>2 DEF Complete, Kept
    <2>3. ASSUME NEW r \in replies, Gains(r) PROVE Complete'
        BY <2>1, <2>3 DEF Complete, Gains
    <2> QED BY <2>2, <2>3, ReceivedStep
<1>2. ASSUME NEW s \in requests, Served(s), Echo(s) \/ OneWay(s) PROVE Complete'
    <2>1. /\ sc.receivedWindow \in ReceivedWindow /\ sc.lastSeqno \in Seqno /\ s \in Seqno
          /\ served \in SUBSET Seqno /\ sc.receivedCount \in Nat
          /\ \A t \in Seqno : t \in Nat
        BY TypeParts, WindowAssumption DEF ServerTypes, NetTypes, Seqno
    <2>2. /\ served' = served \cup {s} /\ sc'.lastSeqno = s
          /\ sc'.receivedWindow = SlideWindow(sc.receivedWindow, sc.lastSeqno, s)
          /\ sc'.receivedCount = sc.receivedCount + 1
          /\ inOrder /\ (served = {} \/ s >= sc.lastSeqno)
        BY <1>2 DEF Served
    <2>3. /\ \A t \in served' : t <= s
          /\ WindowHolds(sc'.receivedWindow, s, served')
        <3>1. CASE served = {}
            BY <2>1, <2>2, <3>1 DEF WindowHolds, SlideWindow
        <3>2. CASE served # {}
            <4>1. \A t \in served : t <= sc.lastSeqno
                     /\ (sc.lastSeqno - t < WindowBits => sc.lastSeqno - t \in sc.receivedWindow)
                BY <2>2, <3>2 DEF Complete, WindowHolds
            <4>2. s >= sc.lastSeqno
                BY <2>2, <3>2
            <4> QED BY <2>1, <2>2, <4>1, <4>2, SlideHolds DEF WindowHolds
        <3> QED BY <3>1, <3>2
    <2>4. ASSUME NEW w, NEW t \in served, WindowHolds(w, t, served)
          PROVE  WindowHolds(w, t, served')
        <3>1. t <= s /\ t \in Nat /\ s \in Nat
            BY <2>1, <2>2, <2>3
        <3>2. s <= t => s \in served
            BY <3>1
        <3> QED BY <2>2, <2>4, <3>2 DEF WindowHolds
    <2>5. \A r \in replies' : r \in replies \/ (/\ r.seqno = s /\ r.window = sc'.receivedWindow
                                               /\ r.count = sc'.receivedCount)
        BY <1>2 DEF Echo, OneWay
    <2>6. Kept
        BY <1>2, ServedKeeps
    <2>7. \A r \in replies' : WindowHolds(r.window, r.seqno, served')
        BY <2>2, <2>3, <2>4, <2>5 DEF Complete, Known
    <2>8. \A t \in ReceivedSet' : WindowHolds(rtd'[t + 1].window, t, served')
        BY <2>2, <2>4, <2>6 DEF Complete, Known, Kept
    <2>9. \A r1, r2 \in replies' : r1.seqno < r2.seqno => r1.count < r2.count
        <3> SUFFICES ASSUME NEW r1 \in replies', NEW r2 \in replies', r1.seqno < r2.seqno
                     PROVE  r1.count < r2.count
            OBVIOUS
        <3>1. \A r \in replies : r.seqno \in Nat /\ r.seqno <= s /\ r.count \in 1..sc.receivedCount
            BY <2>1, <2>2, <2>3 DEF Known, Counts
        <3>2. CASE r1 \in replies /\ r2 \in replies
            BY <2>2, <3>2 DEF Complete
        <3>3. CASE r1 \in replies /\ r2 \notin replies
            BY <2>1, <2>2, <2>5, <3>1, <3>3
        <3>4. CASE r1 \notin replies
            BY <2>1, <2>5, <3>1, <3>4
        <3> QED BY <3>2, <3>3, <3>4
    <2> QED BY <2>2, <2>3, <2>7, <2>8, <2>9 DEF Complete
<1> QED BY <1>1, <1>2, ServedStep

LEMMA ServedFinite == TypeOK /\ Sending /\ Known => IsFiniteSet(served)
<1> SUFFICES ASSUME TypeOK, Sending, Known PROVE IsFiniteSet(served)
    OBVIOUS
<1>1. sendN \in Nat
    BY TypeParts DEF CountTypes
<1>2. requests \in SUBSET (0..sendN)
    BY <1>1 DEF Sending
<1>3. IsFiniteSet(0..sendN)
    BY <1>1, FS_Interval
<1> QED BY <1>2, <1>3, FS_Subset DEF Known

LEMMA CountsStep ==
    TypeOK /\ Sending /\ Known /\ Complete /\ Counts /\ [Next]_vars => Counts'
<1> SUFFICES ASSUME TypeOK, Sending, Known, Complete, Counts, [Next]_vars PROVE Counts'
    OBVIOUS
<1>0. /\ sc.receivedCount \in Nat /\ serverReceived \in Nat /\ rttN \in Nat /\ late \in Nat
      /\ lastSeqno \in Nat /\ \A r \in replies : r.seqno \in Nat /\ r.count \in Nat
    BY TypeParts, WindowAssumption DEF ServerTypes, CountTypes, NetTypes, Seqno
<1>1. CASE UNCHANGED <<serverVars, replies>>
    <2>1. sc' = sc /\ replies' = replies /\ served' = served /\ inOrder' = inOrder
          /\ once' = once
        BY <1>1 DEF serverVars
    <2>2. CASE Kept
        BY <2>1, <2>2 DEF Counts, Kept
    <2>3. ASSUME NEW r \in replies, Gains(r) PROVE Counts'
        <3>1. serverReceived' = r.count /\ r.count \in 1..sc.receivedCount
            BY <2>3 DEF Gains, Counts
        <3>2. ASSUME inOrder, late' = 0
              PROVE  rttN + 1 <= r.count
            <4>1. late = 0 /\ lastSeqno <= r.seqno
                BY <1>0, <2>3, <3>2 DEF Gains, IsLate
            <4>2. CASE rttN = 0
                BY <1>0, <3>1, <4>2
            <4>3. CASE rttN > 0
                <5>1. lastSeqno \in ReceivedSet /\ rttN <= serverReceived
                    BY <3>2, <4>1, <4>3 DEF Counts
                <5>2. PICK q \in replies : q.seqno = lastSeqno /\ q.count = serverReceived
                    BY <3>2, <4>1, <4>3 DEF Counts
                <5>3. q.seqno < r.seqno
                    BY <1>0, <2>3, <4>1, <5>1, <5>2 DEF Gains
                <5>4. q.count < r.count
                    BY <3>2, <5>3 DEF Complete
                <5> QED BY <1>0, <5>1, <5>2, <5>4
            <4> QED BY <1>0, <4>2, <4>3
        <3>3. /\ lastSeqno' \in ReceivedSet' /\ rttN' = rttN + 1
              /\ lastSeqno' = r.seqno
            BY <2>3 DEF Gains
        <3> QED BY <1>0, <2>1, <3>1, <3>2, <3>3 DEF Counts
    <2> QED BY <2>2, <2>3, ReceivedStep
<1>2. ASSUME NEW s \in requests, Served(s), Echo(s) \/ OneWay(s) PROVE Counts'
    <2>1. /\ served' = served \cup {s} /\ sc'.receivedCount = sc.receivedCount + 1
          /\ (inOrder' => inOrder) /\ (once' => once /\ s \notin served)
        BY <1>2 DEF Served
    <2>2. /\ \A r \in replies' : r \in replies \/ r.count = sc'.receivedCount
          /\ replies \subseteq replies'
        BY <1>2 DEF Echo, OneWay
    <2>3. /\ ReceivedSet' = ReceivedSet
          /\ UNCHANGED <<rttN, lastSeqno, serverReceived, late>>
        BY <1>2, ServedKeeps DEF Kept
    <2>4. once' => sc'.receivedCount = Cardinality(served')
        <3>1. IsFiniteSet(served)
            BY ServedFinite
        <3>2. s \notin served => Cardinality(served \cup {s}) = Cardinality(served) + 1
            BY <3>1, FS_AddElement
        <3>3. once => sc.receivedCount = Cardinality(served)
            BY DEF Counts
        <3> QED BY <2>1, <3>2, <3>3
    <2>5. \A r \in replies' : r.count \in 1..sc'.receivedCount
        BY <1>0, <2>1, <2>2 DEF Counts
    <2>6. serverReceived' <= sc'.receivedCount
        BY <1>0, <2>1, <2>3 DEF Counts
    <2>7. inOrder' /\ late' = 0 /\ rttN' > 0 =>
            /\ lastSeqno' \in ReceivedSet'
            /\ \E r \in replies' : r.seqno = lastSeqno' /\ r.count = serverReceived'
            /\ rttN' <= serverReceived'
        BY <2>1, <2>2, <2>3 DEF Counts
    <2> QED BY <2>4, <2>5, <2>6, <2>7 DEF Counts
<1> QED BY <1>1, <1>2, ServedStep

LEMMA RecordedStep ==
    TypeOK /\ Sending /\ Known /\ Complete /\ Recorded /\ [Next]_vars => Recorded'
<1> SUFFICES ASSUME TypeOK, Sending, Known, Complete, Recorded, [Next]_vars PROVE Recorded'
    OBVIOUS
<1>1. CASE UNCHANGED <<serverVars, replies>>
    BY <1>1 DEF serverVars, Recorded, Marked
<1>2. ASSUME NEW s \in requests, Served(s), Echo(s) PROVE Recorded'
    BY <1>2 DEF Echo, Served, Recorded
<1>3. ASSUME NEW s \in requests, Served(s), OneWay(s) PROVE Recorded'
    <2> DEFINE g == Grown(owr.trips, s)
    <2>1. /\ s \in Nat /\ served \subseteq Nat /\ sc.lastSeqno \in Nat
          /\ sc.receivedCount \in Nat
        BY TypeParts, WindowAssumption DEF ServerTypes, NetTypes, Seqno
    <2>2. /\ owr.trips \in Seq(BOOLEAN) /\ owr.n \in Nat /\ owr.duplicates \in Nat
          /\ owr.lastSeqno \in Nat
          /\ owr \in [trips: Seq(BOOLEAN), n: Nat, duplicates: Nat, late: Nat, lastSeqno: Seqno]
        BY TypeParts, WindowAssumption DEF OneWayTypes, Seqno
    <2>3. Len(owr.trips) \in Nat /\ DOMAIN owr.trips = 1..Len(owr.trips)
        BY <2>2, LenProperties
    <2>4. /\ g \in Seq(BOOLEAN) /\ Len(g) \in Nat /\ Len(g) >= s + 2
          /\ Len(g) >= Len(owr.trips)
          /\ \A i \in 1..Len(g) : g[i] = (i \in 1..Len(owr.trips) /\ owr.trips[i])
        BY <2>1, <2>2, <2>3, GrownTrips, LenProperties
    <2>5. /\ served' = served \cup {s} /\ sc'.lastSeqno = s
          /\ sc'.receivedCount = sc.receivedCount + 1
          /\ inOrder' => inOrder /\ (served = {} \/ s >= sc.lastSeqno)
        BY <1>3 DEF Served
    <2>6. trip = "oneway" /\ trip' = "oneway"
        BY <1>3 DEF OneWay, Served
    <2>7. owr.n + owr.duplicates = sc.receivedCount
        BY <2>6 DEF Recorded
    <2>8. s \in Marked <=> g[s + 1]
        BY <2>1, <2>3, <2>4 DEF Marked
    <2>9. \A t \in Nat : t \in Marked <=> t + 1 \in 1..Len(g) /\ g[t + 1]
        BY <2>3, <2>4 DEF Marked
    <2>10. CASE g[s + 1]
        <3>1. owr' = [owr EXCEPT !.trips = SubSeq(g, 1, Len(g) - 1), !.duplicates = @ + 1]
            BY <1>3, <2>10, Zenon DEF OneWay, RecordOneWay
        <3>2. /\ owr'.n = owr.n /\ owr'.duplicates = owr.duplicates + 1
              /\ owr'.late = owr.late /\ owr'.lastSeqno = owr.lastSeqno
              /\ owr'.trips = SubSeq(g, 1, Len(g) - 1)
            BY <2>2, <3>1
        <3> HIDE DEF g
        <3>3. \A i \in 1..Len(g)-1 : g[i] \in BOOLEAN
            BY <2>4, ElementOfSeq
        <3>4. /\ Len(owr'.trips) = Len(g) - 1
              /\ \A i \in 1..Len(g)-1 : owr'.trips[i] = g[i]
            BY <2>1, <2>4, <3>2, <3>3, SubSeqProperties
        <3>5. s \in Marked
            BY <2>8, <2>10
        <3>6. ASSUME owr'.duplicates <= 1 \/ inOrder'
              PROVE  /\ s \in served /\ Marked = served /\ owr.n = Cardinality(served)
                     /\ \A t \in served : t + 2 <= Len(g)
            <4>1. owr.duplicates = 0 \/ inOrder
                BY <2>2, <2>5, <3>2, <3>6
            <4>2. Marked = served /\ owr.n = Cardinality(served)
                BY <2>2, <2>6, <4>1 DEF Recorded
            <4>3. CASE owr.duplicates = 0
                <5>1. \A t \in served : t + 2 <= Len(owr.trips)
                    BY <2>6, <4>3 DEF Recorded
                <5> QED BY <2>1, <2>3, <2>4, <3>5, <4>2, <5>1
            <4>4. CASE owr.duplicates # 0
                <5>1. inOrder /\ (served = {} \/ s >= sc.lastSeqno)
                    BY <2>2, <2>5, <3>2, <3>6, <4>4
                <5>2. \A t \in served : t <= s
                    BY <2>1, <5>1 DEF Complete
                <5> QED BY <2>1, <2>4, <3>5, <4>2, <5>2
            <4> QED BY <4>3, <4>4
        <3>7. ASSUME owr'.duplicates <= 1 \/ inOrder'
              PROVE  Marked' = served' /\ owr'.n = Cardinality(served')
            <4>1. served' = served
                BY <2>5, <3>6, <3>7
            <4>2. \A t \in Nat : t \in Marked' <=> t + 1 \in 1..Len(g)-1 /\ g[t + 1]
                BY <2>4, <3>4 DEF Marked
            <4>3. \A t \in Nat : t \in Marked' <=> t \in Marked
                BY <2>1, <2>4, <2>9, <3>6, <3>7, <4>2
            <4>4. Marked' \subseteq Nat /\ Marked \subseteq Nat
                BY <2>4, <3>4 DEF Marked
            <4> QED BY <3>2, <3>6, <3>7, <4>1, <4>3, <4>4
        <3>8. inOrder' => /\ owr'.late = 0
                          /\ owr'.lastSeqno = IF served' = {} THEN 0 ELSE sc'.lastSeqno
            <4> SUFFICES ASSUME inOrder' PROVE owr'.late = 0 /\ owr'.lastSeqno = s
                BY <2>5
            <4>1. s \in served /\ inOrder /\ s >= sc.lastSeqno
                BY <2>5, <3>6
            <4>2. s <= sc.lastSeqno
                BY <4>1 DEF Complete
            <4>3. owr.late = 0 /\ owr.lastSeqno = sc.lastSeqno
                BY <2>6, <4>1 DEF Recorded
            <4> QED BY <2>1, <3>2, <4>1, <4>2, <4>3
        <3>9. owr'.n + owr'.duplicates = sc'.receivedCount /\ owr'.duplicates # 0
            BY <2>1, <2>2, <2>5, <2>7, <3>2
        <3>10. served' # {} => sc'.lastSeqno \in served'
            BY <2>5
        <3> QED BY <3>7, <3>8, <3>9, <3>10 DEF Recorded
    <2>11. CASE ~g[s + 1]
        <3>1. owr' = [owr EXCEPT !.trips = [g EXCEPT ![s + 1] = TRUE], !.n = @ + 1,
                                 !.late = IF s < owr.lastSeqno THEN @ + 1 ELSE @,
                                 !.lastSeqno = s]
            BY <1>3, <2>11, Zenon DEF OneWay, RecordOneWay
        <3>2. /\ owr'.n = owr.n + 1 /\ owr'.duplicates = owr.duplicates
              /\ owr'.late = IF s < owr.lastSeqno THEN owr.late + 1 ELSE owr.late
              /\ owr'.lastSeqno = s
              /\ owr'.trips = [g EXCEPT ![s + 1] = TRUE]
            BY <2>2, <3>1
        <3> HIDE DEF g
        <3>3. s + 1 \in 1..Len(g)
            BY <2>1, <2>4
        <3>4. /\ Len(owr'.trips) = Len(g)
              /\ owr'.trips[s + 1]
              /\ \A i \in 1..Len(g) : i # s + 1 => owr'.trips[i] = g[i]
            <4>1. Len(owr'.trips) = Len(g)
                BY <2>4, <3>2, <3>3, ExceptSeq
            <4>2. g \in [1..Len(g) -> BOOLEAN]
                BY <2>4, LenProperties
            <4> QED BY <3>2, <3>3, <4>1, <4>2
        <3>5. Marked' = Marked \cup {s}
            <4>1. \A t \in Nat : t \in Marked' <=> t + 1 \in 1..Len(g) /\ (t = s \/ g[t + 1])
                BY <2>1, <2>4, <3>4 DEF Marked
            <4>2. \A t \in Nat : t \in Marked' <=> t \in Marked \/ t = s
                BY <2>1, <2>9, <3>3, <4>1
            <4>3. Marked' \subseteq Nat /\ Marked \subseteq Nat
                BY <2>4, <3>4 DEF Marked
            <4> QED BY <2>1, <4>2, <4>3
        <3>6. ASSUME owr'.duplicates <= 1 \/ inOrder'
              PROVE  Marked' = served' /\ owr'.n = Cardinality(served')
            <4>1. Marked = served /\ owr.n = Cardinality(served)
                BY <2>5, <2>6, <3>2, <3>6 DEF Recorded
            <4>2. s \notin served
                BY <2>8, <2>11, <4>1
            <4>3. Cardinality(served \cup {s}) = Cardinality(served) + 1
                BY <4>2, ServedFinite, FS_AddElement
            <4> QED BY <2>5, <3>2, <3>5, <4>1, <4>3
        <3>7. owr'.duplicates = 0 => \A t \in served' : t + 2 <= Len(owr'.trips)
            <4> SUFFICES ASSUME owr'.duplicates = 0, NEW t \in served'
                         PROVE  t + 2 <= Len(owr'.trips)
                OBVIOUS
            <4>1. CASE t = s
                BY <2>4, <3>4, <4>1
            <4>2. CASE t \in served
                <5>1. t + 2 <= Len(owr.trips)
                    BY <2>6, <3>2, <4>2 DEF Recorded
                <5>2. /\ Len(owr'.trips) = Len(g) /\ Len(g) >= Len(owr.trips)
                      /\ Len(g) \in Nat /\ Len(owr.trips) \in Nat
                    BY <2>3, <2>4, <3>4
                <5>3. t \in Nat
                    BY <2>1, <4>2
                <5> QED BY <5>1, <5>2, <5>3
            <4> QED BY <2>5, <4>1, <4>2
        <3>8. inOrder' => /\ owr'.late = 0
                          /\ owr'.lastSeqno = IF served' = {} THEN 0 ELSE sc'.lastSeqno
            <4> SUFFICES ASSUME inOrder' PROVE owr'.late = 0
                BY <2>5, <3>2
            <4>1. /\ owr.late = 0
                  /\ owr.lastSeqno = IF served = {} THEN 0 ELSE sc.lastSeqno
                  /\ served = {} \/ s >= sc.lastSeqno
                BY <2>5, <2>6 DEF Recorded
            <4> QED BY <2>1, <3>2, <4>1
        <3>9. owr'.n + owr'.duplicates = sc'.receivedCount
            BY <2>1, <2>2, <2>5, <2>7, <3>2
        <3>10. served' # {} => sc'.lastSeqno \in served'
            BY <2>5
        <3> QED BY <3>6, <3>7, <3>8, <3>9, <3>10 DEF Recorded
    <2> QED BY <2>10, <2>11
<1> QED BY <1>1, <1>2, <1>3, ServedStep

-----------------------------------------------------------------------------
(* The theorems                                                            *)

LEMMA Inductive == Spec => []IInv
<1>1. Init => IInv
    <2> SUFFICES ASSUME Init PROVE IInv
        OBVIOUS
    <2>1. Len(rtd) = 0 /\ ReceivedSet = {} /\ served = {} /\ replies = {} /\ requests = {}
        BY EmptySeq DEF Init, ReceivedSet, Sent
    <2>2. Sending
        BY <2>1, RoundTripAssumption DEF Sending, Init
    <2>3. Known /\ Counted
        BY <2>1, FS_EmptySet DEF Known, Counted, Init
    <2>4. Sound /\ Complete
        BY <2>1 DEF Sound, Says, Complete, Init
    <2>5. Counts
        BY <2>1, FS_EmptySet DEF Counts, Init
    <2>6. Recorded
        <3>1. Marked = {} /\ owr.n = 0 /\ owr.duplicates = 0 /\ owr.late = 0
              /\ owr.lastSeqno = 0 /\ sc.receivedCount = 0
            BY EmptySeq DEF Init, Marked
        <3> QED BY <2>1, <3>1, FS_EmptySet DEF Recorded
    <2> QED BY <2>2, <2>3, <2>4, <2>5, <2>6, InitTypes DEF IInv
<1>2. IInv /\ [Next]_vars => IInv'
    BY TypeStep, SendingStep, KnownStep, CountedStep, SoundStep, CompleteStep, CountsStep,
       RecordedStep DEF IInv
<1> QED BY <1>1, <1>2, PTL DEF Spec

\* Every variable of the test keeps the type its code declares.
THEOREM TypeCorrect == Spec => []TypeOK
BY Inductive, PTL DEF IInv

\* No reply is one that the client has no round trip for (recordPreSend before
\* the send, removeLastStamps only after a failed one).
THEOREM NoUnknownSeqnoHolds == Spec => []NoUnknownSeqno
<1>1. IInv => NoUnknownSeqno
    BY DEF IInv, Known, NoUnknownSeqno
<1> QED BY <1>1, Inductive, PTL

\* What an ended client has sent and received.
LEMMA EndCounts ==
    ASSUME IInv, Ended
    PROVE  /\ sendN \in Nat /\ Len(rtd) = sendN
           /\ IsFiniteSet(served) /\ Cardinality(served) <= sendN
           /\ IsFiniteSet(Sent) /\ Cardinality(Sent) = sendN
<1>1. sendN \in Nat /\ spc = "ended"
    BY TypeParts DEF IInv, CountTypes, Ended
<1>2. Len(rtd) = sendN /\ requests \subseteq 0..sendN-1
    BY <1>1 DEF IInv, Sending
<1>3. IsFiniteSet(0..sendN-1) /\ Cardinality(0..sendN-1) = sendN
    BY <1>1, FS_Interval
<1>4. served \in SUBSET (0..sendN-1)
    BY <1>2 DEF IInv, Known
<1>5. IsFiniteSet(served) /\ Cardinality(served) <= Cardinality(0..sendN-1)
    BY <1>3, <1>4, FS_Subset
<1>6. Sent = 0..sendN-1
    BY <1>2 DEF Sent
<1> QED BY <1>1, <1>2, <1>3, <1>5, <1>6

\* The unsigned subtraction of the packet loss never wraps (newResult).
THEOREM NoLossUnderflowHolds == Spec => []NoLossUnderflow
<1>1. IInv => NoLossUnderflow
    <2> SUFFICES ASSUME IInv PROVE NoLossUnderflow
        OBVIOUS
    <2>1. rttN = Cardinality({s \in Sent : Received(s)})
        BY DEF IInv, Counted, ReceivedSet
    <2>2. ASSUME Ended PROVE rttN <= sendN
        <3>1. ReceivedSet \in SUBSET Sent
            BY DEF ReceivedSet
        <3>2. Cardinality(ReceivedSet) <= Cardinality(Sent)
            BY <2>2, <3>1, EndCounts, FS_Subset
        <3> QED BY <2>2, <3>2, EndCounts DEF IInv, Counted
    <2> QED BY <2>1, <2>2 DEF NoLossUnderflow
<1> QED BY <1>1, Inductive, PTL

\* Nor does that of the upstream loss when no request is repeated.  With
\* requests and replies in order that of the downstream loss is short by no
\* more than the duplicates, so that it wraps only when there are some
\* (newResult, Result.PacketsReceived).
THEOREM NoDirectionUnderflowHolds == Spec => []NoDirectionUnderflow
<1>1. IInv => NoDirectionUnderflow
    <2> SUFFICES ASSUME IInv PROVE NoDirectionUnderflow
        OBVIOUS
    <2>1. serverReceived \in Nat /\ sc.receivedCount \in Nat
        BY TypeParts DEF IInv, CountTypes, ServerTypes
    <2>2. Ended /\ once => serverReceived <= sendN
        <3> SUFFICES ASSUME Ended, once PROVE serverReceived <= sendN
            OBVIOUS
        <3>1. serverReceived <= sc.receivedCount /\ sc.receivedCount = Cardinality(served)
            BY DEF IInv, Counts
        <3>2. Cardinality(served) <= sendN /\ sendN \in Nat
            BY EndCounts
        <3> QED BY <2>1, <3>1, <3>2
    <2>3. inOrder /\ late = 0 => PacketsReceived <= serverReceived + duplicates
        <3>1. rttN \in Nat /\ duplicates \in Nat
            BY TypeParts DEF IInv, CountTypes
        <3>2. inOrder /\ late = 0 /\ rttN > 0 => rttN <= serverReceived
            BY DEF IInv, Counts
        <3> QED BY <2>1, <3>1, <3>2 DEF PacketsReceived
    <2> QED BY <2>2, <2>3 DEF NoDirectionUnderflow
<1> QED BY <1>1, Inductive, PTL

\* A packet marked LostDown was received by the server and its reply was not
\* by the client, whatever the network does (serveEcho, newResult).
THEOREM LostDownSoundHolds == Spec => []LostDownSound
<1>1. IInv => LostDownSound
    <2> SUFFICES ASSUME IInv, NEW s \in Sent, Lost(s) = "down"
                 PROVE  s \in served /\ ~Received(s)
        BY DEF LostDownSound
    <2>1. ~Received(s) /\ \E i \in Sent : TellsReceived(i, s)
        BY DEF Lost
    <2>2. PICK i \in Sent : TellsReceived(i, s)
        BY <2>1
    <2>3. i \in ReceivedSet /\ s < i /\ i - s \in rtd[i + 1].window
        BY <2>2 DEF TellsReceived, Tells, ReceivedSet
    <2>4. SeqSub(i, i - s) \in served
        BY <2>3 DEF IInv, Sound, Says
    <2>5. Len(rtd) \in Nat
        BY TypeParts, LenProperties DEF IInv, TripTypes
    <2>6. SeqSub(i, i - s) = s
        BY <2>3, <2>5 DEF Sent, SeqSub
    <2> QED BY <2>1, <2>4, <2>6
<1> QED BY <1>1, Inductive, PTL

\* With requests in order a packet marked LostUp was not received by the
\* server (serveEcho, newResult).
THEOREM LostUpExactHolds == Spec => []LostUpExact
<1>1. IInv => LostUpExact
    <2> SUFFICES ASSUME IInv, inOrder, NEW s \in Sent, Lost(s) = "up", s \in served
                 PROVE  FALSE
        BY DEF LostUpExact
    <2>1. /\ ~ \E i \in Sent : TellsReceived(i, s)
          /\ \E i \in Sent : Tells(i, s)
        BY DEF Lost
    <2>2. PICK i \in Sent : Tells(i, s)
        BY <2>1
    <2>3. i - s \notin rtd[i + 1].window
        BY <2>1, <2>2 DEF TellsReceived
    <2>4. i \in ReceivedSet /\ s < i /\ i - s < WindowBits
        BY <2>2 DEF Tells, ReceivedSet
    <2>5. WindowHolds(rtd[i + 1].window, i, served)
        BY <2>4 DEF IInv, Complete
    <2>6. Len(rtd) \in Nat
        BY TypeParts, LenProperties DEF IInv, TripTypes
    <2> QED BY <2>3, <2>4, <2>5, <2>6 DEF WindowHolds, Sent
<1> QED BY <1>1, Inductive, PTL

\* The status of packet s that the first n replies justify.
LostBy(n, s) ==
    IF s >= n THEN "true"
    ELSE IF Received(s) THEN "false"
    ELSE IF \E i \in 0..n-1 : TellsReceived(i, s) THEN "down"
    ELSE IF \E i \in 0..n-1 : Tells(i, s) THEN "up"
    ELSE "true"

\* A turn of the loop adds what one more reply says.
LEMMA AttributeBy ==
    ASSUME Len(rtd) \in Nat, NEW i \in Sent, NEW s \in Sent,
           NEW lost, DOMAIN lost = Sent, lost[s] = LostBy(i, s)
    PROVE  Attribute(lost, i)[s] = LostBy(i + 1, s)
<1> DEFINE told(m) == \E k \in 0..m-1 : Tells(k, s)
           down(m) == \E k \in 0..m-1 : TellsReceived(k, s)
           by(m) == IF Received(s) THEN "false" ELSE IF down(m) THEN "down"
                    ELSE IF told(m) THEN "up" ELSE "true"
<1>1. i \in Nat /\ s \in Nat /\ (0..(i + 1) - 1) = (0..i-1) \cup {i}
    BY DEF Sent
<1>2. Attribute(lost, i)[s] =
        IF s = i /\ Received(i) THEN "false"
        ELSE IF ~Tells(i, s) THEN lost[s]
        ELSE IF TellsReceived(i, s) THEN IF lost[s] # "false" THEN "down" ELSE lost[s]
        ELSE IF lost[s] \in {"true", "up"} THEN "up" ELSE lost[s]
    BY DEF Attribute
<1>3. \A k \in 0..i : (Tells(k, s) => s < k) /\ (TellsReceived(k, s) => Tells(k, s))
    BY Zenon DEF Tells, TellsReceived
<1>4. (told(i + 1) <=> told(i) \/ Tells(i, s)) /\ (down(i + 1) <=> down(i) \/ TellsReceived(i, s))
    BY <1>1
<1>5. CASE s >= i
    <2>1. ~Tells(i, s) /\ ~told(i + 1) /\ ~down(i + 1) /\ lost[s] = "true"
        BY <1>1, <1>3, <1>5 DEF LostBy
    <2>2. LostBy(i + 1, s) = IF s = i /\ Received(s) THEN "false" ELSE "true"
        BY <1>1, <1>5, <2>1 DEF LostBy
    <2> QED BY <1>2, <2>1, <2>2
<1>6. CASE s < i
    <2>1. s # i /\ LostBy(i + 1, s) = by(i + 1) /\ lost[s] = by(i)
        BY <1>1, <1>6 DEF LostBy
    <2>2. TellsReceived(i, s) => Tells(i, s)
        BY <1>1, <1>3
    <2> HIDE DEF told, down
    <2> QED BY <1>2, <1>4, <2>1, <2>2
<1> QED BY <1>1, <1>5, <1>6

\* The lost statuses of result.go.
Statuses == {"false", "down", "up", "true"}

\* LostAfter is a function, defined by its equation.
LEMMA LostAfterEquation ==
    ASSUME Len(rtd) \in Nat
    PROVE  /\ LostAfter[0] = [s \in Sent |-> "true"]
           /\ \A n \in 1..Len(rtd) : LostAfter[n] = Attribute(LostAfter[n - 1], n - 1)
<1> DEFINE S == [Sent -> Statuses]
           base == [s \in Sent |-> "true"]
           step == [n \in 1..Len(rtd) |-> [lost \in S |-> Attribute(lost, n - 1)]]
           Is(f) == f = [n \in 0..Len(rtd) |->
                           IF n = 0 THEN [s \in Sent |-> "true"] ELSE Attribute(f[n - 1], n - 1)]
<1>1. base \in S
    BY DEF Statuses
<1>2. \A n \in 1..Len(rtd), lost \in S : Attribute(lost, n - 1) \in S
    BY DEF Attribute, Statuses
<1>3. step \in [1..Len(rtd) -> [S -> S]]
    BY <1>2
<1>4. PICK f \in [0..Len(rtd) -> S] :
         Iterated(f, Len(rtd), base, step)
    <2> HIDE DEF S, base, step
    <2> QED BY <1>1, <1>3, Iterates
<1>5. \A n \in 0..Len(rtd) : n # 0 => step[n][f[n - 1]] = Attribute(f[n - 1], n - 1)
    OBVIOUS
<1>6. Is(f)
    <2> HIDE DEF S, step
    <2> QED BY <1>4, <1>5 DEF Iterated
<1>7. Is(LostAfter)
    <2> HIDE DEF Is
    <2>1. LostAfter = CHOOSE g : Is(g)
        BY DEF LostAfter, Is
    <2> QED BY <1>6, <2>1
<1> QED BY <1>7

\* n turns of the loop leave the statuses that n replies justify.
LEMMA LoopIsLost ==
    ASSUME Len(rtd) \in Nat
    PROVE  LostLoop = [s \in Sent |-> Lost(s)]
<1> DEFINE P == {n \in Nat : n <= Len(rtd) => LostAfter[n] = [s \in Sent |-> LostBy(n, s)]}
<1>1. 0 \in P
    <2>1. \A s \in Sent : LostBy(0, s) = "true"
        BY DEF Sent, LostBy
    <2> QED BY <2>1, LostAfterEquation
<1>2. ASSUME NEW n \in Nat, n \in P PROVE n + 1 \in P
    <2> SUFFICES ASSUME n + 1 <= Len(rtd)
                 PROVE  LostAfter[n + 1] = [s \in Sent |-> LostBy(n + 1, s)]
        OBVIOUS
    <2>1. LostAfter[n] = [s \in Sent |-> LostBy(n, s)]
        BY <1>2
    <2>2. n + 1 \in 1..Len(rtd) /\ (n + 1) - 1 = n /\ n \in Sent
        BY DEF Sent
    <2>3. LostAfter[n + 1] = Attribute(LostAfter[n], n)
        BY <2>2, LostAfterEquation
    <2>4. \A s \in Sent : Attribute(LostAfter[n], n)[s] = LostBy(n + 1, s)
        BY <2>1, <2>2, AttributeBy
    <2> QED BY <2>1, <2>3, <2>4 DEF Attribute
<1>3. LostLoop = [s \in Sent |-> LostBy(Len(rtd), s)]
    <2>1. Len(rtd) \in P
        <3> HIDE DEF P
        <3> QED BY <1>1, <1>2, NaturalsIn
    <2> QED BY <2>1 DEF LostLoop
<1>4. \A s \in Sent : LostBy(Len(rtd), s) = Lost(s)
    BY DEF Sent, LostBy, Lost
<1> QED BY <1>3, <1>4

\* The nested loop of newResult computes the status that the replies together
\* justify, for any number of packets and any width of the window.
THEOREM LoopAgreesHolds == Spec => []LoopAgrees
<1>1. TypeOK => LoopAgrees
    BY LoopIsLost, LenProperties DEF TypeOK, LoopAgrees
<1> QED BY <1>1, TypeCorrect, PTL

\* The one-way recorder's received, duplicate and lost packets are right until
\* a second duplicate, or in order (onewayrecorder.go, onewayresult.go).
THEOREM OneWayLossHolds == Spec => []OneWayLoss
<1>1. IInv => OneWayLoss
    <2> SUFFICES ASSUME IInv, trip = "oneway" PROVE OneWayLoss
        BY DEF OneWayLoss
    <2>1. /\ owr.n + owr.duplicates = sc.receivedCount
          /\ owr.duplicates <= 1 \/ inOrder => Marked = served /\ owr.n = Cardinality(served)
          /\ inOrder => owr.late = 0
        BY DEF IInv, Recorded
    <2>2. ASSUME inOrder, served # {}
          PROVE  owr.lastSeqno + 1 - owr.n = Cardinality((0..owr.lastSeqno) \ served)
        <3>1. owr.lastSeqno = sc.lastSeqno /\ owr.n = Cardinality(served)
            BY <2>1, <2>2 DEF IInv, Recorded
        <3>2. sc.lastSeqno \in Nat /\ served \subseteq Nat
            BY TypeParts, WindowAssumption DEF IInv, ServerTypes, Seqno
        <3>3. served \in SUBSET (0..sc.lastSeqno)
            BY <2>2, <3>2 DEF IInv, Complete
        <3>4. IsFiniteSet(0..sc.lastSeqno) /\ Cardinality(0..sc.lastSeqno) = sc.lastSeqno + 1
            BY <3>2, FS_Interval
        <3>5. IsFiniteSet(served)
            BY <3>3, <3>4, FS_Subset
        <3>6. (0..sc.lastSeqno) \cap served = served
            BY <3>3
        <3>7. Cardinality((0..sc.lastSeqno) \ served)
                = Cardinality(0..sc.lastSeqno) - Cardinality((0..sc.lastSeqno) \cap served)
            BY <3>4, FS_Difference, Zenon
        <3>8. Cardinality((0..sc.lastSeqno) \cap served) = owr.n /\ owr.n \in Nat
            BY <3>1, <3>5, <3>6, FS_CardinalityType
        <3> QED BY <3>1, <3>2, <3>4, <3>7, <3>8
    <2> QED BY <2>1, <2>2 DEF OneWayLoss
<1> QED BY <1>1, Inductive, PTL
=============================================================================
