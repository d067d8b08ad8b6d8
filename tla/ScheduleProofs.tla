-------------------------- MODULE ScheduleProofs --------------------------
(***************************************************************************)
(* Proofs about Schedule, for all intervals, durations and offsets, and    *)
(* however long sends, delays and sleeps take: no slot of the test is used *)
(* twice, no more is sent than result.go and the recorder expect, and the  *)
(* error a CompTimer divides by stays within the errors it accepts.        *)
(***************************************************************************)
EXTENDS Schedule, Lemmas

\* A CompTimer pushes no error above MaxErrorFactor, 2.
MaxError == 2 * Scale
CumulativeAverager ==
    {a \in [kind : {"avg"}, sum : Nat, n : Nat] : a.sum <= MaxError * a.n}
ExponentialAverager == [kind : {"exp"}, avg : 0..MaxError]
WindowAverager == [kind : {"win"}, values : [1..Window -> 0..MaxError], pos : 0..Window-1,
                   filled : BOOLEAN]
Averagers == CumulativeAverager \cup ExponentialAverager \cup WindowAverager

-----------------------------------------------------------------------------
(* Division                                                                *)

LEMMA Division ==
    ASSUME NEW x \in Int, NEW y \in Nat \ {0}
    PROVE  /\ x \div y \in Int /\ x % y \in 0..y-1
           /\ x = y * (x \div y) + (x % y)
OBVIOUS

\* The quotient is the highest whose product is not above.
LEMMA QuotientLow ==
    ASSUME NEW x \in Int, NEW y \in Nat \ {0}, NEW k \in Int, y * k <= x
    PROVE  k <= x \div y
<1> DEFINE q == x \div y
           r == x % y
<1>1. q \in Int /\ r \in 0..y-1 /\ x = y * q + r
    BY Division
<1> HIDE DEF q, r
<1>2. SUFFICES ASSUME q + 1 <= k PROVE FALSE
    BY <1>1 DEF q
<1>3. y * (q + 1) <= y * k
    BY <1>1, <1>2
<1>4. y * (q + 1) = y * q + y
    BY <1>1
<1> QED BY <1>1, <1>3, <1>4

LEMMA QuotientHigh ==
    ASSUME NEW x \in Int, NEW y \in Nat \ {0}, NEW k \in Int, x < y * (k + 1)
    PROVE  x \div y <= k
<1> DEFINE q == x \div y
           r == x % y
<1>1. q \in Int /\ r \in 0..y-1 /\ x = y * q + r
    BY Division
<1> HIDE DEF q, r
<1>2. SUFFICES ASSUME k + 1 <= q PROVE FALSE
    BY <1>1 DEF q
<1>3. y * (k + 1) <= y * q
    BY <1>1, <1>2
<1> QED BY <1>1, <1>3

\* A multiple has no remainder.
LEMMA NoRemainder ==
    ASSUME NEW y \in Nat \ {0}, NEW k \in Int
    PROVE  (y * k) % y = 0
<1> DEFINE x == y * k
           q == x \div y
           r == x % y
<1>1. x \in Int
    OBVIOUS
<1>2. q \in Int /\ r \in 0..y-1 /\ x = y * q + r
    BY <1>1, Division
<1>3. k <= q
    BY <1>1, QuotientLow
<1>4. x < y * (k + 1)
    OBVIOUS
<1>5. q <= k
    BY <1>1, <1>4, QuotientHigh
<1> HIDE DEF q, r
<1>6. q = k
    BY <1>2, <1>3, <1>5
<1> QED BY <1>2, <1>6 DEF r

-----------------------------------------------------------------------------
(* The invariants                                                          *)

Types ==
    /\ cfg \in Configs
    /\ mode \in {"start", "send", "plan", "sleep", "frame", "done"}
    /\ now \in Int /\ start \in Int /\ first \in Int /\ prev \in Int /\ tsent \in Int
    /\ tnext \in Int /\ frame \in Int /\ frameend \in Int
    /\ sent \in Nat /\ early \in Nat
    /\ avg \in Averagers

\* The time t is nearest to slot k of the test, or after it.
Reaches(t, k) == 2 * (I * k) <= 2 * (t - start) + I

\* The time t reaches a slot of the test after that of the last batch.
Ahead(t) == \E k \in Int : Reaches(t, k) /\ k > Slot(tsent) /\ I * k < cfg.duration

\* A test by a timer: the slot that is waited for is one after that of the
\* last batch; and as many slots lie behind as batches were sent, less one for
\* each sleep that ended early.
ByTimer ==
    /\ start <= now /\ start <= tsent /\ tsent <= now /\ start <= first
    /\ sent = 0 => mode = "send" /\ early = 0
    /\ sent > 0 => first <= tsent
    /\ early > 0 => cfg.timer = "comp"
    /\ mode = "frame" => FALSE
    /\ cfg.offset >= 0 => \E late \in Lates : (start - late - cfg.offset) % I = 0
    /\ mode = "sleep" =>
         \E k \in Int : tnext = start + I * k /\ k > Slot(tsent) /\ I * k < cfg.duration
    /\ mode = "send" /\ sent > 0 =>
         \/ Ahead(now)
         \/ /\ early > 0
            /\ Slot(tsent) + early >= Slot(first) + sent
            /\ I * (sent - early) < cfg.duration
    /\ sent > 0 => /\ Slot(tsent) + early >= Slot(first) + sent - 1
                   /\ I * (sent - 1 - early) < cfg.duration
    /\ sent > 1 /\ early = 0 => Slot(prev) < Slot(tsent)

\* A test by frames: at least interval frames pass for each batch.
FramesPassed ==
    /\ mode # "sleep"
    /\ mode = "start" => sent = 0
    /\ mode \in {"frame", "send"} => sent = 0 \/ I * (sent - 1) <= cfg.duration
    /\ mode = "frame" => sent = 0 \/ tnext >= (frameend - cfg.duration) + I * sent
    /\ mode = "send" => frame >= (frameend - cfg.duration) + I * sent
    /\ mode = "plan" => sent > 0 /\ frame >= (frameend - cfg.duration) + I * (sent - 1)
    /\ sent <= 1 \/ I * (sent - 2) <= cfg.duration

IInv ==
    /\ Types
    /\ ByFrames => FramesPassed
    /\ ~ByFrames => IF mode = "start" THEN sent = 0 /\ early = 0 ELSE ByTimer

\* What the assumption says of the configuration of a run.
LEMMA Config ==
    ASSUME Types
    PROVE  /\ I \in Nat \ {0} /\ cfg.duration \in Nat \ {0}
           /\ cfg.timer \in {"simple", "comp", "busy", "hybrid", "frames"}
           /\ ~ByFrames => cfg.offset \in Int
BY ScheduleAssumption DEF Types, I, ByFrames

-----------------------------------------------------------------------------
(* Slots                                                                   *)

LEMMA SlotType ==
    ASSUME Types, NEW t \in Int
    PROVE  Slot(t) \in Int
<1> DEFINE x == 2 * (t - start) + I
           y == 2 * I
<1>1. x \in Int /\ y \in Nat \ {0}
    BY Config DEF Types
<1> HIDE DEF x, y
<1>2. x \div y \in Int
    BY <1>1, Division
<1> QED BY <1>2 DEF Slot, x, y

LEMMA SlotLow ==
    ASSUME Types, NEW t \in Int, NEW k \in Int, Reaches(t, k)
    PROVE  k <= Slot(t)
<1> DEFINE i == I
<1>1. i \in Nat \ {0} /\ start \in Int
    BY Config DEF Types
<1>2. 2 * (i * k) <= 2 * (t - start) + i
    BY DEF Reaches
<1> SUFFICES k <= (2 * (t - start) + i) \div (2 * i)
    BY DEF Slot
<1> HIDE DEF i
<1>3. (2 * i) * k = 2 * (i * k)
    BY <1>1
<1> QED BY <1>1, <1>2, <1>3, QuotientLow

LEMMA SlotReached ==
    ASSUME Types, NEW t \in Int
    PROVE  Reaches(t, Slot(t)) /\ ~Reaches(t, Slot(t) + 1)
<1> DEFINE i == I
           s == Slot(t)
           x == 2 * (t - start) + i
<1>1. i \in Nat \ {0} /\ start \in Int
    BY Config DEF Types
<1>2. s = x \div (2 * i)
    BY DEF Slot
<1> SUFFICES 2 * (i * s) <= x /\ ~(2 * (i * (s + 1)) <= x)
    BY DEF Reaches
<1>3. s \in Int
    BY SlotType
<1> HIDE DEF i, s
<1>4. x \in Int /\ 2 * i \in Nat \ {0}
    BY <1>1
<1> HIDE DEF x
<1>5. x % (2 * i) \in 0..(2 * i)-1 /\ x = (2 * i) * s + (x % (2 * i))
    BY <1>2, <1>4, Division
<1>6. (2 * i) * s = 2 * (i * s) /\ 2 * (i * (s + 1)) = 2 * (i * s) + 2 * i
    BY <1>1, <1>3
<1>7. i * s \in Int
    BY <1>1, <1>3
<1> QED BY <1>1, <1>4, <1>5, <1>6, <1>7

\* Later times reach what earlier ones do.
LEMMA ReachesOn ==
    ASSUME Types, NEW t \in Int, NEW u \in Int, NEW k \in Int, t <= u, Reaches(t, k)
    PROVE  Reaches(u, k)
<1> DEFINE i == I
           p == 2 * (i * k)
<1>1. i \in Nat \ {0} /\ start \in Int
    BY Config DEF Types
<1>2. p \in Int /\ p <= 2 * (t - start) + i
    BY <1>1 DEF Reaches
<1> HIDE DEF i, p
<1>3. p <= 2 * (u - start) + i
    BY <1>1, <1>2
<1> QED BY <1>3 DEF Reaches, i, p

\* A time no more than half an interval before that of a slot reaches it.
LEMMA ReachesWake ==
    ASSUME Types, NEW t \in Int, NEW k \in Int,
           tnext = start + I * k, ~(2 * (tnext - t) > I)
    PROVE  Reaches(t, k)
<1> DEFINE i == I
           p == i * k
<1>1. i \in Nat \ {0} /\ start \in Int /\ tnext \in Int
    BY Config DEF Types
<1>2. p \in Int /\ tnext = start + p /\ ~(2 * (tnext - t) > i)
    BY <1>1
<1> HIDE DEF i, p
<1>3. 2 * p <= 2 * (t - start) + i
    BY <1>1, <1>2
<1> QED BY <1>3 DEF Reaches, i, p

LEMMA NotEarly ==
    ASSUME Types, NEW t \in Int, t >= tnext
    PROVE  ~(2 * (tnext - t) > I)
<1> DEFINE i == I
<1>1. i \in Nat \ {0} /\ tnext \in Int
    BY Config DEF Types
<1> HIDE DEF i
<1> SUFFICES ~(2 * (tnext - t) > i)
    BY DEF i
<1> QED BY <1>1

\* The next time is that of a slot after the one of the last batch.
LEMMA NextSlot ==
    ASSUME Types, NEW t \in Int, tsent <= t
    PROVE  \E k \in Int : NextTime(t) = start + I * k /\ k > Slot(tsent)
<1> DEFINE i == I
           a == (tsent - start) \div i
           b == (tsent - start) % i
           q == (t - start) \div i
           h == i \div 2
           n == IF b < h THEN q + 1 ELSE q + 2
<1>1. i \in Nat \ {0} /\ start \in Int /\ tsent \in Int
    BY Config DEF Types
<1>2. a \in Int /\ b \in 0..i-1 /\ tsent - start = i * a + b
    BY <1>1, Division
<1>3. q \in Int
    BY <1>1, Division
<1>4. h \in Nat /\ 2 * h <= i
    BY <1>1
<1>5. NextTime(t) = start + i * q + (IF b < h THEN i ELSE 2 * i)
    BY DEF NextTime
<1>6. ~Reaches(tsent, Slot(tsent) + 1) /\ Reaches(tsent, Slot(tsent)) /\ Slot(tsent) \in Int
    BY <1>1, SlotReached, SlotType
<1>7. 2 * (i * Slot(tsent)) <= 2 * (tsent - start) + i
    BY <1>6 DEF Reaches
<1> DEFINE s == Slot(tsent)
<1> HIDE DEF s, i, n, h
<1>8. a <= q
    <2>1. i * a <= t - start
        BY <1>1, <1>2
    <2> HIDE DEF a
    <2> QED BY <1>1, <1>2, <2>1, QuotientLow
<1> HIDE DEF a, b, q
<1>9. n \in Int /\ NextTime(t) = start + i * n
    BY <1>1, <1>3, <1>5 DEF n
<1>10. s < n
    <2>1. s \in Int /\ 2 * (i * s) <= 2 * (i * a + b) + i
        BY <1>2, <1>6, <1>7 DEF s
    <2>2. CASE b < h
        <3>1. 2 * (i * s) < 2 * (i * (a + 1))
            BY <1>1, <1>2, <1>4, <2>1, <2>2
        <3>2. s < a + 1
            <4> SUFFICES ASSUME a + 1 <= s PROVE FALSE
                BY <1>2, <2>1
            <4>1. i * (a + 1) <= i * s
                BY <1>1, <1>2, <2>1
            <4> QED BY <1>1, <1>2, <2>1, <3>1, <4>1
        <3> QED BY <1>2, <1>3, <1>8, <2>1, <2>2, <3>2 DEF n
    <2>3. CASE ~(b < h)
        <3>1. 2 * (i * s) < 2 * (i * (a + 2))
            BY <1>1, <1>2, <2>1
        <3>2. s < a + 2
            <4> SUFFICES ASSUME a + 2 <= s PROVE FALSE
                BY <1>2, <2>1
            <4>1. i * (a + 2) <= i * s
                BY <1>1, <1>2, <2>1
            <4> QED BY <1>1, <1>2, <2>1, <3>1, <4>1
        <3> QED BY <1>2, <1>3, <1>8, <2>1, <2>3, <3>2 DEF n
    <2> QED BY <2>2, <2>3
<1> QED BY <1>9, <1>10 DEF s, i

-----------------------------------------------------------------------------
(* The timers                                                              *)

LEMMA ErrorType == MaxError \in Nat \ {0} /\ Scale \in Nat \ {0}
BY AveragerAssumption DEF MaxError

LEMMA NewType ==
    ASSUME NEW kind \in {"avg", "exp", "win"}
    PROVE  NewAverager(kind) \in Averagers
BY AveragerAssumption, ErrorType
   DEF NewAverager, Averagers, CumulativeAverager, ExponentialAverager, WindowAverager

\* A product of bounds, and a quotient that is at most one of them.
LEMMA QuotientBound ==
    ASSUME NEW x \in Nat, NEW y \in Nat \ {0}, NEW k \in Nat, x <= y * k
    PROVE  x \div y \in 0..k
<1>1. y * 0 = 0 /\ y * (k + 1) = y * k + y /\ y * k \in Int
    OBVIOUS
<1>2. x \div y \in Int /\ 0 <= x \div y
    BY <1>1, Division, QuotientLow
<1>3. x \div y <= k
    BY <1>1, QuotientHigh
<1> QED BY <1>2, <1>3

\* The sum of a WindowAverager is one over all values, none above the bound.
LEMMA SumBound ==
    ASSUME NEW n \in Nat, NEW values, \A i \in 1..n : values[i] \in 0..MaxError
    PROVE  SumOf(values, n) \in 0..(MaxError * n)
<1> DEFINE m == MaxError
           Is(f) == f = [i \in 0..n |-> IF i = 0 THEN 0 ELSE f[i - 1] + values[i]]
           sum == CHOOSE f : Is(f)
           step == [i \in 1..n |-> [x \in Nat |-> x + values[i]]]
<1>1. m \in Nat
    BY ErrorType
<1> HIDE DEF m
<1>2. step \in [1..n -> [Nat -> Nat]]
    BY <1>1
<1>3. PICK f \in [0..n -> Nat] : Iterated(f, n, 0, step)
    <2> HIDE DEF step
    <2> QED BY <1>2, Iterates
<1>4. \A i \in 1..n : step[i][f[i - 1]] = f[i - 1] + values[i]
    OBVIOUS
<1>5. Is(f)
    <2> HIDE DEF step
    <2> QED BY <1>3, <1>4 DEF Iterated
<1>6. Is(sum)
    <2> HIDE DEF Is
    <2> QED BY <1>5
<1> HIDE DEF sum
<1> DEFINE P == {i \in Nat : i <= n => sum[i] \in 0..(m * i)}
<1>7. 0 \in P
    BY <1>1, <1>6
<1>8. ASSUME NEW i \in Nat, i \in P PROVE i + 1 \in P
    <2> SUFFICES ASSUME i + 1 <= n PROVE sum[i + 1] \in 0..(m * (i + 1))
        OBVIOUS
    <2>1. sum[i + 1] = sum[i] + values[i + 1]
        BY <1>6
    <2>2. sum[i] \in 0..(m * i) /\ values[i + 1] \in 0..m
        BY <1>8 DEF m
    <2>3. m * (i + 1) = m * i + m /\ m * i \in Int
        BY <1>1
    <2> QED BY <1>1, <2>1, <2>2, <2>3
<1>9. n \in P
    <2> HIDE DEF P
    <2> QED BY <1>7, <1>8, NaturalsIn
<1>10. SumOf(values, n) = sum[n]
    BY DEF SumOf, sum
<1> QED BY <1>9, <1>10 DEF m

\* The average of errors that a CompTimer accepts is within them.
LEMMA AverageBound ==
    ASSUME Types
    PROVE  Average(avg) \in 0..MaxError
<1>1. CASE avg \in WindowAverager
    <2> DEFINE n == Available(avg)
               s == SumOf(avg.values, n)
    <2>1. avg.kind = "win" /\ n \in Nat /\ n <= Window
        BY <1>1, AveragerAssumption DEF WindowAverager, Available
    <2>2. \A i \in 1..n : avg.values[i] \in 0..MaxError
        BY <1>1, <2>1, AveragerAssumption DEF WindowAverager
    <2>3. Average(avg) = IF n = 0 THEN 0 ELSE s \div n
        BY <2>1 DEF Average
    <2>4. s \in 0..(MaxError * n)
        <3> HIDE DEF n
        <3> QED BY <2>1, <2>2, SumBound
    <2> HIDE DEF n, s
    <2>5. MaxError * n = n * MaxError /\ n * MaxError \in Int
        BY <2>1, ErrorType
    <2>6. n # 0 => s \div n \in 0..MaxError
        BY <2>1, <2>4, <2>5, ErrorType, QuotientBound
    <2> QED BY <2>3, <2>6, ErrorType
<1>2. CASE avg \in CumulativeAverager
    <2> DEFINE n == avg.n
               s == avg.sum
    <2>1. avg.kind = "avg" /\ s \in Nat /\ n \in Nat /\ s <= MaxError * n
        BY <1>2 DEF CumulativeAverager
    <2>2. Average(avg) = IF n = 0 THEN 0 ELSE s \div n
        BY <2>1 DEF Average
    <2> HIDE DEF n, s
    <2>3. MaxError * n = n * MaxError
        BY <2>1, ErrorType
    <2>4. n # 0 => s \div n \in 0..MaxError
        BY <2>1, <2>3, ErrorType, QuotientBound
    <2> QED BY <2>2, <2>4, ErrorType
<1>3. CASE avg \in ExponentialAverager
    BY <1>3 DEF Average, ExponentialAverager
<1> QED BY <1>1, <1>2, <1>3 DEF Types, Averagers

LEMMA PushType ==
    ASSUME Types, NEW v \in 0..MaxError
    PROVE  Push(avg, v) \in Averagers
<1>1. CASE avg \in WindowAverager
    <2>1. avg.kind = "win" /\ avg.pos \in Nat /\ Window \in Nat \ {0}
        BY <1>1, AveragerAssumption DEF WindowAverager
    <2>2. (avg.pos + 1) % Window \in 0..Window-1
        <3> DEFINE p == avg.pos + 1
        <3>1. p \in Int
            BY <2>1
        <3> HIDE DEF p
        <3>2. p % Window \in 0..Window-1
            BY <2>1, <3>1, Division
        <3> QED BY <3>2 DEF p
    <2>3. Push(avg, v) = [avg EXCEPT !.values[avg.pos + 1] = v, !.pos = (avg.pos + 1) % Window,
                                     !.filled = avg.filled \/ avg.pos + 1 = Window]
        BY <1>1, <2>1 DEF Push, WindowAverager
    <2> DEFINE vs == [avg.values EXCEPT ![avg.pos + 1] = v]
    <2>4. vs \in [1..Window -> 0..MaxError]
        BY <1>1 DEF WindowAverager
    <2>5. Push(avg, v) = [avg EXCEPT !.values = vs, !.pos = (avg.pos + 1) % Window,
                                     !.filled = avg.filled \/ avg.pos + 1 = Window]
        BY <1>1, <2>3 DEF WindowAverager
    <2>6. (avg.filled \/ avg.pos + 1 = Window) \in BOOLEAN
        BY <1>1 DEF WindowAverager
    <2> HIDE DEF vs
    <2>7. Push(avg, v) \in WindowAverager
        BY <1>1, <2>2, <2>4, <2>5, <2>6 DEF WindowAverager
    <2> QED BY <2>7 DEF Averagers
<1>2. CASE avg \in CumulativeAverager
    <2> DEFINE s == avg.sum + v
               n == avg.n + 1
    <2>1. Push(avg, v) = [avg EXCEPT !.sum = s, !.n = n]
        BY <1>2 DEF Push, CumulativeAverager
    <2>2. s \in Nat /\ n \in Nat /\ s <= MaxError * n
        <3> DEFINE k == avg.n
        <3>1. avg.sum \in Nat /\ k \in Nat /\ avg.sum <= MaxError * k
            BY <1>2 DEF CumulativeAverager
        <3>2. MaxError * (k + 1) = MaxError * k + MaxError /\ MaxError * k \in Int
            BY <3>1, ErrorType
        <3> HIDE DEF k
        <3>3. s \in Nat /\ s <= MaxError * (k + 1)
            BY <3>1, <3>2, ErrorType
        <3> QED BY <3>1, <3>3 DEF k
    <2> HIDE DEF s, n
    <2>3. Push(avg, v) \in CumulativeAverager
        BY <1>2, <2>1, <2>2 DEF CumulativeAverager
    <2> QED BY <2>3 DEF Averagers
<1>3. CASE avg \in ExponentialAverager
    <2> DEFINE a == avg.avg
               x == v + (AlphaPart - 1) * a
    <2>1. a \in 0..MaxError /\ AlphaPart \in Nat \ {0} /\ AlphaPart - 1 \in Nat
        BY <1>3, AveragerAssumption DEF ExponentialAverager
    <2>2. x \in Nat /\ x <= AlphaPart * MaxError
        <3> DEFINE k == AlphaPart - 1
                   m == MaxError
        <3>1. k \in Nat /\ m \in Nat /\ a \in 0..m /\ v \in 0..m /\ AlphaPart = k + 1
            BY <2>1, ErrorType
        <3> HIDE DEF a, k, m
        <3>2. k * a \in Nat /\ k * a <= k * m /\ (k + 1) * m = k * m + m /\ k * m \in Nat
            BY <3>1
        <3>3. v + k * a \in Nat /\ v + k * a <= (k + 1) * m
            BY <3>1, <3>2
        <3> QED BY <3>1, <3>3 DEF a, k, m
    <2> HIDE DEF x
    <2>3. x \div AlphaPart \in 0..MaxError
        BY <2>1, <2>2, ErrorType, QuotientBound
    <2>4. Push(avg, v) = [avg EXCEPT !.avg = IF a = 0 THEN v ELSE x \div AlphaPart]
        BY <1>3 DEF Push, ExponentialAverager, x
    <2>5. Push(avg, v) \in ExponentialAverager
        BY <1>3, <2>1, <2>3, <2>4 DEF ExponentialAverager
    <2> QED BY <2>5 DEF Averagers
<1> QED BY <1>1, <1>2, <1>3 DEF Types, Averagers

\* What a sleep that took its time teaches.
LEMMA LearnedType ==
    ASSUME Types, NEW d \in Int, NEW t \in Int, t >= now
    PROVE  Learned(d, t) \in Averagers
<1> DEFINE s == t - now
           x == Scale * s
<1>1. s \in Nat /\ x \in Nat /\ avg \in Averagers
    BY AveragerAssumption DEF Types
<1>2. d > 0 /\ s <= 2 * d => x \div d \in 0..MaxError
    <2> SUFFICES ASSUME d > 0, s <= 2 * d PROVE x \div d \in 0..MaxError
        OBVIOUS
    <2>1. x <= d * MaxError
        <3> HIDE DEF s
        <3>1. Scale * s <= Scale * (2 * d)
            BY <1>1, ErrorType
        <3>2. Scale * (2 * d) = d * (2 * Scale)
            BY ErrorType
        <3> QED BY <3>1, <3>2 DEF MaxError
    <2> HIDE DEF x
    <2> QED BY <1>1, <2>1, ErrorType, QuotientBound
<1>3. Learned(d, t) = IF d > 0 /\ s <= 2 * d THEN Push(avg, x \div d)
                      ELSE IF d < 0 /\ s = 0 THEN Push(avg, 0) ELSE avg
    BY DEF Learned
<1> HIDE DEF s, x
<1> QED BY <1>1, <1>2, <1>3, ErrorType, PushType

\* A compensated sleep ends no earlier than it began.
LEMMA CompLater ==
    ASSUME Types, NEW d \in Int, NEW w \in CompWakes(d)
    PROVE  w[1] \in Int /\ w[1] >= now /\ w[2] \in Averagers
<1>1. Average(avg) \in Nat /\ Scale \in Nat \ {0} /\ now \in Int /\ Lates \subseteq Nat
    BY AveragerAssumption, ScheduleAssumption, AverageBound DEF Types, MaxError
<1>2. Compensated(d) \in Int
    <2> DEFINE a == Average(avg)
               n == d * Scale
    <2>1. n \in Int /\ a \in Nat
        BY <1>1
    <2> HIDE DEF n, a
    <2>2. a # 0 => Quot(n, a) \in Int
        BY <2>1 DEF Quot
    <2> QED BY <2>2 DEF Compensated, n, a
<1>3. PICK t \in SimpleWakes(Compensated(d)) : w = <<t, Learned(Compensated(d), t)>>
    BY Zenon DEF CompWakes
<1>4. PICK late \in Lates : t = now + AtLeast(Compensated(d), 0) + late
    BY Zenon DEF SimpleWakes
<1>5. AtLeast(Compensated(d), 0) \in Nat
    BY <1>2 DEF AtLeast
<1>6. t \in Int /\ t >= now
    BY <1>1, <1>4, <1>5
<1> QED BY <1>2, <1>3, <1>6, LearnedType

LEMMA BusyLater ==
    ASSUME Types, NEW t \in Int, NEW u \in BusyWakes(t)
    PROVE  u \in Int /\ u >= t /\ u >= tnext
BY ScheduleAssumption DEF Types, BusyWakes

\* No sleep ends before it began, and only that of a CompTimer before its time.
LEMMA WakeLater ==
    ASSUME Types, ~ByFrames, NEW w \in Wakes
    PROVE  w[1] \in Int /\ w[1] >= now /\ w[2] \in Averagers /\ (cfg.timer # "comp" => w[1] >= tnext)
<1>1. now \in Int /\ tnext \in Int /\ tnext - now \in Int
    BY DEF Types
<1>2. cfg.timer \in {"simple", "comp", "busy", "hybrid"}
    BY Config DEF ByFrames
<1>3. CASE cfg.timer = "simple"
    <2>1. w[1] \in SimpleWakes(tnext - now) /\ w[2] = avg
        BY <1>3 DEF Wakes
    <2> QED BY <1>1, <2>1, ScheduleAssumption DEF SimpleWakes, AtLeast, Types
<1>4. CASE cfg.timer = "comp"
    <2>1. w \in CompWakes(tnext - now)
        BY <1>4 DEF Wakes
    <2> QED BY <1>1, <1>4, <2>1, CompLater
<1>5. CASE cfg.timer = "busy"
    <2>1. w[1] \in BusyWakes(now) /\ w[2] = avg
        BY <1>5 DEF Wakes
    <2> QED BY <1>1, <2>1, BusyLater DEF Types
<1>6. CASE cfg.timer = "hybrid"
    <2> DEFINE d == Quot((tnext - now) * (SleepPart - 1), SleepPart)
    <2>1. d \in Int
        BY <1>1, ScheduleAssumption DEF Quot
    <2>2. PICK v \in CompWakes(d) : w[1] \in BusyWakes(v[1]) /\ w[2] = v[2]
        BY <1>6 DEF Wakes
    <2> HIDE DEF d
    <2>3. v[1] \in Int /\ v[1] >= now /\ v[2] \in Averagers
        BY <2>1, <2>2, CompLater
    <2>4. w[1] \in Int /\ w[1] >= v[1] /\ w[1] >= tnext
        BY <2>2, <2>3, BusyLater
    <2> QED BY <1>1, <2>2, <2>3, <2>4
<1> QED BY <1>2, <1>3, <1>4, <1>5, <1>6

\* The wait for the offset ends at a time that has it as remainder.
LEMMA OffsetReached ==
    ASSUME Types, ~ByFrames, cfg.offset >= 0
    PROVE  OffsetWait \in Nat /\ (now + OffsetWait - cfg.offset) % I = 0
<1> DEFINE i == I
           o == cfg.offset
           r == now % i
           q == now \div i
           wait == IF r > o THEN i - r + o ELSE o - r
           short == AtLeast(MinWaitingTime - wait, 0)
           n == (short + i - 1) \div i
<1>1. i \in Nat \ {0} /\ o \in Nat /\ now \in Int /\ MinWaitingTime \in Nat
    BY Config, ScheduleAssumption DEF Types
<1>2. OffsetWait = wait + i * n
    BY DEF OffsetWait
<1>3. r \in 0..i-1 /\ q \in Int /\ now = i * q + r
    BY <1>1, Division
<1> HIDE DEF r, q
<1>4. wait \in Nat
    BY <1>1, <1>3
<1>5. short + i - 1 \in Nat
    BY <1>1, <1>4 DEF AtLeast
<1> DEFINE z == short + i - 1
<1>6. z \in Nat /\ i \in Nat \ {0} /\ n = z \div i
    BY <1>1, <1>5
<1> HIDE DEF z, short, n, i
<1>7. n \in Int /\ 0 <= n
    <2>1. i * 0 <= z /\ z \in Int
        BY <1>6
    <2>2. z \div i \in Int /\ 0 <= z \div i
        BY <1>6, <2>1, Division, QuotientLow
    <2> QED BY <1>6, <2>2
<1>8. i * n \in Nat
    BY <1>1, <1>7
<1>9. CASE r > o
    <2>1. now + (wait + i * n) - o = i * (q + 1 + n)
        BY <1>1, <1>3, <1>7, <1>9
    <2>2. q + 1 + n \in Int
        BY <1>3, <1>7
    <2>3. (i * (q + 1 + n)) % i = 0
        BY <1>6, <2>2, NoRemainder
    <2> HIDE DEF wait
    <2> QED BY <1>1, <1>2, <1>4, <1>8, <2>1, <2>3 DEF i, o
<1>10. CASE ~(r > o)
    <2>1. now + (wait + i * n) - o = i * (q + n)
        BY <1>1, <1>3, <1>7, <1>10
    <2>2. q + n \in Int
        BY <1>3, <1>7
    <2>3. (i * (q + n)) % i = 0
        BY <1>6, <2>2, NoRemainder
    <2> HIDE DEF wait
    <2> QED BY <1>1, <1>2, <1>4, <1>8, <2>1, <2>3 DEF i, o
<1> QED BY <1>9, <1>10

-----------------------------------------------------------------------------
(* The steps                                                               *)

LEMMA NextType ==
    ASSUME Types, NEW t \in Int
    PROVE  NextTime(t) \in Int
<1> DEFINE i == I
           q == (t - start) \div i
<1>1. i \in Nat \ {0} /\ start \in Int
    BY Config DEF Types
<1>2. q \in Int
    BY <1>1, Division
<1>3. NextTime(t) = start + i * q + (IF (tsent - start) % i < i \div 2 THEN i ELSE 2 * i)
    BY DEF NextTime
<1> HIDE DEF i, q
<1> QED BY <1>1, <1>2, <1>3

LEMMA TypesStep ==
    ASSUME Types, ByFrames => FramesPassed, [Next]_vars
    PROVE  Types'
<1>1. /\ I \in Nat \ {0} /\ cfg.duration \in Nat
      /\ SendTimes \subseteq Nat /\ Delays \subseteq Nat /\ Lates \subseteq Nat
    BY Config, ScheduleAssumption
<1>2. CASE Start
    <2>1. now' \in Int
        BY <1>1, <1>2, OffsetReached DEF Start, Types
    <2> QED BY <1>2, <2>1 DEF Start, Types
<1>3. CASE SendBatch
    BY <1>1, <1>3 DEF SendBatch, Types
<1>4. CASE Plan
    <2>1. PICK d1 \in Delays :
            IF NextTime(now + d1) >= start + cfg.duration
            THEN mode' = "done" /\ UNCHANGED <<now, tnext>>
            ELSE /\ tnext' = NextTime(now + d1) /\ mode' = "sleep"
                 /\ \E d2 \in Delays : now' = now + d1 + d2
        BY <1>4 DEF Plan
    <2>2. now + d1 \in Int /\ NextTime(now + d1) \in Int
        BY <1>1, NextType DEF Types
    <2>3. now' \in Int /\ tnext' \in Int /\ mode' \in {"done", "sleep"}
        BY <1>1, <2>1, <2>2 DEF Types
    <2> QED BY <1>4, <2>3 DEF Plan, Types
<1>5. CASE Sleep
    <2>1. ~ByFrames
        BY <1>5 DEF Sleep, FramesPassed
    <2> QED BY <1>5, <2>1, WakeLater DEF Sleep, Types
<1>6. CASE FrameStart
    BY <1>6 DEF FrameStart, Types, timeVars
<1>7. CASE FrameWake
    BY <1>1, <1>7 DEF FrameWake, Types, timeVars
<1>8. CASE FrameSend
    BY <1>8 DEF FrameSend, Types, timeVars
<1>9. CASE FramePlan
    BY <1>1, <1>9 DEF FramePlan, Types, timeVars
<1>10. CASE Tick
    BY <1>10 DEF Tick, Types, timeVars
<1>11. CASE Cancelled \/ UNCHANGED vars
    BY <1>11 DEF Cancelled, Types, timeVars, vars
<1> QED
    BY <1>2, <1>3, <1>4, <1>5, <1>6, <1>7, <1>8, <1>9, <1>10, <1>11 DEF Next, Client

\* A run by timers does not take the steps of one by frames, nor the reverse.
LEMMA FramesStep ==
    ASSUME Types, FramesPassed, ByFrames, [Next]_vars
    PROVE  FramesPassed'
<1> DEFINE i == I
           d == cfg.duration
<1>1. i \in Nat \ {0} /\ d \in Nat \ {0} /\ sent \in Nat /\ frame \in Int /\ frameend \in Int
    BY Config DEF Types
<1>2. i' = i /\ d' = d
    BY DEF Next, Client, vars, I, Start, SendBatch, Plan, Sleep, FrameStart, FrameWake,
           FrameSend, FramePlan, Tick, Cancelled
<1>3. i * (sent - 1) \in Int /\ i * (sent - 2) \in Int /\ i * sent \in Int
      /\ i * (sent - 1) = i * sent - i /\ i * (sent - 2) = i * sent - 2 * i
    BY <1>1
<1>4. i * 0 = 0
    BY <1>1
<1> HIDE DEF i, d
<1>5. CASE FrameStart
    BY <1>1, <1>2, <1>5 DEF FrameStart, FramesPassed, i, d
<1>6. CASE FrameWake
    <2>1. mode = "frame" /\ frame >= tnext
        BY <1>6 DEF FrameWake, Reached
    <2>2. sent' = sent /\ frame' = frame /\ mode' = "send"
          /\ frameend' = IF sent = 0 THEN frame + d ELSE frameend
        BY <1>6 DEF FrameWake, d
    <2>3. sent = 0 \/ i * (sent - 1) <= d
        BY <2>1 DEF FramesPassed, i, d
    <2>4. sent = 0 \/ tnext >= (frameend - d) + i * sent
        BY <2>1 DEF FramesPassed, i, d
    <2>5. sent <= 1 \/ i * (sent - 2) <= d
        BY DEF FramesPassed, i, d
    <2>6. tnext \in Int
        BY DEF Types
    <2>7. frame' >= (frameend' - d) + i * sent'
        BY <1>1, <1>3, <1>4, <2>1, <2>2, <2>4, <2>6
    <2> QED BY <1>2, <2>2, <2>3, <2>5, <2>7 DEF FramesPassed, i, d
<1>7. CASE FrameSend
    <2>1. mode = "send" /\ sent' = sent + 1 /\ mode' = "plan" /\ UNCHANGED <<frame, frameend>>
        BY <1>7 DEF FrameSend
    <2>2. sent = 0 \/ i * (sent - 1) <= d
        BY <2>1 DEF FramesPassed, i, d
    <2>3. frame >= (frameend - d) + i * sent
        BY <2>1 DEF FramesPassed, i, d
    <2>4. sent' - 1 = sent /\ sent' - 2 = sent - 1 /\ sent' > 0
        BY <1>1, <2>1
    <2>5. frame' >= (frameend' - d) + i * (sent' - 1)
        BY <2>1, <2>3, <2>4
    <2>6. sent' <= 1 \/ i * (sent' - 2) <= d
        BY <1>1, <2>1, <2>2, <2>4
    <2> QED BY <1>2, <2>1, <2>4, <2>5, <2>6 DEF FramesPassed, i, d
<1>8. CASE FramePlan
    <2>1. mode = "plan" /\ sent' = sent /\ UNCHANGED <<frame, frameend>>
          /\ (mode' = "done" \/ (mode' = "frame" /\ tnext' = frame + i /\ frame <= frameend))
        BY <1>1, <1>8 DEF FramePlan, i
    <2>2. sent > 0 /\ frame >= (frameend - d) + i * (sent - 1)
          /\ (sent <= 1 \/ i * (sent - 2) <= d)
        BY <2>1 DEF FramesPassed, i, d
    <2>3. mode' = "frame" => /\ i * (sent - 1) <= d
                             /\ tnext' >= (frameend' - d) + i * sent
        BY <1>1, <1>3, <2>1, <2>2
    <2> QED BY <1>2, <2>1, <2>2, <2>3 DEF FramesPassed, i, d
<1>9. CASE Tick
    <2>1. frame' = frame + 1 /\ UNCHANGED <<mode, sent, tnext, frameend>>
        BY <1>9 DEF Tick
    <2>2. \A x \in Int : frame >= x => frame' >= x
        BY <1>1, <2>1
    <2>3. (frameend - d) + i * sent \in Int /\ (frameend - d) + i * (sent - 1) \in Int
        BY <1>1, <1>3
    <2> QED BY <1>2, <2>1, <2>2, <2>3 DEF FramesPassed, i, d
<1>10. CASE Cancelled
    <2>1. mode \in {"sleep", "frame"} /\ mode' = "done" /\ sent' = sent
        BY <1>10 DEF Cancelled
    <2>2. sent <= 1 \/ i * (sent - 2) <= d
        BY DEF FramesPassed, i, d
    <2> QED BY <1>2, <2>1, <2>2 DEF FramesPassed, i, d
<1>11. CASE UNCHANGED vars
    BY <1>2, <1>11 DEF vars, FramesPassed, i, d
<1>12. ~Start /\ ~SendBatch /\ ~Plan /\ ~Sleep
    BY DEF Start, SendBatch, Plan, Sleep, FramesPassed
<1> QED
    BY <1>5, <1>6, <1>7, <1>8, <1>9, <1>10, <1>11, <1>12 DEF Next, Client

LEMMA TimerStep ==
    ASSUME Types, ByTimer, mode # "start", ~ByFrames, [Next]_vars
    PROVE  ByTimer' /\ mode' # "start"
<1> DEFINE i == I
<1>1. /\ i \in Nat \ {0} /\ now \in Int /\ start \in Int /\ first \in Int /\ prev \in Int
      /\ tsent \in Int /\ tnext \in Int /\ sent \in Nat /\ cfg.duration \in Nat \ {0}
      /\ SendTimes \subseteq Nat /\ Delays \subseteq Nat /\ Lates \subseteq Nat
    BY Config, ScheduleAssumption DEF Types
<1>2. I' = I /\ cfg' = cfg
    BY DEF Next, Client, vars, I, Start, SendBatch, Plan, Sleep, FrameStart, FrameWake,
           FrameSend, FramePlan, Tick, Cancelled
<1>3. Types'
    BY TypesStep
<1>4. CASE SendBatch
    <2>1. PICK s \in SendTimes : now' = now + s
        BY <1>4 DEF SendBatch
    <2>2. /\ mode = "send" /\ mode' = "plan" /\ prev' = tsent /\ tsent' = now'
          /\ sent' = sent + 1 /\ first' = IF sent = 0 THEN now ELSE first
          /\ UNCHANGED <<cfg, start, tnext, early>>
        BY <1>4 DEF SendBatch
    <2>3. now' \in Int /\ now' >= now
        BY <1>1, <2>1
    <2>4. \A t \in Int : Slot(t)' = Slot(t)
        BY <1>2, <2>2 DEF Slot
    <2>5. \A t \in Int : t <= now' => Slot(t) <= Slot(now')
        <3> SUFFICES ASSUME NEW t \in Int, t <= now' PROVE Slot(t) <= Slot(now')
            OBVIOUS
        <3>1. Reaches(t, Slot(t)) /\ Slot(t) \in Int
            BY SlotReached, SlotType
        <3> QED BY <2>3, <3>1, ReachesOn, SlotLow
    <2>6. ASSUME sent > 0
          PROVE  /\ Slot(now') + early >= Slot(first) + sent
                 /\ i * (sent - early) < cfg.duration
                 /\ early = 0 => Slot(tsent) < Slot(now')
        <3>1. /\ Slot(now') \in Int /\ Slot(tsent) \in Int /\ Slot(first) \in Int
              /\ early \in Nat
            BY <1>1, <2>3, SlotType DEF Types
        <3>2. Slot(tsent) <= Slot(now')
            BY <1>1, <2>3, <2>5 DEF ByTimer
        <3>3. CASE Ahead(now)
            <4>1. PICK k \in Int : Reaches(now, k) /\ k > Slot(tsent) /\ i * k < cfg.duration
                BY <3>3 DEF Ahead
            <4>2. Reaches(now', k)
                BY <1>1, <2>3, <4>1, ReachesOn
            <4>3. k <= Slot(now')
                BY <2>3, <4>2, SlotLow
            <4>4. Slot(tsent) + early >= Slot(first) + sent - 1 /\ start <= first
                BY <2>6 DEF ByTimer
            <4>5. Slot(first) >= 0
                <5>1. i * 0 = 0
                    BY <1>1
                <5>2. Reaches(first, 0)
                    BY <1>1, <4>4, <5>1 DEF Reaches
                <5> QED BY <1>1, <5>2, SlotLow
            <4>6. k >= sent - early
                BY <1>1, <3>1, <4>1, <4>4, <4>5
            <4> HIDE DEF i
            <4>7. i * (sent - early) <= i * k
                BY <1>1, <3>1, <4>6
            <4>8. i * (sent - early) \in Int /\ i * k \in Int
                BY <1>1, <3>1
            <4> QED BY <1>1, <3>1, <4>1, <4>3, <4>4, <4>7, <4>8
        <3>4. CASE /\ early > 0
                   /\ Slot(tsent) + early >= Slot(first) + sent
                   /\ I * (sent - early) < cfg.duration
            BY <1>1, <3>1, <3>2, <3>4
        <3> QED BY <2>2, <2>6, <3>3, <3>4 DEF ByTimer
    <2>7. /\ start' <= now' /\ start' <= tsent' /\ tsent' <= now' /\ start' <= first'
          /\ sent' > 0 /\ first' <= tsent' /\ (early' > 0 => cfg'.timer = "comp")
          /\ mode' = "plan"
        BY <1>1, <1>2, <2>2, <2>3 DEF ByTimer
    <2>8. cfg'.offset >= 0 => \E late \in Lates : (start' - late - cfg'.offset) % I' = 0
        BY <1>2, <2>2 DEF ByTimer
    <2>9. Slot(now') \in Int /\ Slot(now) \in Int /\ Slot(first) \in Int
        BY <1>1, <2>3, SlotType
    <2>10. Slot(tsent') = Slot(tsent)' /\ Slot(prev') = Slot(prev)' /\ Slot(first') = Slot(first)'
        BY <1>2, <2>2 DEF Slot
    <2>11. /\ Slot(tsent') + early' >= Slot(first') + sent' - 1
           /\ i * (sent' - 1 - early') < cfg.duration
           /\ sent' > 1 /\ early' = 0 => Slot(prev') < Slot(tsent')
        <3>1. CASE sent = 0
            <4>1. early = 0 /\ early' = 0 /\ first' = now /\ sent' = 1
                BY <2>2, <3>1 DEF ByTimer
            <4>2. i * (sent' - 1 - early') = 0
                BY <1>1, <4>1
            <4> QED BY <1>1, <2>2, <2>3, <2>5, <2>9, <4>1, <4>2
        <3>2. CASE sent > 0
            <4>1. sent' - 1 = sent /\ early' = early /\ first' = first /\ early \in Nat
                BY <1>1, <2>2, <3>2 DEF Types
            <4>2. i * (sent' - 1 - early') < cfg.duration
                BY <2>6, <3>2, <4>1
            <4> QED BY <1>1, <2>2, <2>6, <2>9, <3>2, <4>1, <4>2
        <3> QED BY <1>1, <3>1, <3>2
    <2> QED BY <1>2, <2>2, <2>7, <2>8, <2>10, <2>11 DEF ByTimer
<1>5. CASE Plan
    <2>1. PICK d1 \in Delays :
            IF NextTime(now + d1) >= start + cfg.duration
            THEN mode' = "done" /\ UNCHANGED <<now, tnext>>
            ELSE /\ tnext' = NextTime(now + d1) /\ mode' = "sleep"
                 /\ \E d2 \in Delays : now' = now + d1 + d2
        BY <1>5 DEF Plan
    <2>2. /\ mode = "plan" /\ UNCHANGED <<cfg, start, first, prev, tsent, sent, early>>
        BY <1>5 DEF Plan
    <2>3. now + d1 \in Int /\ tsent <= now + d1
        BY <1>1 DEF ByTimer
    <2>4. PICK k \in Int : NextTime(now + d1) = start + i * k /\ k > Slot(tsent)
        BY <2>3, NextSlot
    <2>5. now' >= now /\ mode' \in {"done", "sleep"}
        BY <1>1, <2>1
    <2>6. mode' = "sleep" => tnext' = start + i * k /\ i * k < cfg.duration
        <3> HIDE DEF i
        <3>1. i * k \in Int
            BY <1>1
        <3> QED BY <1>1, <2>1, <2>4, <3>1
    <2>7. sent > 0
        BY <1>1, <2>2 DEF ByTimer
    <2>8. Slot(tsent') = Slot(tsent) /\ Slot(tsent)' = Slot(tsent) /\ Slot(prev)' = Slot(prev)
          /\ Slot(first)' = Slot(first)
        BY <1>2, <2>2 DEF Slot
    <2>9. now' \in Int
        BY <1>3 DEF Types
    <2> QED BY <1>1, <1>2, <2>2, <2>4, <2>5, <2>6, <2>7, <2>8, <2>9 DEF ByTimer
<1>6. CASE Sleep
    <2>1. PICK w \in Wakes : now' = w[1] /\ early' = IF 2 * (tnext - now') > I THEN early + 1 ELSE early
        BY <1>6 DEF Sleep
    <2>2. /\ mode = "sleep" /\ mode' = "send"
          /\ UNCHANGED <<cfg, start, first, prev, tsent, sent, tnext>>
        BY <1>6 DEF Sleep
    <2>3. now' \in Int /\ now' >= now /\ (cfg.timer # "comp" => now' >= tnext)
        BY <2>1, WakeLater
    <2>4. PICK k \in Int : tnext = start + i * k /\ k > Slot(tsent) /\ i * k < cfg.duration
        BY <2>2 DEF ByTimer
    <2>5. early' > 0 => cfg.timer = "comp"
        <3>1. early > 0 => cfg.timer = "comp"
            BY DEF ByTimer
        <3>2. now' >= tnext => ~(2 * (tnext - now') > I)
            BY <2>3, NotEarly
        <3> QED BY <2>1, <2>3, <3>1, <3>2
    <2>7. sent > 0 /\ early \in Nat /\ early' \in Nat
        BY <1>1, <1>3, <2>2 DEF ByTimer, Types
    <2>8. Slot(tsent)' = Slot(tsent) /\ Slot(prev)' = Slot(prev) /\ Slot(first)' = Slot(first)
          /\ Slot(tsent) \in Int /\ Slot(first) \in Int
        BY <1>1, <1>2, <2>2, SlotType DEF Slot
    <2>6. /\ Slot(tsent) + early >= Slot(first) + sent - 1
          /\ i * (sent - 1 - early) < cfg.duration
          /\ sent > 1 /\ early = 0 => Slot(prev) < Slot(tsent)
        BY <2>7 DEF ByTimer
    <2>9. /\ Ahead(now)' \/ /\ early' > 0
                            /\ Slot(tsent) + early' >= Slot(first) + sent
                            /\ i * (sent - early') < cfg.duration
          /\ Slot(tsent) + early' >= Slot(first) + sent - 1
          /\ i * (sent - 1 - early') < cfg.duration
          /\ sent > 1 /\ early' = 0 => Slot(prev) < Slot(tsent)
        <3>1. CASE 2 * (tnext - now') > I
            <4>1. early' = early + 1
                BY <2>1, <3>1
            <4>2. sent - early' = sent - 1 - early
                BY <1>1, <2>7, <4>1
            <4>3. i * (sent - 1 - early') <= i * (sent - 1 - early)
                <5> HIDE DEF i
                <5> QED BY <1>1, <2>7, <4>1
            <4>4. i * (sent - 1 - early') \in Int /\ i * (sent - 1 - early) \in Int
                <5> HIDE DEF i
                <5> QED BY <1>1, <2>7
            <4>5. i * (sent - early') < cfg.duration
                BY <2>6, <4>2
            <4> HIDE DEF i
            <4> QED BY <1>1, <2>6, <2>7, <2>8, <4>1, <4>3, <4>4, <4>5
        <3>2. CASE ~(2 * (tnext - now') > I)
            <4>1. early' = early
                BY <2>1, <3>2
            <4>2. Reaches(now', k)
                BY <2>3, <2>4, <3>2, ReachesWake
            <4>3. Reaches(now, k)'
                BY <1>2, <2>2, <4>2 DEF Reaches
            <4>4. Ahead(now)'
                BY <1>2, <2>2, <2>4, <2>8, <4>3 DEF Ahead
            <4> QED BY <2>6, <4>1, <4>4
        <3> QED BY <3>1, <3>2
    <2>10. start <= now' /\ tsent <= now'
        BY <1>1, <2>3 DEF ByTimer
    <2> QED BY <1>1, <1>2, <2>2, <2>4, <2>5, <2>7, <2>8, <2>9, <2>10 DEF ByTimer
<1>7. CASE Cancelled
    <2>1. /\ mode \in {"sleep", "frame"} /\ mode' = "done"
          /\ UNCHANGED <<cfg, now, start, first, prev, tsent, sent, early>>
        BY <1>7 DEF Cancelled, timeVars
    <2>2. Slot(tsent)' = Slot(tsent) /\ Slot(prev)' = Slot(prev) /\ Slot(first)' = Slot(first)
        BY <1>2, <2>1 DEF Slot
    <2> QED BY <1>2, <2>1, <2>2 DEF ByTimer
<1>8. CASE UNCHANGED vars
    <2>1. Slot(tsent)' = Slot(tsent) /\ Slot(prev)' = Slot(prev) /\ Slot(first)' = Slot(first)
        BY <1>2, <1>8 DEF vars, timeVars, Slot
    <2>2. Ahead(now)' <=> Ahead(now)
        BY <1>2, <1>8, <2>1 DEF vars, timeVars, Reaches, Ahead
    <2> QED BY <1>2, <1>8, <2>1, <2>2 DEF vars, timeVars, ByTimer
<1>9. ~Start /\ ~FrameStart /\ ~FrameWake /\ ~FrameSend /\ ~FramePlan /\ ~Tick
    BY DEF Start, FrameStart, FrameWake, FrameSend, FramePlan, Tick, ByTimer
<1> QED BY <1>4, <1>5, <1>6, <1>7, <1>8, <1>9 DEF Next, Client

\* The start of the test, whose offset is that of a whole interval.
LEMMA StartStep ==
    ASSUME Types, mode = "start", sent = 0, early = 0, ~ByFrames, Start
    PROVE  ByTimer' /\ mode' = "send"
<1>1. /\ now \in Int /\ cfg.offset \in Int /\ sent' = 0 /\ early' = 0 /\ mode' = "send"
      /\ start' = now' /\ tsent' = now' /\ first' = now' /\ cfg' = cfg /\ I' = I
    BY Config DEF Start, Types, I
<1>2. now' \in Int /\ (cfg.offset >= 0 => \E late \in Lates : (now' - late - cfg.offset) % I = 0)
    <2>1. CASE cfg.offset >= 0
        <3>1. PICK late \in Lates : now' = now + OffsetWait + late
            BY <2>1 DEF Start
        <3>2. OffsetWait \in Nat /\ (now + OffsetWait - cfg.offset) % I = 0
            BY <2>1, OffsetReached
        <3>3. late \in Nat
            BY ScheduleAssumption
        <3> DEFINE w == OffsetWait
                   o == cfg.offset
        <3>4. now' - late - o = now + w - o /\ now' \in Int
            <4>1. now \in Int /\ w \in Int /\ o \in Int /\ late \in Int /\ now' = now + w + late
                BY <1>1, <3>1, <3>2, <3>3
            <4> HIDE DEF w, o
            <4> QED BY <4>1
        <3> QED BY <3>2, <3>4
    <2>2. CASE ~(cfg.offset >= 0)
        BY <1>1, <2>2 DEF Start
    <2> QED BY <2>1, <2>2
<1>3. cfg'.offset >= 0 => \E late \in Lates : (start' - late - cfg'.offset) % I' = 0
    BY <1>1, <1>2
<1> QED BY <1>1, <1>2, <1>3 DEF ByTimer

LEMMA InitInv ==
    ASSUME Init
    PROVE  IInv
<1>1. cfg \in Configs
    BY DEF Init
<1>2. I \in Nat \ {0}
    BY <1>1, ScheduleAssumption DEF I
<1>3. now \in Int
    BY <1>2 DEF Init, Clock
<1>4. /\ mode = "start" /\ start = 0 /\ first = 0 /\ prev = 0 /\ tsent = 0 /\ sent = 0
      /\ tnext = 0 /\ frame = 0 /\ frameend = 0 /\ early = 0
    BY DEF Init
<1>5. early \in Nat /\ sent \in Nat
    BY <1>4
<1>6. start \in Int /\ first \in Int /\ prev \in Int /\ tsent \in Int /\ tnext \in Int
      /\ frame \in Int /\ frameend \in Int
    BY <1>4
<1>7. mode \in {"start", "send", "plan", "sleep", "frame", "done"}
    BY <1>4
<1>9. avg \in Averagers
    <2>1. ~ByFrames => cfg.averager \in {"avg", "exp", "win"}
        BY <1>1, ScheduleAssumption DEF ByFrames
    <2> QED BY <2>1, NewType DEF Init
<1>8. Types
    BY <1>1, <1>3, <1>5, <1>6, <1>7, <1>9 DEF Types
<1> QED BY <1>4, <1>8 DEF IInv, FramesPassed

LEMMA IInvStep ==
    ASSUME IInv, [Next]_vars
    PROVE  IInv'
<1>1. Types /\ Types'
    BY TypesStep DEF IInv
<1>2. cfg' = cfg /\ ByFrames' = ByFrames
    BY DEF Next, Client, vars, timeVars, ByFrames, Start, SendBatch, Plan, Sleep, FrameStart,
           FrameWake, FrameSend, FramePlan, Tick, Cancelled
<1>3. CASE ByFrames
    BY <1>1, <1>2, <1>3, FramesStep DEF IInv
<1>4. CASE ~ByFrames /\ mode # "start"
    BY <1>1, <1>2, <1>4, TimerStep DEF IInv
<1>5. CASE ~ByFrames /\ mode = "start"
    <2>1. sent = 0 /\ early = 0
        BY <1>5 DEF IInv
    <2>2. CASE Start
        BY <1>1, <1>2, <1>5, <2>1, <2>2, StartStep DEF IInv
    <2>3. CASE UNCHANGED vars
        BY <1>1, <1>2, <1>5, <2>1, <2>3 DEF IInv, vars, timeVars
    <2>4. Start \/ UNCHANGED vars
        BY <1>5 DEF Next, Client, SendBatch, Plan, Sleep, FrameStart, FrameWake, FrameSend,
                    FramePlan, Tick, Cancelled
    <2> QED BY <2>2, <2>3, <2>4
<1> QED BY <1>3, <1>4, <1>5

LEMMA Invariant == Spec => []IInv
<1>1. Init => IInv
    BY InitInv
<1>2. IInv /\ [Next]_vars => IInv'
    BY IInvStep
<1> QED BY <1>1, <1>2, PTL DEF Spec

-----------------------------------------------------------------------------
(* No time and no frame is negative                                        *)

Whole == {now, start, first, prev, tsent, tnext, frame, frameend} \subseteq Nat

\* The next time is that of a slot of the test, which starts at no negative one.
LEMMA WaitWhole ==
    ASSUME IInv, Whole, IInv', Plan
    PROVE  tnext' \in Nat
<1>1. CASE mode' = "sleep"
    <2> DEFINE i == I
    <2>1. i \in Nat \ {0} /\ start \in Nat /\ tsent \in Int /\ ~ByFrames /\ mode = "plan"
        BY Config DEF Plan, IInv, Types, Whole
    <2>2. I' = i /\ start' = start /\ tsent' = tsent /\ Slot(tsent)' = Slot(tsent)
          /\ ~ByFrames'
        BY <2>1 DEF Plan, I, Slot, ByFrames
    <2>3. ByTimer /\ ByTimer'
        BY <1>1, <2>1, <2>2 DEF IInv
    <2>4. PICK k \in Int : tnext' = start + i * k /\ k > Slot(tsent)
        BY <1>1, <2>2, <2>3 DEF ByTimer
    <2>5. 0 <= Slot(tsent) /\ Slot(tsent) \in Int
        <3>1. i * 0 = 0
            BY <2>1
        <3>2. Reaches(tsent, 0)
            BY <2>1, <2>3, <3>1 DEF Reaches, ByTimer
        <3> QED BY <2>1, <3>2, SlotLow, SlotType DEF IInv
    <2> HIDE DEF i
    <2>6. k \in Nat
        BY <2>4, <2>5
    <2>7. i * k \in Nat
        BY <2>1, <2>6
    <2> QED BY <2>1, <2>4, <2>7
<1>2. CASE mode' # "sleep"
    BY <1>2 DEF Plan, Whole
<1> QED BY <1>1, <1>2

LEMMA WholeStep ==
    ASSUME IInv, Whole, IInv', [Next]_vars
    PROVE  Whole'
<1> USE DEF Whole
<1>1. /\ I \in Nat \ {0} /\ cfg.duration \in Nat
      /\ SendTimes \subseteq Nat /\ Delays \subseteq Nat /\ Lates \subseteq Nat
    BY Config, ScheduleAssumption DEF IInv
<1>2. Types
    BY DEF IInv
<1>3. CASE Start
    BY <1>1, <1>2, <1>3, OffsetReached DEF Start
<1>4. CASE SendBatch
    BY <1>1, <1>4 DEF SendBatch
<1>5. CASE Plan
    <2>1. tnext' \in Nat
        BY <1>5, WaitWhole
    <2>2. now' \in Nat
        BY <1>1, <1>5 DEF Plan
    <2> QED BY <1>5, <2>1, <2>2 DEF Plan
<1>6. CASE Sleep
    <2>1. ~ByFrames
        BY <1>6 DEF Sleep, IInv, FramesPassed
    <2>2. PICK w \in Wakes : now' = w[1]
        BY <1>6 DEF Sleep
    <2>3. w[1] \in Int /\ w[1] >= now
        BY <1>2, <2>1, WakeLater
    <2>4. now' \in Nat
        BY <2>2, <2>3
    <2> QED BY <1>6, <2>4 DEF Sleep
<1>7. CASE FrameStart
    BY <1>7 DEF FrameStart, timeVars
<1>8. CASE FrameWake
    BY <1>1, <1>8 DEF FrameWake, timeVars
<1>9. CASE FrameSend
    BY <1>9 DEF FrameSend, timeVars
<1>10. CASE FramePlan
    BY <1>1, <1>10 DEF FramePlan, timeVars
<1>11. CASE Tick
    BY <1>11 DEF Tick, timeVars
<1>12. CASE Cancelled \/ UNCHANGED vars
    BY <1>12 DEF Cancelled, timeVars, vars
<1> QED
    BY <1>3, <1>4, <1>5, <1>6, <1>7, <1>8, <1>9, <1>10, <1>11, <1>12 DEF Next, Client

-----------------------------------------------------------------------------
(* The theorems                                                            *)

\* Every state is well formed, and the average error is one that a CompTimer
\* accepts, with any of the averagers and whatever the sleeps took: none of
\* the values pushed is above MaxErrorFactor (CompTimer.Sleep, averager.go).
THEOREM TypeCorrect == Spec => []TypeOK
<1>1. Init => IInv /\ Whole
    <2> SUFFICES ASSUME Init PROVE IInv /\ Whole
        OBVIOUS
    <2>1. IInv
        BY InitInv
    <2>2. I \in Nat \ {0}
        BY <2>1, Config DEF IInv
    <2>3. now \in Nat
        BY <2>2 DEF Init, Clock
    <2> QED BY <2>1, <2>3 DEF Init, Whole
<1>2. (IInv /\ Whole) /\ [Next]_vars => (IInv /\ Whole)'
    BY IInvStep, WholeStep
<1>3. IInv /\ Whole => TypeOK
    <2> SUFFICES ASSUME IInv, Whole PROVE TypeOK
        OBVIOUS
    <2>1. Average(avg) \in 0..(2 * Scale)
        BY AverageBound DEF IInv, MaxError
    <2> QED BY <2>1 DEF IInv, Types, Whole, TypeOK
<1> QED BY <1>1, <1>2, <1>3, PTL DEF Spec

\* No slot of the test is used by two batches, and the first keeps the
\* offset, unless a CompTimer slept over half an interval too short (Client.send,
\* WaitForIntervalOffset, the timers of timer.go).
THEOREM SlotOnceHolds == Spec => []SlotOnce
<1>1. ASSUME IInv PROVE SlotOnce
    <2> SUFFICES ASSUME ~ByFrames, mode # "start"
                 PROVE  /\ cfg.offset >= 0 => \E late \in Lates : (start - late - cfg.offset) % I = 0
                        /\ early > 0 => cfg.timer = "comp"
                        /\ sent >= 2 /\ early = 0 => Slot(prev) < Slot(tsent)
        BY DEF SlotOnce
    <2>1. ByTimer /\ sent \in Nat
        BY <1>1 DEF IInv, Types
    <2> QED BY <2>1 DEF ByTimer
<1> QED BY <1>1, Invariant, PTL

\* In time, a batch for each interval between the first send and the last and
\* one more: as many slots lie between theirs.
LEMMA SentInTime ==
    ASSUME Types, ByTimer, sent > 0
    PROVE  sent <= pcount(tsent - first, I) + 1 + early
<1> DEFINE i == I
           a == Slot(first)
           b == Slot(tsent)
           t == first
           u == tsent
           s == start
           n == sent - early
<1>1. /\ i \in Nat \ {0} /\ t \in Int /\ u \in Int /\ s \in Int /\ n \in Int
          /\ sent \in Nat /\ early \in Nat
    BY Config DEF Types
<1>2. a \in Int /\ b \in Int /\ b >= a + n - 1 /\ t <= u
    BY <1>1, SlotType DEF ByTimer
<1>3. 2 * (i * b) <= 2 * (u - s) + i /\ ~(2 * (i * (a + 1)) <= 2 * (t - s) + i)
    BY <1>1, SlotReached DEF Reaches
<1> SUFFICES n <= 1 + (u - t) \div i + 1
    <2>1. (u - t) \div i \in Int
        BY <1>1, Division
    <2> QED BY <1>1, <2>1 DEF pcount
<1> HIDE DEF i, a, b, t, u, s, n
<1>4. i * (n - 2) <= u - t
    <2>1. i * (n - 2) + i * (a + 1) <= i * b
        <3>1. i * ((n - 2) + (a + 1)) <= i * b
            BY <1>1, <1>2
        <3>2. i * ((n - 2) + (a + 1)) = i * (n - 2) + i * (a + 1)
            BY <1>1, <1>2
        <3> QED BY <3>1, <3>2
    <2>2. i * (n - 2) \in Int /\ i * (a + 1) \in Int /\ i * b \in Int
        BY <1>1, <1>2
    <2> QED BY <1>1, <1>3, <2>1, <2>2
<1>5. n - 2 <= (u - t) \div i
    BY <1>1, <1>4, QuotientLow
<1>6. (u - t) \div i \in Int
    BY <1>1, Division
<1> QED BY <1>1, <1>5, <1>6

\* No more is sent than newResult expects from the times of the sends, but for
\* one batch, nor than newRecorder made room for; for each sleep that ended more
\* than half an interval early, which only a CompTimer's do, it may be one
\* more.  With frames, two batches more than the intervals of the test (pcount,
\* result.go, Client.send_synced).
THEOREM SentBoundHolds == Spec => []SentBound
<1>1. ASSUME IInv PROVE SentBound
    <2> DEFINE i == I
               d == cfg.duration
    <2>1. Types /\ sent \in Nat /\ i \in Nat \ {0} /\ d \in Nat \ {0}
        BY <1>1, Config DEF IInv, Types
    <2>2. d \div i \in Int /\ i * 0 = 0
        BY <2>1, Division
    <2>3. ASSUME NEW n \in Int, i * n <= d PROVE n <= d \div i
        BY <2>1, <2>3, QuotientLow
    <2>4. 0 <= d \div i
        BY <2>1, <2>2, <2>3
    <2>5. CASE ByFrames
        <3>1. sent <= 1 \/ i * (sent - 2) <= d
            BY <1>1, <2>5 DEF IInv, FramesPassed
        <3>2. sent <= d \div i + 2
            BY <2>1, <2>2, <2>3, <2>4, <3>1
        <3> QED BY <2>5, <3>2 DEF SentBound
    <2>6. CASE ~ByFrames
        <3> SUFFICES ASSUME sent > 0
                     PROVE  /\ sent <= pcount(tsent - first, I) + 1 + early
                            /\ sent <= 1 + d \div i + early
            BY <2>6 DEF SentBound, pcount
        <3>1. ByTimer /\ early \in Nat
            BY <1>1, <2>1, <2>6 DEF IInv, Types
        <3>2. i * (sent - 1 - early) < d
            BY <3>1 DEF ByTimer
        <3>3. i * (sent - 1 - early) \in Int
            BY <2>1, <3>1
        <3>4. sent <= 1 + d \div i + early
            BY <2>1, <2>2, <2>3, <2>4, <3>1, <3>2, <3>3
        <3> QED BY <2>1, <3>1, <3>4, SentInTime
    <2> QED BY <2>5, <2>6
<1> QED BY <1>1, Invariant, PTL
=============================================================================
