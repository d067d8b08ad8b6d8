------------------------------ MODULE Schedule ------------------------------
(***************************************************************************)
(* When the client sends: the loops of Client.send and Client.send_synced, *)
(* with the timers they sleep with, the averagers that correct the timers  *)
(* and the frame counter another process writes into shared memory.  What  *)
(* is sent is RoundTrip.tla's and Exchange.tla's.                          *)
(*                                                                         *)
(* Time is in units of which an interval has a few; a batch is the         *)
(* Multiply packets sent together.  A division rounds towards zero, as in  *)
(* the code, of the units here and of nanoseconds there.                   *)
(***************************************************************************)
EXTENDS Averager

CONSTANTS
    Configs,             \* [timer, averager, interval, duration, offset] or
                         \* [timer |-> "frames", interval, duration], in frames
    MinWaitingTime,
    SleepPart,           \* the hybrid timer sleeps 1 - 1/SleepPart of the time
    SendTimes,           \* bound: what a batch may take to be sent
    Delays,              \* bound: what may pass between two steps of the loop
    Lates,               \* bound: how late a sleep may end
    MaxFrame             \* bound: frames that pass while nobody waits for one

ASSUME ScheduleAssumption ==
    /\ \A c \in Configs : /\ c.timer \in {"simple", "comp", "busy", "hybrid", "frames"}
                          /\ c.interval \in Nat \ {0} /\ c.duration \in Nat \ {0}
                          /\ c.timer # "frames" => /\ c.offset \in Int
                                                    /\ c.averager \in {"avg", "exp", "win"}
    /\ SendTimes \subseteq Nat \ {0} /\ Delays \cup Lates \subseteq Nat
    /\ SleepPart \in Nat \ {0} /\ {MinWaitingTime, MaxFrame} \subseteq Nat

VARIABLES
    cfg,         \* the configuration
    mode,        \* the next step
    now,         \* the time
    start,       \* rec.Start
    first,       \* FirstSend
    prev, tsent, \* when the last but one batch and the last were sent (LastSent)
    sent,        \* the batches sent
    tnext,       \* the time, or the frame, that is waited for
    avg,         \* the averager of the timer
    frame,       \* the frame counter
    frameend,    \* the last frame of the test
    early        \* history: the sleeps that ended more than half an interval early

timeVars == <<now, start, first, prev, tsent, avg, early>>
vars == <<cfg, mode, timeVars, sent, tnext, frame, frameend>>

ByFrames == cfg.timer = "frames"
I == cfg.interval
AtLeast(a, b) == IF a < b THEN b ELSE a
Quot(a, b) == IF a < 0 THEN -((-a) \div b) ELSE a \div b

\* Mutant of pcount: the packet at the start is not counted.
pcountAfter(d, i) == d \div i

\* pcount
pcount(d, i) == 1 + d \div i

-----------------------------------------------------------------------------
(* The timers: the time at which Sleep returns when it is called now, and  *)
(* the averager after it.                                                  *)

\* A SimpleTimer never ends before its time.
SimpleWakes(d) == {now + AtLeast(d, 0) + late : late \in Lates}

Compensated(d) == IF Average(avg) # 0 THEN Quot(d * Scale, Average(avg)) ELSE d

\* Mutant of Learned: outliers are not rejected.
LearnedAll(d, t) == IF d > 0 THEN Push(avg, (Scale * (t - now)) \div d) ELSE avg

\* CompTimer: the time to sleep is divided by the average error; an error out
\* of [MinErrorFactor, MaxErrorFactor], [0, 2], is not pushed.  That of a time
\* of 0 is infinite or not a number, that of a negative one is positive only
\* when no time passed: minus zero.
Learned(d, t) ==
    LET slept == t - now
    IN  IF d > 0 /\ slept <= 2 * d THEN Push(avg, (Scale * slept) \div d)
        ELSE IF d < 0 /\ slept = 0 THEN Push(avg, 0)
        ELSE avg
CompWakes(d) == {<<t, Learned(Compensated(d), t)>> : t \in SimpleWakes(Compensated(d))}

\* The busy wait of BusyTimer and HybridTimer, from t on.
BusyWakes(t) == IF t >= tnext THEN {t} ELSE {tnext + late : late \in Lates}

Wakes ==
    LET d == tnext - now
    IN  CASE cfg.timer = "simple" -> {<<t, avg>> : t \in SimpleWakes(d)}
          [] cfg.timer = "comp" -> CompWakes(d)
          [] cfg.timer = "busy" -> {<<t, avg>> : t \in BusyWakes(now)}
          [] cfg.timer = "hybrid" ->
               UNION {{<<t, w[2]>> : t \in BusyWakes(w[1])} :
                        w \in CompWakes(Quot(d * (SleepPart - 1), SleepPart))}

-----------------------------------------------------------------------------
(* send                                                                    *)

\* WaitForIntervalOffset: to the next time that has the offset as remainder,
\* and as many intervals more as make it MinWaitingTime.
OffsetWait ==
    LET remainder == now % I
        wait == IF remainder > cfg.offset THEN I - remainder + cfg.offset ELSE cfg.offset - remainder
        short == AtLeast(MinWaitingTime - wait, 0)
    IN  wait + I * ((short + I - 1) \div I)

Start ==
    /\ mode = "start" /\ ~ByFrames
    /\ IF cfg.offset >= 0 THEN \E late \in Lates : now' = now + OffsetWait + late
       ELSE UNCHANGED now
    /\ start' = now' /\ tsent' = now' /\ prev' = now' /\ first' = now'
    /\ mode' = "send"
    /\ UNCHANGED <<cfg, sent, tnext, avg, frame, frameend, early>>

\* recordPreSend, the send and recordPostSend of a batch
SendBatch ==
    /\ mode = "send" /\ ~ByFrames
    /\ \E s \in SendTimes : now' = now + s
    /\ first' = IF sent = 0 THEN now ELSE first
    /\ prev' = tsent /\ tsent' = now' /\ sent' = sent + 1
    /\ mode' = "plan"
    /\ UNCHANGED <<cfg, start, tnext, avg, frame, frameend, early>>

\* Mutant of NextTime: a batch sent early counts for the slot before it.
NextTimeNearest(t) == start + I * ((t - start) \div I) + I

\* The next send, when the clock is t: from the slot t is in, one interval
\* on, or two when the last packet was sent in the second half of a slot.
NextTime(t) == start + I * ((t - start) \div I)
               + (IF (tsent - start) % I < I \div 2 THEN I ELSE 2 * I)

\* The time is read to compute the next send and again to sleep until it.
Plan ==
    /\ mode = "plan" /\ ~ByFrames
    /\ \E d1 \in Delays :
         IF NextTime(now + d1) >= start + cfg.duration
         THEN mode' = "done" /\ UNCHANGED <<now, tnext>>
         ELSE /\ tnext' = NextTime(now + d1) /\ mode' = "sleep"
              /\ \E d2 \in Delays : now' = now + d1 + d2
    /\ UNCHANGED <<cfg, start, first, prev, tsent, sent, avg, frame, frameend, early>>

Sleep ==
    /\ mode = "sleep"
    /\ \E w \in Wakes :
         /\ now' = w[1] /\ avg' = w[2]
         /\ early' = IF 2 * (tnext - now') > I THEN early + 1 ELSE early
    /\ mode' = "send"
    /\ UNCHANGED <<cfg, start, first, prev, tsent, sent, tnext, frame, frameend>>

-----------------------------------------------------------------------------
(* send_synced                                                             *)

\* FrameSource.Now, and Sleep for two frames
FrameStart ==
    /\ mode = "start" /\ ByFrames
    /\ tnext' = frame + 2 /\ mode' = "frame"
    /\ UNCHANGED <<cfg, timeVars, sent, frame, frameend>>

\* Mutant of Reached: the frame is waited for by its number.
ReachedExactly(target) == frame = target

\* FrameSource.Sleep polls the counter.
Reached(target) == frame >= target

FrameWake ==
    /\ mode = "frame" /\ Reached(tnext)
    /\ frameend' = IF sent = 0 THEN frame + cfg.duration ELSE frameend
    /\ mode' = "send"
    /\ UNCHANGED <<cfg, timeVars, sent, tnext, frame>>

\* The wait for the offset and the batch, while frames pass
FrameSend ==
    /\ mode = "send" /\ ByFrames
    /\ sent' = sent + 1 /\ mode' = "plan"
    /\ UNCHANGED <<cfg, timeVars, tnext, frame, frameend>>

FramePlan ==
    /\ mode = "plan" /\ ByFrames
    /\ IF frame > frameend THEN mode' = "done" /\ UNCHANGED tnext
       ELSE mode' = "frame" /\ tnext' = frame + I
    /\ UNCHANGED <<cfg, timeVars, sent, frame, frameend>>

\* Another process counts the frames.
Tick ==
    /\ ByFrames
    /\ frame < MaxFrame \/ (mode = "frame" /\ frame < tnext)
    /\ frame' = frame + 1
    /\ UNCHANGED <<cfg, mode, timeVars, sent, tnext, frameend>>

\* The context is done: the sleep ends with its error, and send with it.
Cancelled ==
    /\ mode \in {"sleep", "frame"}
    /\ mode' = "done"
    /\ UNCHANGED <<cfg, timeVars, sent, tnext, frame, frameend>>

-----------------------------------------------------------------------------
\* The clock starts anywhere, which only an offset sees.
Clock == IF cfg.offset < 0 THEN {0} ELSE 0..I-1

Init ==
    /\ cfg \in Configs
    /\ mode = "start"
    /\ now \in IF ByFrames THEN {0} ELSE Clock
    /\ start = 0 /\ first = 0 /\ prev = 0 /\ tsent = 0 /\ sent = 0 /\ tnext = 0
    /\ avg = NewAverager(IF ByFrames THEN "avg" ELSE cfg.averager)
    /\ frame = 0 /\ frameend = 0 /\ early = 0

Client == Start \/ SendBatch \/ Plan \/ Sleep
          \/ FrameStart \/ FrameWake \/ FrameSend \/ FramePlan

Next == Client \/ Tick \/ Cancelled

\* The goroutine of the client runs while it can, and the frames go on.
Spec == Init /\ [][Next]_vars /\ WF_vars(Client) /\ WF_vars(Tick)

-----------------------------------------------------------------------------
(* Properties                                                              *)

\* The states are well formed, and the average the CompTimer divides by stays
\* within the errors it accepts (averager.go, timer.go).
TypeOK ==
    /\ cfg \in Configs
    /\ mode \in {"start", "send", "plan", "sleep", "frame", "done"}
    /\ {now, start, first, prev, tsent, sent, tnext, frame, frameend, early} \subseteq Nat
    /\ Average(avg) \in 0..(2 * Scale)

\* The slot of the test a time is nearest to.
Slot(t) == (2 * (t - start) + I) \div (2 * I)

\* The test starts at the offset, as late as the sleep ended; and each batch
\* is sent in a slot of its own, in the order of the slots, however long sends
\* and sleeps take and although timers with compensation end early, unless one
\* did by more than half an interval: and none but the CompTimer does.
SlotOnce ==
    ~ByFrames /\ mode # "start" =>
      /\ cfg.offset >= 0 => \E late \in Lates : (start - late - cfg.offset) % I = 0
      /\ early > 0 => cfg.timer = "comp"
      /\ sent >= 2 /\ early = 0 => Slot(prev) < Slot(tsent)

\* result.go punts when more is sent than is expected from the times of the
\* first and the last send: one batch more may be, and another for each sleep
\* of a CompTimer that ended more than half an interval early, since two batches
\* are then sent in one slot.  Nor is more sent than the recorder was made for,
\* but for a batch for each such sleep.  Other timers have none (SlotOnce).  With
\* frames, two batches more are sent than the intervals that fit, as the last
\* is sent after the frame the test ends at.
SentBound ==
    IF ByFrames THEN sent <= cfg.duration \div I + 2
    ELSE sent > 0 => /\ sent <= pcount(tsent - first, I) + 1 + early
                     /\ sent <= pcount(cfg.duration, I) + early

\* The client stops sending, whatever the clock and the frames do.
Ends == <>(mode = "done")
=============================================================================
