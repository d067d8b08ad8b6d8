------------------------------ MODULE Averager ------------------------------
(***************************************************************************)
(* The averages of averager.go.  A value is a number of 1/Scale, and so is *)
(* an average, which is rounded down to one.                               *)
(***************************************************************************)
EXTENDS Integers

CONSTANTS
    Scale,               \* parts of 1 in a value
    Window,              \* the values a WindowAverager averages
    AlphaPart            \* Alpha of the ExponentialAverager is 1/AlphaPart

ASSUME AveragerAssumption == {Scale, Window, AlphaPart} \subseteq Nat \ {0}

NewAverager(kind) ==
    CASE kind = "avg" -> [kind |-> kind, sum |-> 0, n |-> 0]
      [] kind = "exp" -> [kind |-> kind, avg |-> 0]
      [] kind = "win" -> [kind |-> kind, values |-> [i \in 1..Window |-> 0],
                          pos |-> 0, filled |-> FALSE]

\* Push; an exponential average that is 0 is one that has no value yet.
Push(a, v) ==
    CASE a.kind = "avg" -> [a EXCEPT !.sum = @ + v, !.n = @ + 1]
      [] a.kind = "exp" -> [a EXCEPT !.avg = IF @ = 0 THEN v ELSE (v + (AlphaPart - 1) * @) \div AlphaPart]
      [] a.kind = "win" -> [a EXCEPT !.values[a.pos + 1] = v,
                                     !.pos = (@ + 1) % Window,
                                     !.filled = @ \/ a.pos + 1 = Window]

\* How many values a WindowAverager takes into account, and the sum of the
\* first n.
Available(a) == IF a.filled THEN Window ELSE a.pos

SumOf(values, n) ==
    LET sum[i \in 0..n] == IF i = 0 THEN 0 ELSE sum[i - 1] + values[i]
    IN  sum[n]

Average(a) ==
    CASE a.kind = "avg" -> IF a.n = 0 THEN 0 ELSE a.sum \div a.n
      [] a.kind = "exp" -> a.avg
      [] a.kind = "win" -> IF Available(a) = 0 THEN 0
                           ELSE SumOf(a.values, Available(a)) \div Available(a)
=============================================================================
