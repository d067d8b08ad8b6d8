------------------------------- MODULE Lemmas -------------------------------
(***************************************************************************)
(* What the proofs of more than one component need: that a recursive       *)
(* function over 0..N, as the modules write the loops of the code, exists  *)
(* and has its equation, with induction over the natural numbers; and how  *)
(* the received window slides, for any width of seqno and window.          *)
(***************************************************************************)
EXTENDS Window, WellFoundedInduction, TLAPS

-----------------------------------------------------------------------------
(* Recursive functions and induction, which follow from the order of the   *)
(* natural numbers being well-founded                                      *)

\* A set of natural numbers with an element has a least one.
LEMMA LeastNatural ==
    ASSUME NEW T \in SUBSET Nat, T # {}
    PROVE  \E n \in T : \A m \in T : n <= m
<1> DEFINE R == OpToRel(<, Nat)
<1>1. IsWellFoundedOn(R, Nat)
    BY NatLessThanWellFounded
<1>2. \A m, n \in Nat : m < n => <<m, n>> \in R
    BY DEF OpToRel
<1> HIDE DEF R
<1>3. \E n \in T : \A m \in T : ~(<<m, n>> \in R)
    BY <1>1, WFMin
<1>4. PICK n \in T : \A m \in T : ~(<<m, n>> \in R)
    BY <1>3
<1>5. n \in Nat /\ \A m \in T : m \in Nat
    OBVIOUS
<1>6. ASSUME NEW m \in T PROVE n <= m
    <2>1. m \in Nat /\ ~(m < n)
        BY <1>2, <1>4, <1>5
    <2> QED BY <1>5, <2>1
<1> QED BY <1>6

\* Induction over the natural numbers, for a set in the place of a predicate.
LEMMA NaturalsIn ==
    ASSUME NEW S, 0 \in S, \A n \in Nat : n \in S => n + 1 \in S
    PROVE  \A n \in Nat : n \in S
<1> SUFFICES ASSUME \E n \in Nat : n \notin S
             PROVE  FALSE
    OBVIOUS
<1> DEFINE T == {n \in Nat : n \notin S}
<1>1. PICK n \in T : \A m \in T : n <= m
    BY LeastNatural
<1>2. n # 0 /\ n - 1 \in Nat
    OBVIOUS
<1>3. n - 1 \in S
    BY <1>1, <1>2
<1>4. n \in S
    BY <1>2, <1>3
<1> QED BY <1>4

\* A recursive function over 0..N, as the modules write them, with its step as
\* a function.
Iterated(f, N, base, step) ==
    f = [n \in 0..N |-> IF n = 0 THEN base ELSE step[n][f[n - 1]]]

\* It exists, with values in the set that the step stays in.
LEMMA Iterates ==
    ASSUME NEW N \in Nat, NEW S, NEW base \in S, NEW step \in [1..N -> [S -> S]]
    PROVE  \E f \in [0..N -> S] : Iterated(f, N, base, step)
<1> DEFINE Upto(f, m) == f = [n \in 0..m |-> IF n = 0 THEN base ELSE step[n][f[n - 1]]]
           G == {m \in Nat : m <= N => \E f \in [0..m -> S] : Upto(f, m)}
<1>1. 0 \in G
    <2> DEFINE f == [n \in 0..0 |-> base]
    <2>1. f \in [0..0 -> S] /\ Upto(f, 0)
        OBVIOUS
    <2> QED BY <2>1
<1>2. ASSUME NEW m \in Nat, m \in G
      PROVE  m + 1 \in G
    <2> SUFFICES ASSUME m + 1 <= N
                 PROVE  \E f \in [0..(m + 1) -> S] : Upto(f, m + 1)
        OBVIOUS
    <2>1. PICK f \in [0..m -> S] : Upto(f, m)
        BY <1>2
    <2> DEFINE g == [n \in 0..(m + 1) |-> IF n = m + 1 THEN step[m + 1][f[m]] ELSE f[n]]
    <2>2. step[m + 1] \in [S -> S] /\ f[m] \in S
        OBVIOUS
    <2>3. g \in [0..(m + 1) -> S]
        BY <2>2
    <2>4. ASSUME NEW n \in 0..(m + 1)
          PROVE  g[n] = IF n = 0 THEN base ELSE step[n][g[n - 1]]
        <3>1. CASE n = m + 1
            BY <3>1
        <3>2. CASE n \in 0..m
            <4>1. f[n] = IF n = 0 THEN base ELSE step[n][f[n - 1]]
                BY <2>1, <3>2
            <4>2. g[n] = f[n] /\ (n # 0 => n - 1 \in 0..(m + 1) /\ n - 1 # m + 1 /\ g[n - 1] = f[n - 1])
                BY <3>2
            <4> QED BY <4>1, <4>2
        <3> QED BY <3>1, <3>2
    <2> HIDE DEF g
    <2>5. Upto(g, m + 1)
        BY <2>3, <2>4
    <2> QED BY <2>3, <2>5
<1>3. N \in G
    <2> HIDE DEF G
    <2> QED BY <1>1, <1>2, NaturalsIn
<1> QED BY <1>3 DEF Iterated

-----------------------------------------------------------------------------
(* The received window                                                     *)

\* Sliding the window keeps it within its width.
LEMMA SlideType ==
    ASSUME NEW w, NEW last, NEW seqno
    PROVE  SlideWindow(w, last, seqno) \in ReceivedWindow
BY WindowAssumption DEF SlideWindow, ShiftLeft, ReceivedWindow

\* After sliding by any distance, wrapped or not, every set bit still stands
\* for the seqno it stood for, and the lowest for the new one.
LEMMA SlideSound ==
    ASSUME NEW w \in ReceivedWindow, NEW last \in Seqno, NEW seqno \in Seqno,
           NEW received, \A k \in w : SeqSub(last, k) \in received
    PROVE  \A k \in SlideWindow(w, last, seqno) :
               SeqSub(seqno, k) \in received \cup {seqno}
<1> SUFFICES ASSUME NEW k \in SlideWindow(w, last, seqno)
             PROVE  SeqSub(seqno, k) \in received \cup {seqno}
    OBVIOUS
<1>1. CASE k = 0
    BY <1>1 DEF SeqSub, Seqno
<1>2. CASE k # 0
    <2> DEFINE d == SeqSub(seqno, last)
    <2>1. /\ k \in 0..WindowBits-1 /\ k - d \in w
        BY <1>2 DEF SlideWindow, ShiftLeft
    <2>2. /\ d \in Int
          /\ d = IF seqno >= last THEN seqno - last ELSE seqno - last + SeqMod
        BY WindowAssumption DEF SeqSub, Seqno
    <2>3. k - d \in 0..WindowBits-1
        BY <2>1 DEF ReceivedWindow
    <2>4. SeqSub(last, k - d) = SeqSub(seqno, k)
        <3> HIDE DEF d
        <3>1. k \in Nat /\ k < SeqMod /\ k >= d
            BY <2>1, <2>2, <2>3, WindowAssumption
        <3> QED BY <2>2, <3>1, WindowAssumption DEF SeqSub, Seqno
    <2> QED BY <2>1, <2>4
<1> QED BY <1>1, <1>2

\* While seqnos do not decrease the window misses no received seqno in reach.
LEMMA SlideHolds ==
    ASSUME NEW w \in ReceivedWindow, NEW last \in Seqno, NEW seqno \in Seqno,
           NEW received \in SUBSET Seqno,
           \A s \in received : s <= last /\ (last - s < WindowBits => last - s \in w),
           seqno >= last
    PROVE  \A s \in received \cup {seqno} :
               s <= seqno /\ (seqno - s < WindowBits
                                => seqno - s \in SlideWindow(w, last, seqno))
<1> SUFFICES ASSUME NEW s \in received \cup {seqno}
             PROVE  s <= seqno /\ (seqno - s < WindowBits
                                => seqno - s \in SlideWindow(w, last, seqno))
    OBVIOUS
<1>1. s \in Int /\ seqno \in Int /\ last \in Int /\ WindowBits \in Nat
    BY WindowAssumption DEF Seqno
<1>2. CASE s = seqno
    BY <1>1, <1>2 DEF SlideWindow
<1>3. CASE s \in received
    <2>1. s <= last /\ (last - s < WindowBits => last - s \in w)
        BY <1>3
    <2>2. SeqSub(seqno, last) = seqno - last
        BY <1>1 DEF SeqSub
    <2>3. ASSUME seqno - s < WindowBits
          PROVE  seqno - s \in SlideWindow(w, last, seqno)
        <3>1. last - s \in w /\ seqno - s \in 0..WindowBits-1
            BY <1>1, <2>1, <2>3
        <3>2. (seqno - s) - (seqno - last) = last - s
            BY <1>1
        <3> QED BY <2>2, <3>1, <3>2 DEF SlideWindow, ShiftLeft
    <2> QED BY <1>1, <2>1, <2>3
<1> QED BY <1>2, <1>3
=============================================================================
