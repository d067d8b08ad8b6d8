------------------------------- MODULE Window -------------------------------
(***************************************************************************)
(* Sequence numbers and the received window of the server (serveEcho and   *)
(* serveNoEcho of sconn.go): a word whose bit k says whether the request   *)
(* k before the last one was received, here the set of its set bits.       *)
(***************************************************************************)
EXTENDS Integers

CONSTANTS
    SeqMod,              \* number of Seqno values (2^32 in the code)
    WindowBits           \* width of ReceivedWindow (64 in the code)

ASSUME WindowAssumption ==
    /\ SeqMod \in Nat \ {0}
    /\ WindowBits \in 1..SeqMod

Seqno == 0..SeqMod-1
InvalidSeqno == SeqMod - 1
ReceivedWindow == SUBSET (0..WindowBits-1)

\* a - b on unsigned integers.
SeqSub(a, b) == IF a >= b THEN a - b ELSE a - b + SeqMod

\* Mutants of ShiftLeft: a bit that has left the word is kept; the highest
\* bit is lost.
ShiftLeftWide(w, d) == {k \in 0..WindowBits : k - d \in w}
ShiftLeftShort(w, d) == {k \in 0..WindowBits-2 : k - d \in w}

\* w << d, with the bits that leave the word dropped.
ShiftLeft(w, d) == {k \in 0..WindowBits-1 : k - d \in w}

\* Mutant of SlideWindow: a late packet is marked without moving the window.
SlideWindowInPlace(w, last, seqno) ==
    (IF seqno >= last THEN ShiftLeft(w, seqno - last) ELSE w) \cup {0}

\* The window after a packet with this seqno.  The difference is unsigned, so
\* the branch for a late packet (a negative difference) is never taken.
SlideWindow(w, last, seqno) == ShiftLeft(w, SeqSub(seqno, last)) \cup {0}

\* The seqnos in reach of the window that were received have their bit set.
WindowHolds(w, last, received) ==
    \A s \in received :
        s <= last /\ last - s < WindowBits => last - s \in w
=============================================================================
