------------------------------ MODULE MCServer ------------------------------
(* Small instances of one listener for TLC.                                *)
EXTENDS Server, TLC

\* One round-trip and one one-way test, the first asking for more than the
\* server allows.
MCParams ==
    { [Duration |-> 9, Interval |-> 1, Length |-> 9, TripMode |-> "round"],
      [Duration |-> 2, Interval |-> 2, Length |-> 1, TripMode |-> "oneway"] }

MCRoundParams == {p \in MCParams : p.TripMode = "round"}

MCSymmetry == Permutations(Token)
=============================================================================
