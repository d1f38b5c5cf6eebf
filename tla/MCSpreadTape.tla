---------------------------- MODULE MCSpreadTape ----------------------------
(* An instance of SpreadTape for TLC. *)
EXTENDS SpreadTape, TLC

CONSTANTS p, q

\* A step back: within a bucket from an odd time, to the older one from an even
\* time.  A step forward is like ticks without a pair.
ClockJumps == {-1}

\* A pair is only ever copied.
Interchangeable == Permutations(Pairs)
=============================================================================
