----------------------------- MODULE MCScreener -----------------------------
(* Instances of ScreenerClient for TLC. *)
EXTENDS ScreenerClient, TLC

Interchangeable == Permutations(Instruments)
=============================================================================
