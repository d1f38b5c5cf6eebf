--------------------------- MODULE MCSpreadDynamics ---------------------------
(* An instance of SpreadDynamics for TLC. *)
EXTENDS SpreadDynamics

\* Quiet, above the lower threshold only, above both, a data error.
SpreadValues == {-1, 2, 5, 9}
ClientThresholds == {1, 3}
TickGaps == {1, 2}
=============================================================================
