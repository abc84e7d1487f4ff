--------------------------- MODULE MCStatsRollup ---------------------------
(* A small instance of StatsRollup; no symmetry, since liveness is checked. *)
EXTENDS StatsRollup

=============================================================================
