---------------------------- MODULE MCTelemetry -----------------------------
(* Telemetry with two jobs and a channel of one: the channel overflows     *)
(* while the worker has not looked at it, and drains with a job still at   *)
(* its handler.                                                            *)
EXTENDS Telemetry, TLC
=============================================================================
