----------------------------- MODULE MCIngestor -----------------------------
(* A small instance of Ingestor; no symmetry, since liveness is checked. *)
EXTENDS Ingestor

=============================================================================
