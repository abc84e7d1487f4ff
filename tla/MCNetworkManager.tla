-------------------------- MODULE MCNetworkManager --------------------------
(* Small instances of NetworkManager. *)
EXTENDS NetworkManager, TLC

=============================================================================
