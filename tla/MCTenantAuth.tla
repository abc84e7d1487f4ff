---------------------------- MODULE MCTenantAuth ----------------------------
(* Small instances of TenantAuth; no symmetry, since liveness is checked. *)
EXTENDS TenantAuth

=============================================================================
