----------------------- MODULE MCTenantAdministration -----------------------
(***************************************************************************)
(* A small instance of TenantAdministration for TLC.                       *)
(***************************************************************************)
EXTENDS TenantAdministration, TLC

Symmetry == Permutations(Requests) \cup Permutations(KeyIds)
=============================================================================
