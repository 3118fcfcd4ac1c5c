----------------------- MODULE MCInteractionApproval -----------------------
(***************************************************************************)
(* Small instances of InteractionApproval for TLC.                         *)
(***************************************************************************)
EXTENDS InteractionApproval, TLC

Symmetry == Permutations(Messages) \cup Permutations(Servers)
=============================================================================
