----------------------- MODULE MCFollowUpPreparation -----------------------
(***************************************************************************)
(* A small instance of FollowUpPreparation for TLC: what one candidate got *)
(* by e-mail, a first contact and two follow-ups.                          *)
(***************************************************************************)
EXTENDS FollowUpPreparation, TLC

CONSTANTS first, step1, step2

Symmetry == Permutations(Servers)

MCThreads == {[first |-> first, steps |-> <<step1, step2>>, cadence |-> {}]}
=============================================================================
