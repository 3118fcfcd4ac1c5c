---------------------------- MODULE MCDeployment ----------------------------
(***************************************************************************)
(* A small instance of Deployment for TLC.                                 *)
(***************************************************************************)
EXTENDS Deployment, TLC

\* Two releases: the first adds a file, and has another text in one the
\* second already released.
MCReleases == {<<"a", "b", "c">>, <<"a", "x">>}

MCRecords == {[kind |-> "interaction", id |-> "i"], [kind |-> "audit_event", id |-> "e"]}

Symmetry == Permutations(Migrators) \cup Permutations(Mirrorings) \cup Permutations(Contents)
=============================================================================
