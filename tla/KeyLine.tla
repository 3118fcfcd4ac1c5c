------------------------------ MODULE KeyLine ------------------------------
(***************************************************************************)
(* What a tenant's API key promises from its creation through its          *)
(* rotations: one key of the line at most is accepted at a time; a key     *)
(* that was replaced or revoked is accepted never again; and a line that   *)
(* ended, by a revocation or a rotation that broke off, stays ended.       *)
(***************************************************************************)
CONSTANT KeyIds

VARIABLES phase,  \* "none", "held", "rotating" or "ended"
          held,   \* the keys that are accepted
          past    \* the keys that were

lvars == <<phase, held, past>>

Init == phase = "none" /\ held = {} /\ past = {}

\* A key not seen in the line before: the created one, or the next.
Issue ==
  /\ phase \in {"none", "rotating"}
  /\ phase' = "held"
  /\ \E k \in KeyIds \ past : held' = {k}
  /\ UNCHANGED past

\* The key that is held is withdrawn, to be replaced or for good.
Withdraw ==
  /\ phase = "held"
  /\ phase' \in {"rotating", "ended"}
  /\ held' = {}
  /\ past' = past \cup held

BreakOff ==
  /\ phase = "rotating"
  /\ phase' = "ended"
  /\ UNCHANGED <<held, past>>

Next == Issue \/ Withdraw \/ BreakOff

Spec == Init /\ [][Next]_lvars
=============================================================================
