----------------------------- MODULE DurableRun -----------------------------
(***************************************************************************)
(* What durable execution promises of one workflow run, whatever fails on  *)
(* the way: its steps take effect in order, each at least once before the  *)
(* next; a run that completed has taken every step it had to take, and     *)
(* takes none afterwards; a run that was given up takes at most one more.  *)
(***************************************************************************)
EXTENDS Naturals

CONSTANT Positions  \* where a step can stand in a run

VARIABLES must,     \* the steps the run has to take, by position
          applied,  \* the steps that took effect
          phase     \* "new", "open", "completed", "failing" or "failed"

dvars == <<must, applied, phase>>

Init == must = {} /\ applied = {} /\ phase = "new"

Begin ==
  /\ phase = "new"
  /\ phase' = "open"
  /\ must' \in SUBSET Positions
  /\ UNCHANGED applied

\* Step i takes effect, for the first time or again.
Apply(i) ==
  /\ \A j \in must : j < i => j \in applied
  /\ \A j \in applied : j <= i
  /\ applied' = applied \cup {i}
  /\ UNCHANGED must

TakeStep == phase = "open" /\ (\E i \in Positions : Apply(i)) /\ UNCHANGED phase

Complete ==
  /\ phase = "open"
  /\ must \subseteq applied
  /\ phase' = "completed"
  /\ UNCHANGED <<must, applied>>

\* "failing": one step is still under way.
Fail ==
  /\ phase = "open"
  /\ phase' \in {"failing", "failed"}
  /\ UNCHANGED <<must, applied>>

LastStep ==
  /\ phase = "failing"
  /\ phase' = "failed"
  /\ (\E i \in Positions : Apply(i)) \/ UNCHANGED <<must, applied>>

Next == Begin \/ TakeStep \/ Complete \/ Fail \/ LastStep

Spec == Init /\ [][Next]_dvars
=============================================================================
