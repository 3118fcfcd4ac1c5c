---------------------- MODULE CandidateWorkflowsProofs ----------------------
(***************************************************************************)
(* Theorems about CandidateWorkflows, for every set of runs and every set  *)
(* of well-formed workflows: any scripts, retry limits and decisions.      *)
(***************************************************************************)
EXTENDS CandidateWorkflows, TLAPS

----------------------------------------------------------------------------
(* What the assumption on workflows says of one run.                       *)

\* What an activity names belongs to the table it writes.
LEMMA ActivityShape ==
  ASSUME NEW a \in Activities
  PROVE  /\ a.do = "candidate" => a.arg \in Stages
         /\ a.do = "run" => a.arg \in {"Running"} \cup Final
         /\ a.do \in {"append", "post"} => <<a.arg, a.step>> \in Keys
<1>1. CASE a \in [do : {"agent"}, arg : Prompts, step : {0}]
                 \cup [do : {"audit"}, arg : Events, step : {0}]
                 \cup [do : {"tenant", "sleep"}, arg : {"onboarded", ""}, step : {0}]
  BY <1>1
<1>2. CASE a \in [do : {"candidate"}, arg : Stages, step : {0}]
  BY <1>2
<1>3. CASE a \in [do : {"run"}, arg : {"Running"} \cup Final, step : {0}]
  BY <1>3
<1>4. CASE a \in {b \in [do : {"append", "post"}, arg : {k[1] : k \in Keys},
                         step : {k[2] : k \in Keys}] : <<b.arg, b.step>> \in Keys}
  BY <1>4
<1>5. QED
  BY <1>1, <1>2, <1>3, <1>4 DEF Activities

\* A started run executes a workflow of the set, along its script.
LEMMA RunShape ==
  ASSUME TypeOK, NEW r \in Runs, runs[r] # NotStarted
  PROVE  /\ runs[r] \in Started
         /\ runs[r].workflow \in Workflows
         /\ Script(r) = runs[r].workflow.script
         /\ Len(Script(r)) \in Nat \ {0}
         /\ DOMAIN Script(r) = 1..Len(Script(r))
         /\ \A i \in DOMAIN Script(r) :
              /\ Script(r)[i] \in Activities
              /\ Script(r)[i].do = "run" /\ Script(r)[i].arg \in Final
                   <=> i = Len(Script(r))
<1>1. runs[r] \in Started
  BY DEF TypeOK
<1>2. runs[r].workflow \in Workflows
  BY <1>1 DEF Started
<1>3. Script(r) = runs[r].workflow.script
  BY DEF Script
<1>4. WellFormed(Script(r))
  BY <1>2, <1>3, WorkflowsAssumption
<1>5. QED
  BY <1>1, <1>2, <1>3, <1>4 DEF WellFormed

\* A run whose phase is not "new" has started.
LEMMA PhaseStarted ==
  ASSUME TypeOK, NEW r \in Runs, runs[r].phase # "new"
  PROVE  runs[r] # NotStarted
BY DEF NotStarted

----------------------------------------------------------------------------
(* The effect of an activity.                                              *)

LEMMA ApplyType ==
  ASSUME TypeOK, NEW r \in Runs, runs[r] # NotStarted,
         NEW i \in DOMAIN Script(r), Apply(r, i)
  PROVE  /\ tenant' \in BOOLEAN
         /\ stage' \in Stages \cup HumanStages \cup {"absent"}
         /\ rows' \in [Keys -> Row]
         /\ runRow' \in [Runs -> {"absent", "Running"} \cup Final]
         /\ applied' \in [Runs -> SUBSET (Nat \ {0})]
         /\ posted' \subseteq Keys \X Texts
<1> DEFINE a == Script(r)[i]
<1>1. a \in Activities /\ i \in Nat \ {0} /\ runs[r].text \in Texts
  BY RunShape DEF Started
<1>2. /\ a.do = "candidate" => a.arg \in Stages
      /\ a.do = "run" => a.arg \in {"Running"} \cup Final
      /\ a.do \in {"append", "post"} => <<a.arg, a.step>> \in Keys
  BY <1>1, ActivityShape
<1> HIDE DEF a
<1>3. tenant' \in BOOLEAN
  BY DEF Apply
<1>4. stage' \in Stages \cup HumanStages \cup {"absent"}
  BY <1>2 DEF Apply, TypeOK, a
<1>5. rows' \in [Keys -> Row]
  <2>1. AppendedInteraction(rows[<<a.arg, a.step>>], runs[r].text) \in Row
    BY <1>1 DEF AppendedInteraction, AppendedRow, Row, Statuses
  <2>2. rows' = IF a.do = "append"
                  THEN [rows EXCEPT ![<<a.arg, a.step>>] =
                          AppendedInteraction(rows[<<a.arg, a.step>>], runs[r].text)]
                  ELSE rows
    BY DEF Apply, a, AppendedInteraction
  <2>3. QED
    BY <1>2, <2>1, <2>2 DEF TypeOK
<1>6. runRow' \in [Runs -> {"absent", "Running"} \cup Final]
  BY <1>2 DEF Apply, TypeOK, UpsertedRun, a
<1>7. applied' \in [Runs -> SUBSET (Nat \ {0})]
  BY <1>1 DEF Apply, TypeOK
<1>8. posted' \subseteq Keys \X Texts
  BY <1>1, <1>2 DEF Apply, TypeOK, a
<1>9. QED
  BY <1>3, <1>4, <1>5, <1>6, <1>7, <1>8

\* The invariant of a run that a step leaves alone.
LEMMA OtherRun ==
  ASSUME NEW q \in Runs, RunInv(q),
         runs'[q] = runs[q], applied'[q] = applied[q], runRow'[q] = runRow[q],
         \A l \in late' : l[1] = q => l \in late
  PROVE  RunInv(q)'
BY DEF RunInv, Script, Now

\* The activity at a run's position takes effect: its row is written, and the
\* run's own row becomes final just when that activity is the last.
LEMMA ApplyInv ==
  ASSUME TypeOK, NEW r \in Runs, RunInv(r), runs[r] # NotStarted,
         Apply(r, runs[r].pc),
         runs'[r] # NotStarted, runs'[r].workflow = runs[r].workflow,
         runs'[r].pc = runs[r].pc, runs'[r].phase \in {"applied", "failed"},
         \A l \in late' : l[1] = r => l \in late /\ runs'[r].phase = "failed"
  PROVE  RunInv(r)'
<1> DEFINE script == Script(r)
           pc     == runs[r].pc
<1>1. /\ Len(script) \in Nat \ {0}
      /\ DOMAIN script = 1..Len(script)
      /\ \A i \in DOMAIN script :
           script[i].do = "run" /\ script[i].arg \in Final <=> i = Len(script)
  BY RunShape
<1>2. pc \in DOMAIN script /\ pc \in Nat
  BY <1>1 DEF RunInv
<1>3. Script(r)' = script
  BY DEF Script
<1>4. applied'[r] = applied[r] \cup {pc}
  BY DEF Apply, TypeOK
<1>5. runRow'[r] \in Final <=> Len(script) \in applied'[r]
  <2>1. runRow'[r] = IF script[pc].do = "run" THEN script[pc].arg ELSE runRow[r]
    BY DEF Apply, UpsertedRun, TypeOK
  <2>2. CASE pc = Len(script)
    BY <1>1, <1>2, <1>4, <2>1, <2>2
  <2>3. CASE pc # Len(script)
    <3>1. Len(script) \notin applied[r]
      BY <1>1, <1>2, <2>3 DEF RunInv
    <3>2. runRow[r] \notin Final
      BY <3>1 DEF RunInv
    <3>3. ~(script[pc].do = "run" /\ script[pc].arg \in Final)
      BY <1>1, <1>2, <2>3
    <3>4. QED
      BY <1>4, <2>1, <2>3, <3>1, <3>2, <3>3
  <2>4. QED
    BY <2>2, <2>3
<1>6. \A i \in DOMAIN script :
        i < pc /\ script[i].do \in Written => i \in applied'[r]
  BY <1>4 DEF RunInv
<1>7. \A i \in applied'[r] : i \in DOMAIN script /\ i <= pc
  BY <1>1, <1>2, <1>4 DEF RunInv
<1>8. \A l \in late' : l[1] = r => runs'[r].phase = "failed" /\ l[2] = pc
  BY DEF RunInv
<1>9. QED
  BY <1>2, <1>3, <1>4, <1>5, <1>6, <1>7, <1>8 DEF RunInv, Now

\* A step that changes what Temporal knows of a started run and no table keeps
\* the invariant if the run stays at its position, or moves past a written row.
LEMMA MoveInv ==
  ASSUME TypeOK, NEW r \in Runs, RunInv(r), runs[r] # NotStarted,
         applied' = applied, runRow' = runRow,
         runs'[r] # NotStarted, runs'[r].workflow = runs[r].workflow,
         runs'[r].pc \in DOMAIN Script(r),
         \/ /\ runs'[r].pc = runs[r].pc
            /\ runs'[r].phase \in {"applied", "completed"} /\ Now(r).do \in Written =>
                 runs[r].pc \in applied[r]
            /\ runs'[r].phase = "completed" => runs[r].pc = Len(Script(r))
         \/ /\ runs'[r].pc = runs[r].pc + 1
            /\ runs[r].phase = "applied" /\ runs'[r].phase = "begun",
         \A l \in late' : l[1] = r => runs'[r].phase = "failed" /\ l[2] = runs'[r].pc
  PROVE  RunInv(r)'
<1>1. DOMAIN Script(r) \subseteq Nat /\ runs[r].pc \in DOMAIN Script(r)
  BY RunShape DEF RunInv
<1>2. Script(r)' = Script(r)
  BY DEF Script
<1>3. CASE runs'[r].pc = runs[r].pc
  BY <1>1, <1>2, <1>3 DEF RunInv, Now
<1>4. CASE runs'[r].pc = runs[r].pc + 1
  <2>1. runs[r].phase = "applied" /\ runs'[r].phase = "begun"
    BY <1>1, <1>4
  <2>2. \A i \in DOMAIN Script(r) :
          i < runs'[r].pc /\ Script(r)[i].do \in Written => i \in applied[r]
    <3>1. \A i \in DOMAIN Script(r) : i < runs'[r].pc => i < runs[r].pc \/ i = runs[r].pc
      BY <1>1, <1>4
    <3>2. QED
      BY <3>1, <2>1 DEF RunInv, Now
  <2>3. \A i \in applied[r] : i \in DOMAIN Script(r) /\ i <= runs'[r].pc
    BY <1>1, <1>4 DEF RunInv
  <2>4. QED
    BY <1>1, <1>2, <1>4, <2>1, <2>2, <2>3 DEF RunInv, Now
<1>5. QED
  BY <1>3, <1>4

\* A step of one run keeps the invariant of all if it keeps its own.
LEMMA FrameInv ==
  ASSUME DurableInv, NEW r \in Runs, RunInv(r)',
         \A q \in Runs \ {r} : /\ runs'[q] = runs[q]
                               /\ applied'[q] = applied[q]
                               /\ runRow'[q] = runRow[q],
         \A l \in late' : l[1] # r => l \in late
  PROVE  DurableInv'
<1>1. ASSUME NEW q \in Runs, q # r  PROVE RunInv(q)'
  <2>1. RunInv(q) /\ (\A l \in late' : l[1] = q => l \in late)
    BY <1>1 DEF DurableInv
  <2>2. QED
    BY <1>1, <2>1, OtherRun
<1>2. QED
  BY <1>1 DEF DurableInv

----------------------------------------------------------------------------
(* One step of the worker or of a human keeps types and invariant.         *)

LEMMA StartInv ==
  ASSUME TypeOK, DurableInv, NEW r \in Runs, NEW w \in Workflows, Start(r, w)
  PROVE  TypeOK' /\ DurableInv'
<1> DEFINE run == [phase |-> "begun", workflow |-> w, pc |-> 1,
                   attempt |-> 1, text |-> NoMessage]
<1>1. run \in Started /\ run # NotStarted
  BY DEF Started, NotStarted, Texts
<1>2. /\ runs' = [runs EXCEPT ![r] = run]
      /\ runs[r] = NotStarted
      /\ UNCHANGED <<tenant, stage, rows, runRow, late, applied, posted>>
  BY DEF Start, tables
<1> HIDE DEF run
<1>3. TypeOK'
  BY <1>1, <1>2 DEF TypeOK
<1>4. runs'[r] = run
  BY <1>2 DEF TypeOK
<1>5. /\ applied[r] = {}
      /\ runRow[r] \notin Final
      /\ \A l \in late : l[1] # r
  BY <1>2 DEF DurableInv, RunInv, NotStarted, Final
<1>6. RunInv(r)'
  <2>1. /\ Script(r)' = w.script
        /\ Len(w.script) \in Nat \ {0} /\ DOMAIN w.script = 1..Len(w.script)
    BY <1>1, <1>4, WorkflowsAssumption DEF Script, WellFormed, run
  <2>2. runs'[r].pc = 1 /\ runs'[r].phase = "begun"
    BY <1>4 DEF run
  <2>3. QED
    BY <1>1, <1>2, <1>4, <1>5, <2>1, <2>2 DEF RunInv, Now
<1>7. QED
  BY <1>2, <1>3, <1>6, FrameInv DEF TypeOK

\* Steps that change one run's record and no table.
LEMMA RecordInv ==
  ASSUME TypeOK, DurableInv, NEW r \in Runs, runs[r] # NotStarted,
         NEW run \in Started, runs' = [runs EXCEPT ![r] = run],
         run.workflow = runs[r].workflow, run.pc \in DOMAIN Script(r),
         \/ /\ run.pc = runs[r].pc
            /\ run.phase \in {"applied", "completed"} /\ Now(r).do \in Written =>
                 runs[r].pc \in applied[r]
            /\ run.phase = "completed" => runs[r].pc = Len(Script(r))
         \/ /\ run.pc = runs[r].pc + 1
            /\ runs[r].phase = "applied" /\ run.phase = "begun",
         runs[r].phase # "failed",
         \/ late' = late
         \/ run.phase = "failed" /\ late' = late \cup {<<r, run.pc>>},
         UNCHANGED <<tables, applied, posted>>
  PROVE  TypeOK' /\ DurableInv'
<1>1. runs'[r] = run /\ run # NotStarted
  BY DEF TypeOK, Started, NotStarted
<1>2. RunInv(r)
  BY DEF DurableInv
<1>3. \A l \in late' : l[1] = r => runs'[r].phase = "failed" /\ l[2] = runs'[r].pc
  BY <1>1, <1>2 DEF RunInv
<1>4. RunInv(r)'
  BY <1>1, <1>2, <1>3, MoveInv DEF tables
<1>5. \A q \in Runs \ {r} : /\ runs'[q] = runs[q]
                            /\ applied'[q] = applied[q]
                            /\ runRow'[q] = runRow[q]
  BY DEF TypeOK, tables
<1>6. \A l \in late' : l[1] # r => l \in late
  OBVIOUS
<1>7. DurableInv'
  BY <1>4, <1>5, <1>6, FrameInv
<1>8. <<r, run.pc>> \in Runs \X (Nat \ {0})
  BY DEF Started
<1>9. TypeOK'
  BY <1>8 DEF TypeOK, tables
<1>10. QED
  BY <1>7, <1>9

\* Steps in which the activity at a run's position takes effect.
LEMMA EffectInv ==
  ASSUME TypeOK, DurableInv, NEW r \in Runs, runs[r] # NotStarted,
         Apply(r, runs[r].pc),
         \/ runs' = [runs EXCEPT ![r].phase = "applied"] /\ late' = late
            /\ runs[r].phase = "begun"
         \/ runs' = runs /\ runs[r].phase = "failed" /\ late' \subseteq late
  PROVE  TypeOK' /\ DurableInv'
<1>1. RunInv(r) /\ runs[r] \in Started
  BY RunShape DEF DurableInv
<1>2. runs[r].pc \in DOMAIN Script(r)
  BY <1>1 DEF RunInv
<1>3. [runs[r] EXCEPT !.phase = "applied"] \in Started
  BY <1>1 DEF Started
<1>4. runs' \in [Runs -> Started \cup {NotStarted}]
  BY <1>3 DEF TypeOK
<1>5. /\ runs'[r] # NotStarted
      /\ runs'[r].workflow = runs[r].workflow
      /\ runs'[r].pc = runs[r].pc
      /\ runs'[r].phase \in {"applied", "failed"}
  BY <1>1, <1>3 DEF TypeOK, Started, NotStarted
<1>6. \A l \in late' : l[1] = r => l \in late /\ runs'[r].phase = "failed"
  BY <1>1 DEF RunInv
<1>7. RunInv(r)'
  BY <1>1, <1>5, <1>6, ApplyInv
<1>8. \A q \in Runs \ {r} : /\ runs'[q] = runs[q]
                            /\ applied'[q] = applied[q]
                            /\ runRow'[q] = runRow[q]
  BY DEF TypeOK, Apply, UpsertedRun
<1>9. late' \subseteq late
  OBVIOUS
<1>10. DurableInv'
  BY <1>7, <1>8, <1>9, FrameInv
<1>11. TypeOK'
  BY <1>2, <1>4, <1>9, ApplyType DEF TypeOK
<1>12. QED
  BY <1>10, <1>11

LEMMA NextInv ==
  ASSUME TypeOK, DurableInv, [Next]_wvars
  PROVE  TypeOK' /\ DurableInv'
<1>1. ASSUME NEW r \in Runs, NEW w \in Workflows, Start(r, w)
      PROVE  TypeOK' /\ DurableInv'
  BY <1>1, StartInv
<1>2. ASSUME NEW r \in Runs, Perform(r)
      PROVE  TypeOK' /\ DurableInv'
  BY <1>2, PhaseStarted, EffectInv DEF Perform
<1>3. ASSUME NEW r \in Runs, PerformLate(r)
      PROVE  TypeOK' /\ DurableInv'
  BY <1>3, PhaseStarted, EffectInv DEF PerformLate
<1>4. ASSUME NEW r \in Runs, runs[r].phase # "new"
      PROVE  /\ runs[r] # NotStarted /\ runs[r] \in Started
             /\ runs[r].pc \in DOMAIN Script(r)
             /\ DOMAIN Script(r) = 1..Len(Script(r)) /\ Len(Script(r)) \in Nat
             /\ RunInv(r)
  BY <1>4, PhaseStarted, RunShape DEF DurableInv, RunInv
<1>5. ASSUME NEW r \in Runs, NEW text \in Texts, Draft(r, text)
      PROVE  TypeOK' /\ DurableInv'
  <2> DEFINE run == [runs[r] EXCEPT !.phase = "applied",
                       !.text = IF Now(r).arg = "render" THEN text ELSE @]
  <2>1. runs[r].phase = "begun" /\ Now(r).do \notin Written
    BY <1>5 DEF Draft, Written
  <2>2. run \in Started /\ run.workflow = runs[r].workflow /\ run.pc = runs[r].pc
        /\ run.phase = "applied"
    BY <1>4, <2>1 DEF Started
  <2>3. runs' = [runs EXCEPT ![r] = run]
    BY <1>5 DEF Draft
  <2> HIDE DEF run
  <2>4. QED
    BY <1>4, <1>5, <2>1, <2>2, <2>3, RecordInv DEF Draft
<1>6. ASSUME NEW r \in Runs, PostNothing(r)
      PROVE  TypeOK' /\ DurableInv'
  <2> DEFINE run == [runs[r] EXCEPT !.phase = "applied"]
  <2>1. runs[r].phase = "begun" /\ Now(r).do \notin Written
    BY <1>6 DEF PostNothing, Written
  <2>2. run \in Started /\ run.workflow = runs[r].workflow /\ run.pc = runs[r].pc
        /\ run.phase = "applied"
    BY <1>4, <2>1 DEF Started
  <2>3. runs' = [runs EXCEPT ![r] = run]
    BY <1>6 DEF PostNothing
  <2> HIDE DEF run
  <2>4. QED
    BY <1>4, <1>6, <2>1, <2>2, <2>3, RecordInv DEF PostNothing
<1>7. ASSUME NEW r \in Runs, Complete(r)
      PROVE  TypeOK' /\ DurableInv'
  <2>1. runs[r].phase = "applied"
    BY <1>7 DEF Complete
  <2>2. CASE runs[r].pc = Len(Script(r))
    <3> DEFINE run == [runs[r] EXCEPT !.phase = "completed"]
    <3>1. run \in Started /\ run.workflow = runs[r].workflow /\ run.pc = runs[r].pc
      BY <1>4, <2>1 DEF Started
    <3>2. runs' = [runs EXCEPT ![r] = run]
      BY <1>7, <2>2 DEF Complete
    <3>3. Now(r).do \in Written => runs[r].pc \in applied[r]
      BY <1>4, <2>1 DEF RunInv
    <3> HIDE DEF run
    <3>4. QED
      BY <1>4, <1>7, <2>1, <2>2, <3>1, <3>2, <3>3, RecordInv DEF Complete
  <2>3. CASE runs[r].pc # Len(Script(r))
    <3> DEFINE next == runs[r].pc + 1
               first == 1
               run  == [runs[r] EXCEPT !.phase = "begun", !.pc = next, !.attempt = first]
    <3>0. next \in Nat \ {0} /\ first \in Nat \ {0}
      BY <1>4, <2>1
    <3>1. run \in Started /\ run.workflow = runs[r].workflow
          /\ run.pc = next /\ run.phase = "begun"
      <4> HIDE DEF next, first
      <4>1. QED
        BY <1>4, <2>1, <3>0 DEF Started
    <3>2. runs' = [runs EXCEPT ![r] = run]
      BY <1>7, <2>3 DEF Complete
    <3>3. run.pc \in DOMAIN Script(r)
      BY <1>4, <2>1, <2>3, <3>1
    <3> HIDE DEF run
    <3>4. QED
      BY <1>4, <1>7, <2>1, <3>1, <3>2, <3>3, RecordInv DEF Complete
  <2>4. QED
    BY <2>2, <2>3
<1>8. ASSUME NEW r \in Runs, Retry(r)
      PROVE  TypeOK' /\ DurableInv'
  <2> DEFINE next == IF Limited(r) THEN runs[r].attempt + 1 ELSE runs[r].attempt
             run  == [runs[r] EXCEPT !.phase = "begun", !.attempt = next]
  <2>1. runs[r].phase \in {"begun", "applied"}
    BY <1>8 DEF Retry, Open
  <2>0. next \in Nat \ {0}
    BY <1>4, <2>1 DEF Started
  <2>2. run \in Started /\ run.workflow = runs[r].workflow /\ run.pc = runs[r].pc
        /\ run.phase = "begun"
    <3> HIDE DEF next
    <3>1. QED
      BY <1>4, <2>0, <2>1 DEF Started
  <2>3. runs' = [runs EXCEPT ![r] = run]
    BY <1>8 DEF Retry
  <2> HIDE DEF run
  <2>4. QED
    BY <1>4, <1>8, <2>1, <2>2, <2>3, RecordInv DEF Retry
<1>9. ASSUME NEW r \in Runs, GiveUp(r) \/ TimeOut(r)
      PROVE  TypeOK' /\ DurableInv'
  <2> DEFINE run == [runs[r] EXCEPT !.phase = "failed"]
  <2>1. runs[r].phase \in {"begun", "applied"}
    BY <1>9 DEF GiveUp, TimeOut, Open
  <2>2. run \in Started /\ run.workflow = runs[r].workflow /\ run.pc = runs[r].pc
        /\ run.phase = "failed"
    BY <1>4, <2>1 DEF Started
  <2>3. /\ runs' = [runs EXCEPT ![r] = run]
        /\ late' = late \/ late' = late \cup {<<r, run.pc>>}
        /\ UNCHANGED <<tables, applied, posted>>
    BY <1>9, <2>2 DEF GiveUp, TimeOut
  <2> HIDE DEF run
  <2>4. QED
    BY <1>4, <2>1, <2>2, <2>3, RecordInv
<1>10. ASSUME NEW r \in Runs, LoseLate(r)
       PROVE  TypeOK' /\ DurableInv'
  <2>1. late' \subseteq late /\ UNCHANGED <<tables, runs, applied, posted>>
    BY <1>10 DEF LoseLate
  <2>2. TypeOK'
    BY <2>1 DEF TypeOK, tables
  <2>3. \A q \in Runs : RunInv(q)'
    BY <2>1, OtherRun DEF DurableInv, tables
  <2>4. QED
    BY <2>2, <2>3 DEF DurableInv
<1>11. ASSUME NEW decision \in Decisions, Decide(decision)
       PROVE  TypeOK' /\ DurableInv'
  <2>1. TypeOK'
    BY <1>11, WorkflowsAssumption DEF TypeOK, Decide
  <2>2. \A q \in Runs : RunInv(q)'
    BY <1>11, OtherRun DEF DurableInv, Decide
  <2>3. QED
    BY <2>1, <2>2 DEF DurableInv
<1>12. ASSUME NEW k \in Keys, NEW row \in Edits, ApiWrite(k, row)
       PROVE  TypeOK' /\ DurableInv'
  <2>1. TypeOK'
    BY <1>12, EditsAssumption DEF TypeOK, ApiWrite
  <2>2. \A q \in Runs : RunInv(q)'
    BY <1>12, OtherRun DEF DurableInv, ApiWrite
  <2>3. QED
    BY <2>1, <2>2 DEF DurableInv
<1>13. CASE UNCHANGED wvars
  <2>1. TypeOK'
    BY <1>13 DEF TypeOK, wvars
  <2>2. \A q \in Runs : RunInv(q)'
    BY <1>13, OtherRun DEF DurableInv, wvars
  <2>3. QED
    BY <2>1, <2>2 DEF DurableInv
<1>14. QED
  BY <1>1, <1>2, <1>3, <1>5, <1>6, <1>7, <1>8, <1>9, <1>10, <1>11, <1>12, <1>13
  DEF Next, RunNext, RunStep, Progress

LEMMA InitInv ==
  ASSUME Init
  PROVE  TypeOK /\ DurableInv
<1>1. TypeOK
  BY DEF Init, TypeOK, Row, NoRow, Statuses, Texts
<1>2. DurableInv
  BY DEF Init, DurableInv, RunInv
<1>3. QED
  BY <1>1, <1>2

----------------------------------------------------------------------------
(* The theorems.                                                           *)

\* Every value stays in its type, and every run keeps its rows in order:
\* the invariant the others follow from.
THEOREM RunsInvariant == Spec => [](TypeOK /\ DurableInv)
<1>1. Init => TypeOK /\ DurableInv
  BY InitInv
<1>2. TypeOK /\ DurableInv /\ [Next]_wvars => (TypeOK /\ DurableInv)'
  BY NextInv
<1>3. QED
  BY <1>1, <1>2, PTL DEF Spec

\* Every value the worker, its threads and humans write stays in its type.
THEOREM WorkflowTypeCorrect == Spec => []TypeOK
BY RunsInvariant, PTL

\* A run whose workflow_runs row reads Completed or Skipped has had every row
\* of its workflow written, whatever failed, was retried or ran beside it.
THEOREM CompletedRunsAreDone == Spec => []CompletedMeansDone
<1>1. ASSUME TypeOK, DurableInv
      PROVE  CompletedMeansDone
  <2> SUFFICES ASSUME NEW r \in Runs, runRow[r] \in Final,
                      NEW i \in DOMAIN Script(r), Script(r)[i].do \in Written
               PROVE  i \in applied[r]
    BY DEF CompletedMeansDone
  <2>1. RunInv(r) /\ runs[r] # NotStarted
    BY <1>1 DEF DurableInv, RunInv, Final
  <2>2. /\ Len(Script(r)) \in applied[r]
        /\ DOMAIN Script(r) = 1..Len(Script(r)) /\ Len(Script(r)) \in Nat
    BY <1>1, <2>1, RunShape DEF RunInv
  <2>3. runs[r].pc = Len(Script(r))
    BY <2>1, <2>2 DEF RunInv
  <2>4. CASE i < runs[r].pc
    BY <2>1, <2>4 DEF RunInv
  <2>5. CASE i = runs[r].pc
    BY <2>2, <2>3, <2>5
  <2>6. QED
    BY <2>2, <2>3, <2>4, <2>5
<1>2. QED
  BY <1>1, RunsInvariant, PTL

\* A run Temporal completed does not stay Running in workflow_runs.
THEOREM CompletedRunsAreRecorded == Spec => []CompletedIsRecorded
<1>1. ASSUME TypeOK, DurableInv
      PROVE  CompletedIsRecorded
  <2> SUFFICES ASSUME NEW r \in Runs, runs[r].phase = "completed"
               PROVE  runRow[r] \in Final
    BY DEF CompletedIsRecorded
  <2>1. RunInv(r) /\ runs[r] # NotStarted
    BY <1>1, PhaseStarted DEF DurableInv
  <2>2. runs[r].pc = Len(Script(r)) /\ runs[r].pc \in DOMAIN Script(r)
    BY <2>1 DEF RunInv
  <2>3. Now(r).do = "run"
    BY <1>1, <2>1, <2>2, RunShape DEF Now
  <2>4. runs[r].pc \in applied[r]
    BY <2>1, <2>3 DEF RunInv, Written
  <2>5. QED
    BY <2>1, <2>2, <2>4 DEF RunInv
<1>2. QED
  BY <1>1, RunsInvariant, PTL

----------------------------------------------------------------------------
(* Contacted candidates have rows.                                         *)

\* No step takes a script away from a run that has written something.
LEMMA ScriptStays ==
  ASSUME TypeOK, DurableInv, [Next]_wvars, NEW r \in Runs, runs[r] # NotStarted
  PROVE  Script(r)' = Script(r)
<1>1. runs[r] \in Started /\ runs[r].phase # "new"
  BY DEF TypeOK, Started
<1>2. runs'[r].phase # "new" /\ runs'[r].workflow = runs[r].workflow
  <2>1. ASSUME NEW q \in Runs, NEW w \in Workflows, Start(q, w)
        PROVE  runs'[r] = runs[r]
    BY <2>1 DEF Start, TypeOK
  <2>2. ASSUME NEW q \in Runs, NEW text \in Texts, Draft(q, text)
        PROVE  runs'[r].phase # "new" /\ runs'[r].workflow = runs[r].workflow
    BY <1>1, <2>2 DEF Draft, TypeOK, Started
  <2>3. ASSUME NEW q \in Runs, Complete(q)
        PROVE  runs'[r].phase # "new" /\ runs'[r].workflow = runs[r].workflow
    BY <1>1, <2>3 DEF Complete, TypeOK, Started
  <2>4. ASSUME NEW q \in Runs, Retry(q)
        PROVE  runs'[r].phase # "new" /\ runs'[r].workflow = runs[r].workflow
    BY <1>1, <2>4 DEF Retry, TypeOK, Started
  <2>5. ASSUME NEW q \in Runs, Perform(q) \/ PostNothing(q) \/ GiveUp(q) \/ TimeOut(q)
        PROVE  runs'[r].phase # "new" /\ runs'[r].workflow = runs[r].workflow
    BY <1>1, <2>5 DEF Perform, PostNothing, GiveUp, TimeOut, TypeOK, Started
  <2>6. CASE UNCHANGED runs
    BY <1>1, <2>6
  <2>7. QED
    BY <1>1, <2>1, <2>2, <2>3, <2>4, <2>5, <2>6
       DEF Next, RunNext, RunStep, Progress, PerformLate, LoseLate, Decide, ApiWrite, wvars
<1>3. QED
  BY <1>2 DEF Script, NotStarted

\* An activity takes effect; what it writes is what ContactInv asks of it.
LEMMA ApplyContact ==
  ASSUME TypeOK, DurableInv, ContactInv, [Next]_wvars,
         NEW r \in Runs, runs[r] # NotStarted, Apply(r, runs[r].pc)
  PROVE  ContactInv'
<1> DEFINE a == Script(r)[runs[r].pc]
<1>1. /\ a \in Activities
      /\ a.do = "append" => <<a.arg, a.step>> \in Keys
  BY RunShape, ActivityShape DEF DurableInv, RunInv
<1>2. \A q \in Runs : q = r \/ applied[q] # {} => Script(q)' = Script(q)
  BY ScriptStays DEF DurableInv, RunInv
<1>3. applied' = [applied EXCEPT ![r] = @ \cup {runs[r].pc}]
  BY DEF Apply
<1>4. /\ \A k \in Keys : rows[k] # NoRow => rows'[k] # NoRow
      /\ a.do = "append" => rows'[<<a.arg, a.step>>] # NoRow
  BY <1>1 DEF Apply, TypeOK, AppendedInteraction, AppendedRow, NoRow
<1>5. stage' = IF a.do = "candidate" THEN a.arg ELSE stage
  BY DEF Apply
<1> HIDE DEF a
<1>6. ASSUME NEW q \in Runs, NEW i \in applied'[q]
      PROVE  /\ Script(q)' = Script(q)
             /\ i \in applied[q] \/ (q = r /\ i = runs[r].pc)
  BY <1>2, <1>3 DEF TypeOK
<1>7. ASSUME NEW q \in Runs, NEW i \in applied'[q], Script(q)[i].do = "append"
      PROVE  rows'[<<Script(q)[i].arg, Script(q)[i].step>>] # NoRow
  <2>1. CASE i \in applied[q]
    <3>1. runs[q] # NotStarted /\ i \in DOMAIN Script(q)
      BY <2>1 DEF DurableInv, RunInv
    <3>2. <<Script(q)[i].arg, Script(q)[i].step>> \in Keys
      BY <1>7, <3>1, RunShape, ActivityShape
    <3>3. QED
      BY <1>4, <1>7, <2>1, <3>2 DEF ContactInv
  <2>2. CASE q = r /\ i = runs[r].pc
    BY <1>4, <1>7, <2>2 DEF a
  <2>3. QED
    BY <1>6, <2>1, <2>2
<1>8. ASSUME stage' = "contacted"
      PROVE  \E q \in Runs : \E i \in applied'[q] :
               Script(q)[i].do = "candidate" /\ Script(q)[i].arg = "contacted"
  <2>1. CASE a.do = "candidate"
    BY <1>3, <1>5, <1>8, <2>1 DEF TypeOK, a
  <2>2. CASE a.do # "candidate"
    BY <1>3, <1>5, <1>8, <2>2 DEF TypeOK, ContactInv
  <2>3. QED
    BY <2>1, <2>2
<1>9. QED
  BY <1>6, <1>7, <1>8 DEF ContactInv

LEMMA ContactStep ==
  ASSUME TypeOK, DurableInv, ContactInv, [Next]_wvars
  PROVE  ContactInv'
<1>1. ASSUME NEW r \in Runs, Perform(r) \/ PerformLate(r)
      PROVE  ContactInv'
  BY <1>1, PhaseStarted, ApplyContact DEF Perform, PerformLate
<1>2. ASSUME UNCHANGED <<rows, applied>>, stage' = stage \/ stage' \in HumanStages
      PROVE  ContactInv'
  <2>1. \A r \in Runs : applied[r] # {} => Script(r)' = Script(r)
    BY ScriptStays DEF DurableInv, RunInv
  <2>2. stage' = "contacted" => stage = "contacted"
    BY <1>2 DEF HumanStages
  <2>3. QED
    BY <1>2, <2>1, <2>2 DEF ContactInv
<1>3. ASSUME NEW k \in Keys, NEW row \in Edits, ApiWrite(k, row)
      PROVE  ContactInv'
  <2>1. row # NoRow
    BY EditsAssumption DEF NoRow
  <2>2. \A key \in Keys : rows[key] # NoRow => rows'[key] # NoRow
    BY <1>3, <2>1 DEF ApiWrite, TypeOK
  <2>3. \A r \in Runs : applied[r] # {} => Script(r)' = Script(r)
    BY ScriptStays DEF DurableInv, RunInv
  <2>4. ASSUME NEW r \in Runs, NEW i \in applied[r], Script(r)[i].do = "append"
        PROVE  rows'[<<Script(r)[i].arg, Script(r)[i].step>>] # NoRow
    <3>1. runs[r] # NotStarted /\ i \in DOMAIN Script(r)
      BY DEF DurableInv, RunInv
    <3>2. <<Script(r)[i].arg, Script(r)[i].step>> \in Keys
      BY <2>4, <3>1, RunShape, ActivityShape
    <3>3. QED
      BY <2>2, <2>4, <3>2 DEF ContactInv
  <2>5. stage' = stage /\ applied' = applied
    BY <1>3 DEF ApiWrite
  <2>6. QED
    BY <2>3, <2>4, <2>5 DEF ContactInv
<1>4. QED
  BY <1>1, <1>2, <1>3, WorkflowsAssumption
  DEF Next, RunNext, RunStep, Progress, Start, Draft, PostNothing, Complete, Retry, GiveUp,
      TimeOut, LoseLate, Decide, tables, wvars

\* ContactedHasRows, for any number of runs of workflows that prepare their
\* messages before the last stage: whatever fails, is retried or overlaps.
THEOREM ContactedHaveRows == Spec => []ContactedHasRows
<1>1. Init => ContactInv
  BY DEF Init, ContactInv
<1>2. TypeOK /\ DurableInv /\ ContactInv /\ [Next]_wvars => ContactInv'
  BY ContactStep
<1>3. TypeOK /\ DurableInv /\ ContactInv => ContactedHasRows
  <2> SUFFICES ASSUME TypeOK, DurableInv, ContactInv, stage = "contacted"
               PROVE  \E r \in Runs :
                        /\ \E i \in applied[r] : Script(r)[i].do = "candidate"
                                                /\ Script(r)[i].arg = "contacted"
                        /\ \A j \in DOMAIN Script(r) :
                             Script(r)[j].do = "append" =>
                               rows[<<Script(r)[j].arg, Script(r)[j].step>>] # NoRow
    BY DEF ContactedHasRows
  <2>1. PICK r \in Runs : \E i \in applied[r] :
               Script(r)[i].do = "candidate" /\ Script(r)[i].arg = "contacted"
    BY DEF ContactInv
  <2>0. PICK i \in applied[r] :
               Script(r)[i].do = "candidate" /\ Script(r)[i].arg = "contacted"
    BY <2>1
  <2>2. RunInv(r) /\ runs[r] # NotStarted
    BY DEF DurableInv, RunInv
  <2>3. i \in DOMAIN Script(r) /\ i <= runs[r].pc
    BY <2>2 DEF RunInv
  <2>4. ASSUME NEW j \in DOMAIN Script(r), Script(r)[j].do = "append"
        PROVE  j \in applied[r]
    <3>1. j < i
      BY <2>0, <2>2, <2>3, <2>4, RunShape, ContactAssumption
    <3>2. j < runs[r].pc
      BY <2>2, <2>3, <3>1, RunShape DEF Started
    <3>3. QED
      BY <2>2, <2>4, <3>2 DEF RunInv, Written
  <2>5. QED
    BY <2>1, <2>4 DEF ContactInv
<1>4. QED
  BY <1>1, <1>2, <1>3, RunsInvariant, PTL DEF Spec

----------------------------------------------------------------------------
(* Every run implements DurableRun.                                        *)

\* A step that changes nothing of a run is a stuttering step of DurableRun.
LEMMA DurableStutter ==
  ASSUME NEW r \in Runs,
         Script(r)' = Script(r), applied'[r] = applied[r],
         DurablePhase(r)' = DurablePhase(r)
  PROVE  UNCHANGED Durable(r)!dvars
BY DEF Durable!dvars, Must

\* A thread outlives a run only once it failed, and stands at its position.
LEMMA LateShape ==
  ASSUME TypeOK, NEW r \in Runs, RunInv(r)
  PROVE  /\ Late(r) => runs[r].phase = "failed"
         /\ \A l \in late : l[1] = r => l = <<r, runs[r].pc>>
BY DEF TypeOK, RunInv, Late

\* An effect at a run's position is the next step of DurableRun or a repetition.
LEMMA DurableEffect ==
  ASSUME TypeOK, NEW r \in Runs, RunInv(r), runs[r] # NotStarted,
         Apply(r, runs[r].pc), Script(r)' = Script(r)
  PROVE  \E i \in UNION {DOMAIN w.script : w \in Workflows} : Durable(r)!Apply(i)
<1>1. runs[r].pc \in DOMAIN Script(r) /\ Script(r) = runs[r].workflow.script
      /\ runs[r].workflow \in Workflows
  BY RunShape DEF RunInv
<1>2. runs[r].pc \in UNION {DOMAIN w.script : w \in Workflows}
  BY <1>1
<1>3. /\ \A j \in Must(r) : j < runs[r].pc => j \in applied[r]
      /\ \A j \in applied[r] : j <= runs[r].pc
  BY <1>1 DEF RunInv, Must
<1>4. applied'[r] = applied[r] \cup {runs[r].pc} /\ Must(r)' = Must(r)
  BY DEF Apply, TypeOK, Must
<1>5. Durable(r)!Apply(runs[r].pc)
  BY <1>3, <1>4 DEF Durable!Apply
<1>6. QED
  BY <1>2, <1>5

\* Every step of the system is a step of DurableRun for each run, or none.
LEMMA DurableStep ==
  ASSUME TypeOK, DurableInv, DurableInv', TypeOK', [Next]_wvars, NEW r \in Runs
  PROVE  Durable(r)!Next \/ UNCHANGED Durable(r)!dvars
<1> DEFINE Moves == Durable(r)!Next \/ UNCHANGED Durable(r)!dvars
<1>1. RunInv(r)
  BY DEF DurableInv
<1>2. Open(r) => DurablePhase(r) = "open"
  BY DEF DurablePhase
<1>3. /\ Late(r) => runs[r].phase = "failed"
      /\ Late(r)' => runs'[r].phase = "failed"
      /\ \A l \in late : l[1] = r => l = <<r, runs[r].pc>>
  <2>1. RunInv(r)'
    BY DEF DurableInv
  <2>2. Late(r)' => runs'[r].phase = "failed"
    BY <2>1 DEF RunInv, Late
  <2>3. QED
    BY <1>1, <2>2, LateShape
<1>4. ASSUME runs'[r] = runs[r], applied'[r] = applied[r], Late(r)' = Late(r)
      PROVE  Moves
  BY <1>4, DurableStutter DEF Script, DurablePhase, Open
<1>5. ASSUME NEW w \in Workflows, Start(r, w)
      PROVE  Moves
  <2>1. DurablePhase(r) = "new"
    BY <1>3, <1>5 DEF Start, NotStarted, DurablePhase, Open
  <2>2. /\ runs'[r] # NotStarted /\ runs'[r].workflow = w /\ runs'[r].phase = "begun"
        /\ applied' = applied
    BY <1>5 DEF Start, NotStarted, TypeOK
  <2>3. DurablePhase(r)' = "open"
    BY <2>2 DEF DurablePhase, Open
  <2>4. Script(r)' = w.script
    BY <2>2 DEF Script
  <2>5. Must(r)' \in SUBSET UNION {DOMAIN v.script : v \in Workflows}
    BY <2>4 DEF Must
  <2>6. Durable(r)!Begin
    BY <2>1, <2>2, <2>3, <2>5 DEF Durable!Begin
  <2>7. QED
    BY <2>6 DEF Durable!Next
<1>6. ASSUME Perform(r)
      PROVE  Moves
  <2>1. /\ runs[r] # NotStarted /\ Apply(r, runs[r].pc) /\ Open(r) /\ Open(r)'
        /\ Script(r)' = Script(r)
    BY <1>6, PhaseStarted DEF Perform, Open, TypeOK, Script, NotStarted, Started
  <2>2. DurablePhase(r) = "open" /\ DurablePhase(r)' = "open"
    BY <2>1 DEF DurablePhase
  <2>3. Durable(r)!TakeStep
    BY <1>1, <2>1, <2>2, DurableEffect DEF Durable!TakeStep
  <2>4. QED
    BY <2>3 DEF Durable!Next
<1>7. ASSUME Open(r), Open(r)', applied' = applied, runs'[r].workflow = runs[r].workflow,
             runs'[r] # NotStarted
      PROVE  Moves
  <2>1. Script(r)' = Script(r)
    BY <1>7 DEF Script, Open, NotStarted
  <2>2. DurablePhase(r) = "open" /\ DurablePhase(r)' = "open"
    BY <1>7 DEF DurablePhase
  <2>3. QED
    BY <1>7, <2>1, <2>2, DurableStutter
<1>8. ASSUME NEW text \in Texts, Draft(r, text)
      PROVE  Moves
  <2>1. runs[r] \in Started
    BY <1>8, PhaseStarted, RunShape DEF Draft
  <2>2. /\ Open(r) /\ Open(r)' /\ applied' = applied
        /\ runs'[r].workflow = runs[r].workflow /\ runs'[r] # NotStarted
    BY <1>8, <2>1 DEF Draft, Open, TypeOK, NotStarted, Started
  <2>3. QED
    BY <1>7, <2>2
<1>9. ASSUME PostNothing(r) \/ Retry(r)
      PROVE  Moves
  <2>1. runs[r] \in Started
    BY <1>9, PhaseStarted, RunShape DEF PostNothing, Retry, Open
  <2>2. /\ Open(r) /\ Open(r)' /\ applied' = applied
        /\ runs'[r].workflow = runs[r].workflow /\ runs'[r] # NotStarted
    BY <1>9, <2>1 DEF PostNothing, Retry, Open, TypeOK, NotStarted, Started
  <2>3. QED
    BY <1>7, <2>2
<1>10. ASSUME Complete(r)
       PROVE  Moves
  <2>1. /\ runs[r].phase = "applied" /\ runs[r] # NotStarted /\ runs[r] \in Started
        /\ applied' = applied /\ late' = late
    BY <1>10, PhaseStarted, RunShape DEF Complete
  <2>2. CASE runs[r].pc = Len(Script(r))
    <3>1. /\ runs'[r].phase = "completed" /\ runs'[r].workflow = runs[r].workflow
          /\ runs'[r] # NotStarted
      BY <1>10, <2>1, <2>2 DEF Complete, TypeOK, Started, NotStarted
    <3>2. Script(r)' = Script(r)
      BY <2>1, <3>1 DEF Script
    <3>3. DurablePhase(r) = "open" /\ DurablePhase(r)' = "completed"
      BY <1>3, <2>1, <3>1 DEF DurablePhase, Open
    <3>4. DOMAIN Script(r) = 1..Len(Script(r)) /\ Len(Script(r)) \in Nat
      BY <2>1, RunShape
    <3>5. Must(r) \subseteq applied[r]
      <4>1. ASSUME NEW i \in Must(r)  PROVE i \in applied[r]
        <5>1. i \in DOMAIN Script(r) /\ Script(r)[i].do \in Written
          BY DEF Must
        <5>2. i < runs[r].pc \/ i = runs[r].pc
          BY <2>2, <3>4, <5>1
        <5>3. QED
          BY <1>1, <2>1, <5>1, <5>2 DEF RunInv, Now
      <4>2. QED
        BY <4>1
    <3>6. Durable(r)!Complete
      BY <2>1, <3>2, <3>3, <3>5 DEF Durable!Complete, Must
    <3>7. QED
      BY <3>6 DEF Durable!Next
  <2>3. CASE runs[r].pc # Len(Script(r))
    <3>1. /\ Open(r) /\ Open(r)' /\ runs'[r].workflow = runs[r].workflow
          /\ runs'[r] # NotStarted
      BY <1>10, <2>1, <2>3 DEF Complete, TypeOK, Started, NotStarted, Open
    <3>2. QED
      BY <1>7, <2>1, <3>1
  <2>4. QED
    BY <2>2, <2>3
<1>11. ASSUME GiveUp(r) \/ TimeOut(r)
       PROVE  Moves
  <2>1. /\ Open(r) /\ runs[r] # NotStarted /\ runs[r] \in Started /\ applied' = applied
    BY <1>11, PhaseStarted, RunShape DEF GiveUp, TimeOut, Open
  <2>2. /\ runs'[r].phase = "failed" /\ runs'[r].workflow = runs[r].workflow
        /\ runs'[r] # NotStarted
    BY <1>11, <2>1 DEF GiveUp, TimeOut, TypeOK, Started, NotStarted
  <2>3. Script(r)' = Script(r)
    BY <2>1, <2>2 DEF Script
  <2>4. DurablePhase(r) = "open" /\ DurablePhase(r)' \in {"failing", "failed"}
    BY <2>1, <2>2 DEF DurablePhase, Open
  <2>5. Durable(r)!Fail
    BY <2>1, <2>3, <2>4 DEF Durable!Fail, Must
  <2>6. QED
    BY <2>5 DEF Durable!Next
<1>12. ASSUME PerformLate(r) \/ LoseLate(r)
       PROVE  Moves
  <2>1. /\ runs[r].phase = "failed" /\ runs[r] # NotStarted /\ runs' = runs
        /\ <<r, runs[r].pc>> \in late /\ late' = late \ {<<r, runs[r].pc>>}
    BY <1>12, PhaseStarted DEF PerformLate, LoseLate
  <2>2. Late(r) /\ ~Late(r)' /\ Script(r)' = Script(r)
    BY <1>3, <2>1 DEF Late, Script
  <2>3. DurablePhase(r) = "failing" /\ DurablePhase(r)' = "failed"
    BY <2>1, <2>2 DEF DurablePhase, Open
  <2>4. CASE PerformLate(r)
    BY <1>1, <2>1, <2>2, <2>3, <2>4, DurableEffect
    DEF PerformLate, Durable!Next, Durable!LastStep
  <2>5. CASE LoseLate(r)
    <3>1. Must(r)' = Must(r) /\ applied' = applied
      BY <2>2, <2>5 DEF LoseLate, Must
    <3>2. QED
      BY <2>3, <3>1 DEF Durable!Next, Durable!LastStep
  <2>6. QED
    BY <1>12, <2>4, <2>5
<1>13. ASSUME NEW q \in Runs, q # r, RunStep(q)
       PROVE  Moves
  <2>1. runs'[r] = runs[r] /\ applied'[r] = applied[r]
    BY <1>13 DEF RunStep, Progress, Start, Perform, Draft, PostNothing, Complete,
                 Retry, GiveUp, TimeOut, PerformLate, LoseLate, Apply, TypeOK
  <2>2. Late(r)' = Late(r)
    <3>1. \/ late' = late
          \/ late' = late \cup {<<q, runs[q].pc>>}
          \/ late' = late \ {<<q, runs[q].pc>>}
      BY <1>13 DEF RunStep, Progress, Start, Perform, Draft, PostNothing, Complete,
                   Retry, GiveUp, TimeOut, PerformLate, LoseLate
    <3>2. QED
      BY <1>13, <3>1 DEF Late
  <2>3. QED
    BY <1>4, <2>1, <2>2
<1>14. ASSUME NEW decision \in Decisions, Decide(decision)
       PROVE  Moves
  BY <1>4, <1>14 DEF Decide, Late
<1>15. ASSUME NEW k \in Keys, NEW row \in Edits, ApiWrite(k, row)
       PROVE  Moves
  BY <1>4, <1>15 DEF ApiWrite, Late
<1>16. CASE UNCHANGED wvars
  BY <1>4, <1>16 DEF wvars, Late
<1>17. QED
  BY <1>5, <1>6, <1>8, <1>9, <1>10, <1>11, <1>12, <1>13, <1>14, <1>15, <1>16
  DEF Next, RunNext, RunStep, Progress

LEMMA DurableInit ==
  ASSUME Init, NEW r \in Runs
  PROVE  Durable(r)!Init
BY DEF Durable!Init, Init, Must, DurablePhase, Late, Open, Script, NotStarted

\* Every run implements DurableRun: rows in order, each at least once before
\* the next, none after completion, one late row at most after a failure.
THEOREM RunsImplementDurableRun == Spec => RunsAreDurable
<1>1. Init => \A r \in Runs : Durable(r)!Init
  BY DurableInit
<1>2. TypeOK /\ DurableInv /\ (TypeOK /\ DurableInv)' /\ [Next]_wvars =>
        [\A r \in Runs : Durable(r)!Next \/ UNCHANGED Durable(r)!dvars]_wvars
  BY DurableStep
<1>3. QED
  BY <1>1, <1>2, RunsInvariant, PTL DEF Spec, RunsAreDurable
----------------------------------------------------------------------------
(* Without human decisions, one run moves the stage forward.               *)

\* The activity at a run's position takes effect: the stage stays, or becomes
\* what that activity, the latest of the run, writes.
LEMMA ApplyStage ==
  ASSUME TypeOK, DurableInv, StageInv, [Next]_wvars,
         NEW r \in Runs, runs[r] # NotStarted, Apply(r, runs[r].pc)
  PROVE  StageInv'
<1> DEFINE pc == runs[r].pc
           a  == Script(r)[pc]
<1>1. /\ pc \in DOMAIN Script(r) /\ DOMAIN Script(r) \subseteq Nat
      /\ \A j \in applied[r] : j \in DOMAIN Script(r) /\ j <= pc
  BY RunShape DEF DurableInv, RunInv
<1>2. \A q \in Runs : q = r \/ applied[q] # {} => Script(q)' = Script(q)
  BY ScriptStays DEF DurableInv, RunInv
<1>3. /\ applied'[r] = applied[r] \cup {pc}
      /\ \A q \in Runs : q # r => applied'[q] = applied[q]
  BY DEF Apply, TypeOK
<1>4. stage' = IF a.do = "candidate" THEN a.arg ELSE stage
  BY DEF Apply
<1>5. CASE a.do = "candidate"
  <2>1. pc \in applied'[r] \cap Writes(r, stage')
    BY <1>1, <1>3, <1>4, <1>5 DEF Writes
  <2>2. \A j \in applied'[r] : j <= pc
    BY <1>1, <1>3
  <2>3. Script(r)' = Script(r)
    BY <1>2
  <2>4. QED
    BY <2>1, <2>2, <2>3 DEF StageInv, Writes
<1>6. CASE a.do # "candidate"
  <2> SUFFICES ASSUME stage' # "absent"
               PROVE  \E q \in Runs : \E i \in applied'[q] \cap Writes(q, stage)' :
                        \A j \in applied'[q] : Script(q)'[j].do = "candidate" => j <= i
    BY <1>4, <1>6 DEF StageInv, Writes
  <2>1. stage' = stage
    BY <1>4, <1>6
  <2>2. PICK q \in Runs : \E i \in applied[q] \cap Writes(q, stage) :
               \A j \in applied[q] : Script(q)[j].do = "candidate" => j <= i
    BY <2>1 DEF StageInv
  <2>3. PICK i \in applied[q] \cap Writes(q, stage) :
               \A j \in applied[q] : Script(q)[j].do = "candidate" => j <= i
    BY <2>2
  <2>4. Script(q)' = Script(q)
    BY <1>2, <2>3
  <2>5. i \in applied'[q] \cap Writes(q, stage)'
    BY <1>3, <2>1, <2>3, <2>4 DEF Writes
  <2>6. \A j \in applied'[q] : j \in applied[q] \/ Script(q)[j].do # "candidate"
    BY <1>3, <1>6
  <2>7. QED
    BY <2>3, <2>4, <2>5, <2>6
<1>7. QED
  BY <1>5, <1>6

LEMMA StageStep ==
  ASSUME Decisions = {}, TypeOK, DurableInv, StageInv, [Next]_wvars
  PROVE  StageInv'
<1>1. ASSUME NEW r \in Runs, Perform(r) \/ PerformLate(r)
      PROVE  StageInv'
  BY <1>1, PhaseStarted, ApplyStage DEF Perform, PerformLate
<1>2. ASSUME UNCHANGED <<stage, applied>>
      PROVE  StageInv'
  <2>1. \A r \in Runs : applied[r] # {} => Script(r)' = Script(r)
    BY ScriptStays DEF DurableInv, RunInv
  <2>2. QED
    BY <1>2, <2>1 DEF StageInv, Writes
<1>3. QED
  BY <1>1, <1>2
  DEF Next, RunNext, RunStep, Progress, Start, Draft, PostNothing, Complete, Retry, GiveUp,
      TimeOut, LoseLate, ApiWrite, tables, wvars

\* An activity that changes the stage stands behind the upsert of the stage it
\* leaves, and the workflow did not write the new stage before that one.
LEMMA ApplyForward ==
  ASSUME TypeOK, DurableInv, StageInv, NEW r \in Runs, \A q \in Runs : q = r,
         runs[r] # NotStarted, Apply(r, runs[r].pc), stage # "absent", stage' # stage
  PROVE  /\ Writes(r, stage') # {}
         /\ \E i \in Writes(r, stage) : \A j \in Writes(r, stage') : i < j
<1> DEFINE pc == runs[r].pc
<1>1. /\ pc \in DOMAIN Script(r) /\ DOMAIN Script(r) \subseteq Nat
      /\ \A j \in applied[r] : j \in DOMAIN Script(r) /\ j <= pc
      /\ runs[r].workflow \in Workflows /\ Script(r) = runs[r].workflow.script
  BY RunShape DEF DurableInv, RunInv
<1>2. pc \in Writes(r, stage')
  BY <1>1 DEF Apply, Writes
<1>3. PICK i \in applied[r] \cap Writes(r, stage) : TRUE
  BY DEF StageInv
<1>4. i \in Nat /\ i < pc
  <2>1. i # pc
    BY <1>2, <1>3 DEF Writes
  <2>2. QED
    BY <1>1, <1>3, <2>1
<1>5. ASSUME NEW j \in Writes(r, stage')
      PROVE  i < j
  <2>1. j \in Nat /\ j # i
    BY <1>1, <1>3 DEF Writes
  <2>2. ASSUME j < i
        PROVE  FALSE
    <3>1. /\ \A x \in {j, i, pc} : x \in DOMAIN Script(r) /\ Script(r)[x].do = "candidate"
          /\ Script(r)[j].arg = stage' /\ Script(r)[pc].arg = stage'
          /\ Script(r)[i].arg = stage
      BY <1>2, <1>3 DEF Writes
    <3>2. QED
      BY <1>1, <1>4, <2>2, <3>1, StagesAssumption
  <2>3. QED
    BY <1>4, <2>1, <2>2
<1>6. QED
  BY <1>2, <1>3, <1>5

\* StageMovesForward, for a run of any workflow that does not come back to a
\* stage: whatever fails, is repeated, times out or is late.
THEOREM StagesMoveForward ==
  ASSUME Decisions = {}, \A q, r \in Runs : q = r
  PROVE  Spec => StageMovesForward
<1> DEFINE Forward ==
      \A r \in Runs : stage # "absent" /\ stage' # stage =>
        /\ Writes(r, stage') # {}
        /\ \E i \in Writes(r, stage) : \A j \in Writes(r, stage') : i < j
<1>1. Init => StageInv
  BY DEF Init, StageInv
<1>2. TypeOK /\ DurableInv /\ StageInv /\ [Next]_wvars => StageInv'
  BY StageStep
<1>3. TypeOK /\ DurableInv /\ StageInv /\ [Next]_wvars => [Forward]_wvars
  <2> SUFFICES ASSUME TypeOK, DurableInv, StageInv, Next, NEW r \in Runs,
                      stage # "absent", stage' # stage
               PROVE  /\ Writes(r, stage') # {}
                      /\ \E i \in Writes(r, stage) : \A j \in Writes(r, stage') : i < j
    OBVIOUS
  <2>1. PICK q \in Runs : Perform(q) \/ PerformLate(q)
    BY DEF Next, RunNext, RunStep, Progress, Start, Draft, PostNothing, Complete, Retry,
           GiveUp, TimeOut, LoseLate, ApiWrite, tables
  <2>2. q = r /\ runs[r] # NotStarted /\ Apply(r, runs[r].pc)
    BY <2>1, PhaseStarted DEF Perform, PerformLate
  <2>3. QED
    BY <2>2, ApplyForward
<1>4. QED
  BY <1>1, <1>2, <1>3, RunsInvariant, PTL DEF Spec, StageMovesForward
=============================================================================
