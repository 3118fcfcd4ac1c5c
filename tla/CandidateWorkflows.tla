------------------------ MODULE CandidateWorkflows ------------------------
(***************************************************************************)
(* The worker running the workflows of one candidate and its tenant.       *)
(*                                                                         *)
(* Temporal keeps the position of every run and hands its activities to    *)
(* the worker's threads one at a time; several runs proceed side by side.  *)
(* An attempt of an activity takes effect (its db.py transaction commits,  *)
(* its webhook request arrives), then it is reported.  It may fail before  *)
(* the effect, or after it (the Notion mirror, which follows the commit,   *)
(* raises; the answer is lost), and is tried again; it may outlast its     *)
(* schedule_to_close timeout, which fails the whole run, while its thread  *)
(* is dead or, with a slow database, still going to take effect.           *)
(*                                                                         *)
(* Left out: a worker without DATABASE_URL, whose activities write         *)
(* nothing, and the pages of the Notion mirror.                            *)
(***************************************************************************)
EXTENDS InteractionStore, Naturals, Sequences

CONSTANTS Keys,       \* <<channel, cadence step>> of the candidate's interactions
          Runs,       \* run ids
          Workflows,  \* the workflows that may be started (WorkflowScripts)
          Decisions,  \* stages humans may give the candidate
          FollowUps,  \* the keys of follow-ups the API prepares itself
          Edits       \* rows the API may write

VARIABLES
  tenant,   \* the tenants row exists
  stage,    \* the candidate's stage, "absent" while it has no row
  rows,     \* the interactions table: <<channel, cadence step>> -> Row
  runRow,   \* the workflow_runs table: run id -> status
  runs,     \* what Temporal knows of each run
  late,     \* <<r, i>>: activity i of the failed run r is still executing
  applied,  \* activities of each run that took effect, by position
  posted    \* <<key, text>> pairs the channel webhooks received

tables == <<tenant, stage, rows, runRow>>
wvars == <<tenant, stage, rows, runRow, runs, late, applied, posted>>

Stages == {"ingested", "enriched", "qualified", "ready_to_contact", "contacted",
           "follow_up", "closed"}

HumanStages == {"paused", "discarded", "qualified"}

Final == {"Completed", "Skipped"}

Prompts == {"enrich", "classify", "render"}

Events ==
  {"candidate.ingested", "candidate.enriched", "candidate.qualified",
   "candidate.outreach_routed", "candidate.follow_up_scheduled",
   "candidate.follow_up_due", "candidate.closed", "candidate.lifecycle_completed",
   "tenant.onboarded"}

\* What each activity of a workflow may name.
Activities ==
  [do : {"agent"}, arg : Prompts, step : {0}]
    \cup [do : {"audit"}, arg : Events, step : {0}]
    \cup [do : {"tenant", "sleep"}, arg : {"onboarded", ""}, step : {0}]
    \cup [do : {"candidate"}, arg : Stages, step : {0}]
    \cup [do : {"run"}, arg : {"Running"} \cup Final, step : {0}]
    \cup {a \in [do   : {"append", "post"},
                  arg  : {k[1] : k \in Keys},
                  step : {k[2] : k \in Keys}] : <<a.arg, a.step>> \in Keys}

\* The shape every workflow has: the run's final row is the last thing it
\* writes, and nothing before claims the run is over.
WellFormed(script) ==
  /\ script \in Seq(Activities)
  /\ script # <<>>
  /\ \A i \in 1..Len(script) :
       script[i].do = "run" /\ script[i].arg \in Final <=> i = Len(script)

ASSUME WorkflowsAssumption ==
  /\ \A w \in Workflows : w.attempts \in Nat /\ WellFormed(w.script)
  /\ Decisions \subseteq HumanStages

\* A workflow prepares its messages before it calls the candidate contacted.
ASSUME ContactAssumption ==
  \A w \in Workflows : \A i, j \in DOMAIN w.script :
    w.script[i].do = "candidate" /\ w.script[i].arg = "contacted" /\ w.script[j].do = "append"
      => j < i

\* A workflow does not come back to a stage it has left.
ASSUME StagesAssumption ==
  \A w \in Workflows : \A i, j, k \in DOMAIN w.script :
    /\ i < j /\ j < k
    /\ \A x \in {i, j, k} : w.script[x].do = "candidate"
    /\ w.script[i].arg = w.script[k].arg
    => w.script[j].arg = w.script[i].arg

\* Whatever the API writes is a row with a status.
ASSUME EditsAssumption == Edits \subseteq {row \in Row : row.status # "absent"}

NotStarted == [phase |-> "new"]

Started == [phase    : {"begun", "applied", "completed", "failed"},
            workflow : Workflows,
            pc       : Nat \ {0},
            attempt  : Nat \ {0},
            text     : Texts]     \* the message the workflow rendered last

Script(r) == IF runs[r] = NotStarted THEN <<>> ELSE runs[r].workflow.script
Now(r) == Script(r)[runs[r].pc]
Open(r) == runs[r].phase \in {"begun", "applied"}

Init ==
  /\ tenant \in BOOLEAN
  /\ stage = "absent"
  /\ rows = [k \in Keys |-> NoRow]
  /\ runRow = [r \in Runs |-> "absent"]
  /\ runs = [r \in Runs |-> NotStarted]
  /\ late = {}
  /\ applied = [r \in Runs |-> {}]
  /\ posted = {}

----------------------------------------------------------------------------
(* Effects.  Every table refers to the tenant's row, and interactions and  *)
(* audit events of a candidate to the candidate's: an insert that comes    *)
(* too early is refused, which is a failed attempt.                        *)

MayApply(a) ==
  /\ a.do \in {"candidate", "run", "audit", "append"} => tenant
  /\ a.do = "append" => stage # "absent"
  /\ a.do = "audit" /\ a.arg # "tenant.onboarded" => stage # "absent"

\* append_interaction_row and upsert_workflow_run, whether the row exists or not.
AppendedToOld(old, text) ==   \* mutant: a row that exists keeps its status
  IF old = NoRow THEN AppendedRow("none", text) ELSE [old EXCEPT !.message = text]
AppendedInteraction(old, text) == AppendedRow("none", text)

UpsertedRunOnce(old, status) == IF old = "absent" THEN status ELSE old   \* mutant
UpsertedRun(old, status) == status

Apply(r, i) ==
  LET a == Script(r)[i] IN
  /\ MayApply(a)
  /\ tenant' = (tenant \/ a.do = "tenant")
  /\ stage' = IF a.do = "candidate" THEN a.arg ELSE stage
  /\ rows' = IF a.do = "append"
               THEN [rows EXCEPT ![<<a.arg, a.step>>] =
                               AppendedInteraction(@, runs[r].text)]
               ELSE rows
  /\ runRow' = IF a.do = "run" THEN [runRow EXCEPT ![r] = UpsertedRun(@, a.arg)]
                               ELSE runRow
  /\ posted' = IF a.do = "post"
                 THEN posted \cup {<< <<a.arg, a.step>>, runs[r].text >>}
                 ELSE posted
  /\ applied' = [applied EXCEPT ![r] = @ \cup {i}]

----------------------------------------------------------------------------
(* One run.                                                                *)

\* start_workflow, by the API or the command-line runner.  A workflow id
\* without a random part admits one open run at a time.
StartFromZero(r, w) ==   \* mutant: attempts are counted from 0
  /\ runs[r] = NotStarted
  /\ runs' = [runs EXCEPT ![r] = [phase |-> "begun", workflow |-> w, pc |-> 1,
                                  attempt |-> 0, text |-> NoMessage]]
  /\ UNCHANGED <<tables, late, applied, posted>>
Start(r, w) ==
  /\ runs[r] = NotStarted
  /\ w.single =>
       \A q \in Runs : runs[q] # NotStarted /\ Open(q) => runs[q].workflow.name # w.name
  /\ runs' = [runs EXCEPT ![r] = [phase |-> "begun", workflow |-> w, pc |-> 1,
                                  attempt |-> 1, text |-> NoMessage]]
  /\ UNCHANGED <<tables, late, applied, posted>>

\* The attempt takes effect.
Perform(r) ==
  /\ runs[r].phase = "begun"
  /\ Now(r).do # "agent"
  /\ Apply(r, runs[r].pc)
  /\ runs' = [runs EXCEPT ![r].phase = "applied"]
  /\ UNCHANGED late

\* An LLM is asked: a rendered message goes into what follows.
Draft(r, text) ==
  /\ runs[r].phase = "begun"
  /\ Now(r).do = "agent"
  /\ runs' = [runs EXCEPT ![r].phase = "applied",
                          ![r].text = IF Now(r).arg = "render" THEN text ELSE @]
  /\ UNCHANGED <<tables, late, applied, posted>>

\* No webhook configured, or it answered with an HTTP error: the activity
\* returns as if it had sent.
PostNothing(r) ==
  /\ runs[r].phase = "begun"
  /\ Now(r).do = "post"
  /\ runs' = [runs EXCEPT ![r].phase = "applied"]
  /\ UNCHANGED <<tables, late, applied, posted>>

\* The attempt is reported and the workflow goes on.
Complete(r) ==
  LET run == runs[r] IN
  /\ run.phase = "applied"
  /\ runs' = [runs EXCEPT ![r] =
       IF run.pc = Len(Script(r))
         THEN [run EXCEPT !.phase = "completed"]
         ELSE [run EXCEPT !.phase = "begun", !.pc = run.pc + 1, !.attempt = 1]]
  /\ UNCHANGED <<tables, late, applied, posted>>

Limited(r) == runs[r].workflow.attempts # 0

\* The attempt raises, before or after its effect, and is tried again.
RetryFromStart(r) ==   \* mutant: the policy is the workflow's, which starts over
  /\ Open(r)
  /\ Limited(r) => runs[r].attempt < runs[r].workflow.attempts
  /\ runs' = [runs EXCEPT ![r].phase = "begun", ![r].pc = 1,
                          ![r].attempt = IF Limited(r) THEN @ + 1 ELSE @]
  /\ UNCHANGED <<tables, late, applied, posted>>
Retry(r) ==
  /\ Open(r)
  /\ Now(r).do # "sleep"
  /\ Limited(r) => runs[r].attempt < runs[r].workflow.attempts
  /\ runs' = [runs EXCEPT ![r].phase = "begun",
                          ![r].attempt = IF Limited(r) THEN @ + 1 ELSE @]
  /\ UNCHANGED <<tables, late, applied, posted>>

\* The last attempt the retry policy allows raises.
GiveUpQuietly(r) ==   \* mutant: the workflow swallows the error and goes on
  /\ Open(r)
  /\ Limited(r) /\ runs[r].attempt = runs[r].workflow.attempts
  /\ runs' = [runs EXCEPT ![r].phase = "applied"]
  /\ UNCHANGED <<tables, late, applied, posted>>
GiveUp(r) ==
  /\ Open(r)
  /\ Now(r).do # "sleep"
  /\ Limited(r) /\ runs[r].attempt = runs[r].workflow.attempts
  /\ runs' = [runs EXCEPT ![r].phase = "failed"]
  /\ UNCHANGED <<tables, late, applied, posted>>

\* schedule_to_close passes: the run fails, and an attempt that has not taken
\* effect yet may be lost or still under way.
TimeOutOfLimited(r) ==   \* mutant: no timeout where the policy sets no limit
  /\ Open(r) /\ Limited(r)
  /\ Now(r).do # "sleep"
  /\ runs' = [runs EXCEPT ![r].phase = "failed"]
  /\ UNCHANGED <<tables, late, applied, posted>>
TimeOut(r) ==
  /\ Open(r)
  /\ Now(r).do # "sleep"
  /\ runs' = [runs EXCEPT ![r].phase = "failed"]
  /\ \/ UNCHANGED late
     \/ /\ runs[r].phase = "begun"
        /\ Now(r).do # "agent"
        /\ late' = late \cup {<<r, runs[r].pc>>}
  /\ UNCHANGED <<tables, applied, posted>>

\* The thread of a timed-out attempt gets there after all.
PerformLate(r) ==
  /\ runs[r].phase = "failed"
  /\ <<r, runs[r].pc>> \in late
  /\ Apply(r, runs[r].pc)
  /\ late' = late \ {<<r, runs[r].pc>>}
  /\ UNCHANGED runs

\* ... or raises, or its process ends.
LoseLate(r) ==
  /\ runs[r].phase = "failed"
  /\ <<r, runs[r].pc>> \in late
  /\ late' = late \ {<<r, runs[r].pc>>}
  /\ UNCHANGED <<tables, runs, applied, posted>>

\* POST /v1/candidates/{id}/decision: a human pauses, discards or accepts (the
\* note merged into the metadata and the API's audit event are not state here).
Decide(decision) ==
  /\ stage # "absent"
  /\ stage' = decision
  /\ UNCHANGED <<tenant, rows, runRow, runs, late, applied, posted>>

\* The API updates an interaction that is there (a review, a send, a report),
\* or appends a follow-up it prepared: InteractionApproval and
\* FollowUpPreparation say when and how, the worker must do with any.
ApiWrite(k, row) ==
  /\ rows[k] # NoRow \/ k \in FollowUps
  /\ rows' = [rows EXCEPT ![k] = row]
  /\ UNCHANGED <<tenant, stage, runRow, runs, late, applied, posted>>

Progress(r) ==
  Perform(r) \/ (\E text \in Texts : Draft(r, text)) \/ PostNothing(r) \/ Complete(r)

RunStep(r) ==
  \/ \E w \in Workflows : Start(r, w)
  \/ Progress(r) \/ Retry(r) \/ GiveUp(r) \/ TimeOut(r)
  \/ PerformLate(r) \/ LoseLate(r)

RunNext ==
  \/ \E r \in Runs : RunStep(r)
  \/ \E decision \in Decisions : Decide(decision)

Next == RunNext \/ \E k \in Keys, row \in Edits : ApiWrite(k, row)

Spec == Init /\ [][Next]_wvars

\* Temporal dispatches what is due to a running worker and fires its timers;
\* nothing obliges an attempt to succeed, a late thread to finish or a human
\* to act.
FairSpec == Spec /\ \A r \in Runs : WF_wvars(Progress(r)) /\ WF_wvars(TimeOut(r))

----------------------------------------------------------------------------
(* Properties.                                                             *)

TypeOK ==
  /\ tenant \in BOOLEAN
  /\ stage \in Stages \cup HumanStages \cup {"absent"}
  /\ rows \in [Keys -> Row]
  /\ runRow \in [Runs -> {"absent", "Running"} \cup Final]
  /\ runs \in [Runs -> Started \cup {NotStarted}]
  /\ late \subseteq Runs \X (Nat \ {0})
  /\ applied \in [Runs -> SUBSET (Nat \ {0})]
  /\ posted \subseteq Keys \X Texts

\* Activities that write a row (a post may have gone nowhere, an agent's
\* answer is only text).
Written == {"tenant", "candidate", "run", "audit", "append"}

\* A failed attempt, a retry, a timeout or a thread that outlives its run
\* never lets the table workflow_runs claim more than was done: a run whose
\* row reads Completed (or Skipped) has had every row of its workflow written
\* before, whatever else ran and wrote in between.
CompletedMeansDone ==
  \A r \in Runs :
    runRow[r] \in Final =>
      \A i \in DOMAIN Script(r) : Script(r)[i].do \in Written => i \in applied[r]

\* A candidate that reads "contacted" has the rows of the messages some run
\* prepared for it, one per channel with an address: people review those rows,
\* so a contacted candidate without one would be lost to the CRM.
ContactedHasRows ==
  stage = "contacted" =>
    \E r \in Runs :
      /\ \E i \in applied[r] : Script(r)[i].do = "candidate" /\ Script(r)[i].arg = "contacted"
      /\ \A i \in DOMAIN Script(r) :
           Script(r)[i].do = "append" =>
             rows[<<Script(r)[i].arg, Script(r)[i].step>>] # NoRow

\* Where run r's workflow writes a stage.
Writes(r, s) ==
  {i \in DOMAIN Script(r) : Script(r)[i].do = "candidate" /\ Script(r)[i].arg = s}

\* With one run and no human decision, failures, retries, timeouts and late
\* threads never move the candidate back to an earlier stage: the workflow has
\* an upsert of the stage that is left before every upsert of the one reached.
StageMovesForward ==
  [][\A r \in Runs : stage # "absent" /\ stage' # stage =>
       /\ Writes(r, stage') # {}
       /\ \E i \in Writes(r, stage) : \A j \in Writes(r, stage') : i < j]_wvars

\* Every started run is over some day, completed or failed: a missing tenant
\* row, an activity that keeps raising or a retry without limit does not hold
\* it open for ever.
RunsEnd ==
  \A r \in Runs : Open(r) ~> runs[r].phase \in {"completed", "failed"}

\* How a run appears to DurableRun.
Must(r) == {i \in DOMAIN Script(r) : Script(r)[i].do \in Written}

Late(r) == \E l \in late : l[1] = r

DurablePhase(r) ==
  IF Open(r) THEN "open"
  ELSE IF Late(r) THEN "failing"
  ELSE runs[r].phase

Durable(r) ==
  INSTANCE DurableRun WITH
    Positions <- UNION {DOMAIN w.script : w \in Workflows},
    must      <- Must(r),
    applied   <- applied[r],
    phase     <- DurablePhase(r)

\* Each run keeps the promise of durable execution (DurableRun): its rows are
\* written in the workflow's order, each at least once before the next, none
\* after it completed, and at most one by a thread that outlives a failed run.
RunsAreDurable ==
  /\ \A r \in Runs : Durable(r)!Init
  /\ [][\A r \in Runs : Durable(r)!Next \/ UNCHANGED Durable(r)!dvars]_wvars

\* The tables and the workflow's own outcome agree: a run Temporal completed
\* does not stay "Running" in workflow_runs.
CompletedIsRecorded ==
  \A r \in Runs : runs[r].phase = "completed" => runRow[r] \in Final
----------------------------------------------------------------------------
(* Inductive strengthening of CompletedMeansDone: every row before the     *)
(* run's position is written and none after it; the workflow_runs row is   *)
(* final exactly when the run's last activity took effect; a thread that   *)
(* outlives its run is still at the run's position.                        *)

RunInv(r) ==
  /\ runs[r] = NotStarted => applied[r] = {} /\ runRow[r] = "absent"
  /\ runs[r] # NotStarted =>
       /\ runs[r].pc \in DOMAIN Script(r)
       /\ \A i \in DOMAIN Script(r) :
            i < runs[r].pc /\ Script(r)[i].do \in Written => i \in applied[r]
       /\ runs[r].phase \in {"applied", "completed"} /\ Now(r).do \in Written =>
            runs[r].pc \in applied[r]
       /\ runs[r].phase = "completed" => runs[r].pc = Len(Script(r))
       /\ \A i \in applied[r] : i \in DOMAIN Script(r) /\ i <= runs[r].pc
       /\ runRow[r] \in Final <=> Len(Script(r)) \in applied[r]
  /\ \A l \in late :
       l[1] = r => runs[r].phase = "failed" /\ l[2] = runs[r].pc

DurableInv == \A r \in Runs : RunInv(r)

\* Of ContactedHasRows: an append that took effect left a row for good, and
\* only a run's own upsert makes the candidate read "contacted".
ContactInv ==
  /\ \A r \in Runs : \A i \in applied[r] :
       Script(r)[i].do = "append" => rows[<<Script(r)[i].arg, Script(r)[i].step>>] # NoRow
  /\ stage = "contacted" =>
       \E r \in Runs : \E i \in applied[r] :
         Script(r)[i].do = "candidate" /\ Script(r)[i].arg = "contacted"

\* Of StageMovesForward, where humans decide nothing: the stage is what some
\* run's latest upsert wrote.
StageInv ==
  stage # "absent" =>
    \E r \in Runs : \E i \in applied[r] \cap Writes(r, stage) :
      \A j \in applied[r] : Script(r)[j].do = "candidate" => j <= i
=============================================================================
