--------------------------- MODULE OutreachSystem ---------------------------
(***************************************************************************)
(* The API and the worker on one candidate's interactions: the handlers of *)
(* InteractionApproval and FollowUpPreparation and the workflows of        *)
(* CandidateWorkflows share the table `interactions` and nothing else.     *)
(* Each side steps alone, and each sees the other as its own module        *)
(* foresees: a step of the worker is for the API an append (WorkerAppend)  *)
(* or nothing, a step of the API is for the worker an ApiWrite or nothing. *)
(***************************************************************************)
EXTENDS FollowUpPreparation

CONSTANTS Runs, Workflows, Decisions

VARIABLES tenant, stage, runRow, runs, late, applied, posted

Worker == INSTANCE CandidateWorkflows WITH Edits <- {row \in Row : row.status # "absent"}

\* What the worker's module asks of the workflows; and a workflow's interactions
\* are a first contact or a step of its cadence (d5, d7, ...), while the follow-ups
\* the API prepares have keys of their own.
ASSUME WorkerAssumption ==
  /\ Worker!WorkflowsAssumption /\ Worker!ContactAssumption /\ Worker!StagesAssumption
  /\ \A w \in Workflows : \A i \in DOMAIN w.script :
       w.script[i].do = "append" =>
         <<w.script[i].arg, w.script[i].step>> \in Keys \ FollowUps

workerOnly == <<tenant, stage, runRow, runs, late, applied, posted>>
systemVars == <<fvars, workerOnly>>

SystemInit == FollowUpInit /\ Worker!Init

\* appends counts the appends that changed a row; MaxAppends bounds them.
CountAppends ==
  /\ appends' = [k \in Keys |-> IF rows'[k] # rows[k] THEN appends[k] + 1
                                                      ELSE appends[k]]
  /\ \A k \in Keys : appends'[k] <= MaxAppends

ApiStep == ApiNext /\ UNCHANGED workerOnly

WorkerStep ==
  /\ Worker!RunNext
  /\ CountAppends
  /\ UNCHANGED <<calls, ghosts, preparing>>

SystemNext == (ApiStep \/ WorkerStep) /\ NoteCompleted

SystemSpec == SystemInit /\ [][SystemNext]_systemVars

----------------------------------------------------------------------------
\* The API next to the real worker behaves as FollowUpPreparation (and so as
\* InteractionApproval) says: all the worker ever does to the rows it shares
\* with people is the append those modules allow for, retries, late threads and
\* repeated runs included, and never under the key of a prepared follow-up.
ApiIsImplemented == FollowUpSpec

\* The worker next to the real API behaves as CandidateWorkflows says: the
\* handlers, however they overlap and crash, never write a row that was not
\* there before (but a follow-up) and never take one away.
WorkerIsImplemented == Worker!Spec

\* README.md on the AI's first message ("o envio continua bloqueado por
\* aprovacao humana na UI"): a text the worker posts was approved before.  (A post
\* that carries no text, as those of the outreach workflow, is none.)
WorkerPostsApproved == posted \cap (Keys \X Messages) \subseteq approved

----------------------------------------------------------------------------
(* Inductive strengthenings, beside those of the two sides.                *)

\* Of WorkerIsImplemented: a row that was appended is never unwritten (what a
\* handler works on is one, by RowsInv, and it writes a status, by ApprovedInv).
RowsStay == \A k \in Keys : appends[k] # 0 => rows[k].status # "absent"

\* Of ApiIsImplemented: what reads as done is noted, so a step of the worker
\* that leaves the rows alone is none for the API.
Noted == \A k \in Keys : rows[k].status \in CompletedStatuses => k \in completed
=============================================================================
