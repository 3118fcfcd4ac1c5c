------------------------ MODULE OutreachSystemProofs ------------------------
(***************************************************************************)
(* API and worker together keep the promises each makes alone: to the API  *)
(* the worker is an appender, to the worker the API is a writer of rows    *)
(* that are there, for every set of runs, workflows, keys and processes.   *)
(* So what is proved of either module holds in the system.                 *)
(***************************************************************************)
EXTENDS OutreachSystem, FollowUpPreparationProofs

\* The worker with its theorems, instantiated as Worker is.
Proved == INSTANCE CandidateWorkflowsProofs
            WITH Edits <- {row \in Row : row.status # "absent"}

LEMMA SameInit == Worker!Init <=> Proved!Init
BY DEF Worker!Init, Proved!Init, Worker!NoRow, Proved!NoRow,
       Worker!NotStarted, Proved!NotStarted

LEMMA SameNext ==
  /\ Worker!RunNext <=> Proved!RunNext
  /\ Worker!Next <=> Proved!Next
  /\ Worker!wvars = Proved!wvars
BY DEF Worker!Texts, Proved!Texts, Worker!NotStarted, Proved!NotStarted,
       Worker!Script, Proved!Script, Worker!Now, Proved!Now, Worker!Open,
       Proved!Open, Worker!Limited, Proved!Limited, Worker!tables, Proved!tables,
       Worker!Row, Proved!Row, Worker!NoRow, Proved!NoRow, Worker!AppendedRow,
       Proved!AppendedRow, Worker!Statuses, Proved!Statuses, Worker!MayApply,
       Proved!MayApply, Worker!AppendedInteraction, Proved!AppendedInteraction,
       Worker!UpsertedRun, Proved!UpsertedRun, Worker!Apply, Proved!Apply,
       Worker!Start, Proved!Start, Worker!Perform, Proved!Perform, Worker!Draft,
       Proved!Draft, Worker!PostNothing, Proved!PostNothing, Worker!Complete,
       Proved!Complete, Worker!Retry, Proved!Retry, Worker!GiveUp, Proved!GiveUp,
       Worker!TimeOut, Proved!TimeOut, Worker!PerformLate, Proved!PerformLate,
       Worker!LoseLate, Proved!LoseLate, Worker!Decide, Proved!Decide,
       Worker!ApiWrite, Proved!ApiWrite, Worker!Progress, Proved!Progress,
       Worker!RunStep, Proved!RunStep, Worker!RunNext, Proved!RunNext, Worker!Next,
       Proved!Next, Worker!wvars, Proved!wvars

\* What the theorems about the worker assume.
LEMMA WorkerAssumptions ==
  /\ Proved!WorkflowsAssumption /\ Proved!ContactAssumption /\ Proved!StagesAssumption
  /\ Proved!EditsAssumption /\ Proved!MessagesAssumption
<1>1. Proved!WorkflowsAssumption
  BY WorkerAssumption
     DEF Worker!WorkflowsAssumption, Worker!WellFormed, Worker!Activities, Worker!Stages,
         Worker!Final, Worker!HumanStages, Worker!Prompts, Worker!Events,
         Proved!WorkflowsAssumption, Proved!WellFormed, Proved!Activities, Proved!Stages,
         Proved!Final, Proved!HumanStages, Proved!Prompts, Proved!Events
<1>2. Proved!ContactAssumption /\ Proved!StagesAssumption
  BY WorkerAssumption
     DEF Worker!ContactAssumption, Worker!StagesAssumption,
         Proved!ContactAssumption, Proved!StagesAssumption
<1>3. Proved!EditsAssumption /\ Proved!MessagesAssumption
  BY MessagesAssumption
     DEF Proved!EditsAssumption, Proved!MessagesAssumption, Row, Proved!Row, Statuses,
         Proved!Statuses, Texts, Proved!Texts
<1>4. QED
  BY <1>1, <1>2, <1>3
----------------------------------------------------------------------------
(* A step of the worker, as the API sees it.                               *)

\* An activity's effect on the table is one append, under a key of the worker's.
LEMMA EffectRows ==
  ASSUME Proved!TypeOK, Proved!DurableInv, NEW r \in Runs,
         runs[r].phase # "new", Proved!Apply(r, runs[r].pc)
  PROVE  \/ rows' = rows
         \/ \E k \in Keys \ FollowUps, text \in Texts :
              rows' = [rows EXCEPT ![k] = AppendedRow("none", text)]
<1> DEFINE script == Proved!Script(r)
           a      == script[runs[r].pc]
<1>1. runs[r] \in Proved!Started /\ runs[r] # Proved!NotStarted
  BY DEF Proved!TypeOK, Proved!NotStarted
<1>2. runs[r].workflow \in Workflows /\ runs[r].text \in Texts
  BY <1>1 DEF Proved!Started, Proved!Texts, Texts
<1>3. script = runs[r].workflow.script /\ runs[r].pc \in DOMAIN script
  BY <1>1 DEF Proved!DurableInv, Proved!RunInv, Proved!Script
<1>4. a.do = "append" => <<a.arg, a.step>> \in Keys \ FollowUps
  BY <1>2, <1>3, WorkerAssumption
<1>5. \/ rows' = rows
      \/ /\ a.do = "append"
         /\ rows' = [rows EXCEPT ![<<a.arg, a.step>>] = AppendedRow("none", runs[r].text)]
  BY DEF Proved!Apply, Proved!AppendedInteraction, Proved!AppendedRow, AppendedRow
<1>6. QED
  BY <1>2, <1>4, <1>5

LEMMA WorkerRows ==
  ASSUME Proved!TypeOK, Proved!DurableInv, Proved!RunNext
  PROVE  \/ rows' = rows
         \/ \E k \in Keys \ FollowUps, text \in Texts :
              rows' = [rows EXCEPT ![k] = AppendedRow("none", text)]
<1>1. ASSUME NEW r \in Runs, Proved!Perform(r) \/ Proved!PerformLate(r)
      PROVE  \/ rows' = rows
             \/ \E k \in Keys \ FollowUps, text \in Texts :
                  rows' = [rows EXCEPT ![k] = AppendedRow("none", text)]
  BY <1>1, EffectRows DEF Proved!Perform, Proved!PerformLate
<1>2. QED
  BY <1>1 DEF Proved!RunNext, Proved!RunStep, Proved!Progress, Proved!Start, Proved!Draft,
              Proved!PostNothing, Proved!Complete, Proved!Retry, Proved!GiveUp,
              Proved!TimeOut, Proved!LoseLate, Proved!Decide, Proved!tables

\* So a step of the worker is for the API a WorkerAppend or no step at all.
LEMMA WorkerStepAppends ==
  ASSUME TypeOK, Proved!TypeOK, Proved!DurableInv, WorkerStep
  PROVE  \/ UNCHANGED vars /\ UNCHANGED preparing
         \/ \E k \in Keys, text \in Texts : WorkerAppend(k, text)
<1>1. CASE rows' = rows
  <2>1. appends' = appends
    BY <1>1 DEF WorkerStep, CountAppends, TypeOK
  <2>2. QED
    BY <1>1, <2>1 DEF WorkerStep, vars, ghosts
<1>2. CASE rows' # rows
  <2>1. PICK k \in Keys \ FollowUps, text \in Texts :
          rows' = [rows EXCEPT ![k] = AppendedRow("none", text)]
    BY <1>2, WorkerRows, SameNext DEF WorkerStep
  <2>2. rows'[k] # rows[k]
    BY <1>2, <2>1 DEF TypeOK
  <2>3. \A other \in Keys \ {k} : rows'[other] = rows[other]
    BY <2>1 DEF TypeOK
  <2>4. appends' = [appends EXCEPT ![k] = @ + 1]
    BY <2>2, <2>3 DEF WorkerStep, CountAppends, TypeOK
  <2>5. appends[k] < MaxAppends
    <3>1. appends'[k] <= MaxAppends /\ appends'[k] = appends[k] + 1
      BY <2>2 DEF WorkerStep, CountAppends
    <3>2. appends[k] \in Nat /\ MaxAppends \in Nat
      BY BoundAssumption DEF TypeOK
    <3>3. QED
      BY <3>1, <3>2
  <2>6. WorkerAppend(k, text)
    BY <2>1, <2>4, <2>5 DEF WorkerAppend, AppendRow, WorkerStep
  <2>7. QED
    BY <2>6
<1>3. QED
  BY <1>1, <1>2

LEMMA SystemStepPrepares ==
  ASSUME FollowUpTypeOK, Noted, Proved!TypeOK, Proved!DurableInv, [SystemNext]_systemVars
  PROVE  [FollowUpNext]_fvars
<1>1. CASE ApiStep /\ NoteCompleted
  BY <1>1 DEF ApiStep, FollowUpNext
<1>2. CASE WorkerStep /\ NoteCompleted
  <2>1. CASE UNCHANGED vars /\ UNCHANGED preparing
    <3>1. completed' = completed
      BY <1>2, <2>1 DEF NoteCompleted, Noted, vars
    <3>2. QED
      BY <2>1, <3>1 DEF fvars
  <2>2. CASE \E k \in Keys, text \in Texts : WorkerAppend(k, text)
    BY <1>2, <2>2 DEF FollowUpNext
  <2>3. QED
    BY <1>2, <2>1, <2>2, WorkerStepAppends DEF FollowUpTypeOK
<1>3. CASE UNCHANGED systemVars
  BY <1>3 DEF systemVars
<1>4. QED
  BY <1>1, <1>2, <1>3 DEF SystemNext

----------------------------------------------------------------------------
(* A step of the API, as the worker sees it.                               *)

\* Handlers write rows that are there, preparations append a follow-up.
LEMMA ApiRows ==
  ASSUME FollowUpTypeOK, RowsInv, ApprovedInv, RowsStay, ApiNext
  PROVE  \/ rows' = rows
         \/ \E k \in Keys, row \in {written \in Row : written.status # "absent"} :
              /\ rows[k] # NoRow \/ k \in FollowUps
              /\ rows' = [rows EXCEPT ![k] = row]
<1> DEFINE Writes == \E k \in Keys, row \in {written \in Row : written.status # "absent"} :
                       /\ rows[k] # NoRow \/ k \in FollowUps
                       /\ rows' = [rows EXCEPT ![k] = row]
<1>1. ASSUME NEW s \in Servers, Update(s)
      PROVE  Writes
  <2> DEFINE c == calls[s]
  <2>1. c \in Call /\ c.pc = "update"
    BY <1>1 DEF FollowUpTypeOK, TypeOK, Idle, Update
  <2>2. c.row \in Row /\ c.key \in Keys /\ c.status \in Statuses
    BY <2>1 DEF Call
  <2>3. c.row.status # "absent"
    BY <2>1, <2>2 DEF ApprovedInv, Statuses
  <2>4. rows[c.key] # NoRow
    BY <2>1, <2>2 DEF RowsInv, RowsStay, Idle, NoRow
  <2>5. rows' = [rows EXCEPT ![c.key] = c.row]
    BY <1>1 DEF Update
  <2>6. QED
    BY <2>2, <2>3, <2>4, <2>5
<1>2. ASSUME NEW s \in Servers, NEW text \in Messages, AppendFollowUp(s, text)
      PROVE  Writes
  <2> DEFINE k == preparing[s].thread.steps[preparing[s].step]
  <2>1. /\ preparing[s].thread \in Threads
        /\ preparing[s].step \in DOMAIN preparing[s].thread.steps
        /\ AppendRow(k, "pending", text)
    BY <1>2, AppendFollowUpEffect
  <2>2. k \in Keys /\ k \in FollowUps
    BY <2>1, ThreadKeys
  <2>3. /\ rows' = [rows EXCEPT ![k] = AppendedRow("pending", text)]
        /\ AppendedRow("pending", text) \in Row
        /\ AppendedRow("pending", text).status # "absent"
    BY <2>1 DEF AppendRow, AppendedRow, Row, Statuses, Texts
  <2> HIDE DEF k
  <2>4. QED
    BY <2>2, <2>3
<1>3. ASSUME NEW s \in Servers, Prepare(s)
      PROVE  rows' = rows \/ Writes
  BY <1>2, <1>3 DEF Prepare, ChooseStep, AuditFollowUp, CrashPreparing, vars
<1>4. ASSUME NEW s \in Servers, Handler(s)
      PROVE  rows' = rows \/ Writes
  BY <1>1, <1>4 DEF Handler, BeginSend, BeginStatus, BeginReview, BeginExpandi, Begin,
       SendAccepted, SendUnconfirmed, SendDelivered, SendRefused, SendManual, Select,
       RecordAudit, Crash
<1> HIDE DEF Writes
<1>5. rows' = rows \/ Writes
  BY <1>3, <1>4 DEF ApiNext, OtherHandler
<1>6. QED
  BY <1>5 DEF Writes

LEMMA SystemStepWrites ==
  ASSUME FollowUpTypeOK, RowsInv, ApprovedInv, RowsStay, [SystemNext]_systemVars
  PROVE  [Proved!Next]_(Proved!wvars)
<1>1. CASE ApiStep
  <2>1. CASE rows' = rows
    BY <1>1, <2>1 DEF ApiStep, workerOnly, Proved!wvars
  <2>2. CASE \E k \in Keys, row \in {written \in Row : written.status # "absent"} :
               /\ rows[k] # NoRow \/ k \in FollowUps
               /\ rows' = [rows EXCEPT ![k] = row]
    BY <1>1, <2>2 DEF ApiStep, workerOnly, Proved!Next, Proved!ApiWrite, NoRow, Proved!NoRow
  <2>3. QED
    BY <1>1, <2>1, <2>2, ApiRows DEF ApiStep
<1>2. CASE WorkerStep
  BY <1>2, SameNext DEF WorkerStep, Proved!Next
<1>3. CASE UNCHANGED systemVars
  BY <1>3 DEF systemVars, fvars, vars, workerOnly, Proved!wvars
<1>4. QED
  BY <1>1, <1>2, <1>3 DEF SystemNext

----------------------------------------------------------------------------
(* The invariant of the two together.                                      *)

SystemInv ==
  /\ FollowUpTypeOK /\ RowsInv /\ ApprovedInv /\ RowsStay /\ Noted
  /\ Proved!TypeOK /\ Proved!DurableInv

LEMMA RowsStayStep ==
  ASSUME FollowUpTypeOK, RowsInv, ApprovedInv, RowsStay, [Next]_vars
  PROVE  RowsStay'
<1>1. ASSUME NEW k \in Keys, NEW approval, NEW text, AppendRow(k, approval, text)
      PROVE  RowsStay'
  BY <1>1 DEF AppendRow, AppendedRow, RowsStay, FollowUpTypeOK, TypeOK
<1>2. ASSUME NEW s \in Servers, Update(s)
      PROVE  RowsStay'
  <2>1. calls[s] \in Call /\ calls[s].pc = "update"
    BY <1>2 DEF FollowUpTypeOK, TypeOK, Idle, Update
  <2>2. calls[s].key \in Keys /\ calls[s].row.status # "absent"
    BY <2>1 DEF ApprovedInv, Statuses, Call
  <2>3. rows' = [rows EXCEPT ![calls[s].key] = calls[s].row] /\ appends' = appends
    BY <1>2 DEF Update
  <2>4. QED
    BY <2>2, <2>3 DEF RowsStay, FollowUpTypeOK, TypeOK
<1>3. CASE UNCHANGED <<rows, appends>>
  BY <1>3 DEF RowsStay
<1>4. QED
  BY <1>1, <1>2, <1>3 DEF Next, Handler, BeginSend, BeginStatus, BeginReview, BeginExpandi,
       Begin, SendAccepted, SendUnconfirmed, SendDelivered, SendRefused, SendManual, Select,
       RecordAudit, Crash, vars

LEMMA SystemStep ==
  ASSUME SystemInv, [SystemNext]_systemVars
  PROVE  SystemInv' /\ [FollowUpNext]_fvars /\ [Proved!Next]_(Proved!wvars)
<1>1. [FollowUpNext]_fvars /\ [Proved!Next]_(Proved!wvars)
  BY SystemStepPrepares, SystemStepWrites DEF SystemInv
<1>2. FollowUpTypeOK' /\ [Next]_vars
  BY <1>1, FollowUpTypeStep, FollowUpNextImplemented DEF SystemInv
<1>3. RowsInv' /\ ApprovedInv' /\ RowsStay'
  BY <1>2, RowsStep, ApprovedStep, RowsStayStep DEF SystemInv, FollowUpTypeOK
<1>4. Noted'
  BY <1>1 DEF SystemInv, Noted, FollowUpNext, NoteCompleted, fvars, vars
<1>5. Proved!TypeOK' /\ Proved!DurableInv'
  BY <1>1, WorkerAssumptions, Proved!NextInv DEF SystemInv
<1>6. QED
  BY <1>1, <1>2, <1>3, <1>4, <1>5 DEF SystemInv

LEMMA SystemInitInv ==
  ASSUME SystemInit
  PROVE  SystemInv
<1>1. Init /\ FollowUpInit /\ Proved!Init
  BY SameInit DEF SystemInit, FollowUpInit
<1>2. FollowUpTypeOK
  BY <1>1, BoundAssumption
     DEF Init, TypeOK, NoRow, Row, Texts, FollowUpInit, FollowUpTypeOK
<1>3. RowsInv /\ ApprovedInv /\ RowsStay
  BY <1>1 DEF Init, RowsInv, ApprovedInv, RowsStay, MaySend, NoRow, Idle
<1>4. Noted
  BY <1>1 DEF Init, Noted, NoRow, CompletedStatuses
<1>5. Proved!TypeOK /\ Proved!DurableInv
  BY <1>1, WorkerAssumptions, Proved!InitInv
<1>6. QED
  BY <1>2, <1>3, <1>4, <1>5 DEF SystemInv

LEMMA SystemInvariant == SystemSpec => []SystemInv
BY SystemInitInv, SystemStep, PTL DEF SystemSpec

\* The worker keeps the API's side: next to it, preparation and review behave
\* as FollowUpPreparation says.
THEOREM CompositionImplementsPreparation == SystemSpec => ApiIsImplemented
<1>1. SystemInit => FollowUpInit
  BY DEF SystemInit
<1>2. SystemInv /\ [SystemNext]_systemVars => [FollowUpNext]_fvars
  BY SystemStep
<1>3. QED
  BY <1>1, <1>2, SystemInvariant, PTL DEF SystemSpec, ApiIsImplemented, FollowUpSpec

\* The API keeps the worker's side: next to it, the workflows behave as
\* CandidateWorkflows says.
THEOREM CompositionImplementsWorkflows == SystemSpec => WorkerIsImplemented
<1>1. SystemInit => Worker!Init
  BY DEF SystemInit
<1>2. SystemInv /\ [SystemNext]_systemVars => [Worker!Next]_(Worker!wvars)
  BY SystemStep, SameNext DEF Worker!wvars, Proved!wvars
<1>3. QED
  BY <1>1, <1>2, SystemInvariant, PTL DEF SystemSpec, WorkerIsImplemented, Worker!Spec
----------------------------------------------------------------------------
(* What was proved of the API's side holds beside the worker.              *)

\* Preparing follow-ups or not, to the review routes the worker is an appender.
LEMMA CompositionImplementsApproval == SystemSpec => Spec
BY CompositionImplementsPreparation, PreparationImplementsApproval DEF ApiIsImplemented

\* The API hands providers nothing but texts somebody approved for that row.
THEOREM SystemDeliversApproved == SystemSpec => []DeliveredWasApproved
BY CompositionImplementsApproval, OnlyApprovedDelivered

\* A single API process offers no approval twice to recorded sends, however
\* often the worker appends the row again.
THEOREM SystemSendsLicensed ==
  ASSUME SingleServer
  PROVE  SystemSpec => []SendIsLicensed
BY CompositionImplementsApproval, SendsLicensed

\* A row that reads "sent" shows the text delivered, unless the worker
\* appended it a second time.
THEOREM SystemShowsDelivered ==
  ASSUME SingleServer
  PROVE  SystemSpec => []SentShowsDelivered
BY CompositionImplementsApproval, SentRowsShowDelivered

\* No candidate gets a second reminder without the first, whatever the cadence
\* of the worker prepares beside the API's own follow-ups.
THEOREM SystemFollowUpsOrdered == SystemSpec => []FollowUpsInOrder
BY CompositionImplementsPreparation, FollowUpsOrdered DEF ApiIsImplemented

\* A single API process prepares from a list that the worker has not overtaken.
THEOREM SystemPreparationsAreCurrent ==
  ASSUME SingleServer
  PROVE  SystemSpec => PreparationIsCurrent
BY CompositionImplementsPreparation, PreparationsAreCurrent DEF ApiIsImplemented

----------------------------------------------------------------------------
(* What was proved of the worker holds beside the API.                     *)

LEMMA SystemImplementsProved == SystemSpec => Proved!Spec
<1>1. SystemInit => Proved!Init
  BY SameInit DEF SystemInit
<1>2. SystemInv /\ [SystemNext]_systemVars => [Proved!Next]_(Proved!wvars)
  BY SystemStep
<1>3. QED
  BY <1>1, <1>2, SystemInvariant, PTL DEF SystemSpec, Proved!Spec

\* A run whose workflow_runs row is final has written all its rows, whatever
\* the API does to the interactions meanwhile.
THEOREM SystemRunsAreDone == SystemSpec => []Worker!CompletedMeansDone
<1>1. Proved!Spec => []Proved!CompletedMeansDone
  BY WorkerAssumptions, Proved!CompletedRunsAreDone
<1>2. Proved!CompletedMeansDone => Worker!CompletedMeansDone
  BY DEF Proved!CompletedMeansDone, Worker!CompletedMeansDone, Proved!Final, Worker!Final,
         Proved!Script, Worker!Script, Proved!NotStarted, Worker!NotStarted,
         Proved!Written, Worker!Written
<1>3. QED
  BY <1>1, <1>2, SystemImplementsProved, PTL

\* A candidate that reads "contacted" has the rows of its messages: no review,
\* send or report takes one away.
THEOREM SystemContactedHaveRows == SystemSpec => []Worker!ContactedHasRows
<1>1. Proved!Spec => []Proved!ContactedHasRows
  BY WorkerAssumptions, Proved!ContactedHaveRows
<1>2. Proved!ContactedHasRows => Worker!ContactedHasRows
  BY DEF Proved!ContactedHasRows, Worker!ContactedHasRows, Proved!NoRow, Worker!NoRow,
         Proved!Script, Worker!Script, Proved!NotStarted, Worker!NotStarted
<1>3. QED
  BY <1>1, <1>2, SystemImplementsProved, PTL
=============================================================================
