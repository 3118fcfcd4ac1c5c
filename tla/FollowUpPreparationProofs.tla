---------------------- MODULE FollowUpPreparationProofs ----------------------
(***************************************************************************)
(* Theorems about FollowUpPreparation, for every set of threads, limits    *)
(* and API processes.                                                      *)
(***************************************************************************)
EXTENDS FollowUpPreparation, InteractionApprovalProofs

\* What threads are made of.
LEMMA ThreadKeys ==
  ASSUME NEW t \in Threads
  PROVE  /\ t.first \in Keys
         /\ t.cadence \subseteq Keys
         /\ \A i \in DOMAIN t.steps : t.steps[i] \in FollowUps /\ t.steps[i] \in Keys
         /\ Len(t.steps) \in Nat
         /\ DOMAIN t.steps = 1..Len(t.steps)
         /\ RowsOf(t) \subseteq Keys
<1>1. t \in Thread
  BY ThreadsAssumption
<1>2. /\ t.first \in Keys /\ t.cadence \subseteq Keys
      /\ t.steps \in Seq(FollowUps)
  BY <1>1 DEF Thread
<1>3. FollowUps \subseteq Keys
  BY KeysAssumption
<1>4. /\ Len(t.steps) \in Nat /\ DOMAIN t.steps = 1..Len(t.steps)
      /\ \A i \in DOMAIN t.steps : t.steps[i] \in FollowUps
  BY <1>2
<1>5. QED
  BY <1>2, <1>3, <1>4 DEF RowsOf, FollowUpsOf, StepsOf

\* The step a preparation chooses is one of its thread.
LEMMA ChosenStep ==
  ASSUME NEW t \in Threads, NEW attempts \in Attempts, NEW i \in 1..Limit(t, attempts)
  PROVE  i \in DOMAIN t.steps
<1>1. attempts \in Nat /\ Len(t.steps) \in Nat /\ DOMAIN t.steps = 1..Len(t.steps)
  BY ThreadsAssumption, ThreadKeys
<1>2. Limit(t, attempts) \in 0..Len(t.steps)
  BY <1>1 DEF Limit
<1>3. QED
  BY <1>1, <1>2

\* What a preparation leaves alone, and how it moves its process.
LEMMA ChooseStepEffect ==
  ASSUME FollowUpTypeOK, NEW s \in Servers, NEW t \in Threads,
         NEW attempts \in Attempts, ChooseStep(s, t, attempts)
  PROVE  \E i \in DOMAIN t.steps :
           /\ MayFollowUp(t) /\ NextStep(t, i)
           /\ [pc |-> "append", thread |-> t, step |-> i] \in Preparation
           /\ preparing' = [preparing EXCEPT ![s] =
                              [pc |-> "append", thread |-> t, step |-> i]]
           /\ UNCHANGED vars
<1>1. PICK i \in 1..Limit(t, attempts) :
        /\ NextStep(t, i)
        /\ preparing' = [preparing EXCEPT ![s] =
                           [pc |-> "append", thread |-> t, step |-> i]]
  BY DEF ChooseStep
<1>2. i \in DOMAIN t.steps
  BY ChosenStep
<1>3. i \in Nat
  BY <1>2, ThreadKeys
<1>4. QED
  BY <1>1, <1>2, <1>3 DEF ChooseStep, Preparation

\* The append of a preparation is one InteractionApproval knows.
LEMMA AppendFollowUpEffect ==
  ASSUME FollowUpTypeOK, NEW s \in Servers, NEW text \in Messages,
         AppendFollowUp(s, text)
  PROVE  LET p == preparing[s] IN
         /\ p \in Preparation /\ p.step \in DOMAIN p.thread.steps
         /\ p.thread \in Threads
         /\ p.thread.steps[p.step] \in Keys
         /\ AppendRow(p.thread.steps[p.step], "pending", text)
         /\ preparing' = [preparing EXCEPT ![s].pc = "audit"]
         /\ [p EXCEPT !.pc = "audit"] \in Preparation
<1>1. preparing[s] \in Preparation
  BY DEF FollowUpTypeOK, AppendFollowUp, NotPreparing
<1>2. /\ preparing[s].thread \in Threads
      /\ preparing[s].step \in DOMAIN preparing[s].thread.steps
  BY <1>1 DEF Preparation
<1>3. preparing[s].thread.steps[preparing[s].step] \in Keys
  BY <1>2, ThreadKeys
<1>4. [preparing[s] EXCEPT !.pc = "audit"] \in Preparation
  BY <1>1 DEF Preparation
<1>5. QED
  BY <1>1, <1>2, <1>3, <1>4 DEF AppendFollowUp

\* What the API does, preparations included, is a step of InteractionApproval
\* or none.
LEMMA ApiNextImplemented ==
  ASSUME FollowUpTypeOK, ApiNext
  PROVE  [Next]_vars
<1>1. ASSUME NEW s \in Servers, NEW text \in Messages, AppendFollowUp(s, text)
      PROVE  Next
  BY <1>1, AppendFollowUpEffect DEF Next, Texts
<1>2. ASSUME NEW s \in Servers, OtherHandler(s)
      PROVE  Next
  BY <1>2 DEF OtherHandler, Next
<1>3. ASSUME NEW s \in Servers, Prepare(s)
      PROVE  [Next]_vars
  BY <1>1, <1>3 DEF Prepare, ChooseStep, AuditFollowUp, CrashPreparing
<1>4. QED
  BY <1>2, <1>3 DEF ApiNext

LEMMA FollowUpNextImplemented ==
  ASSUME FollowUpTypeOK, [FollowUpNext]_fvars
  PROVE  [Next]_vars
<1>1. CASE \E k \in Keys, text \in Texts : WorkerAppend(k, text)
  BY <1>1 DEF WorkerAppend, Next
<1>2. QED
  BY <1>1, ApiNextImplemented DEF FollowUpNext, fvars

LEMMA PreparingType ==
  ASSUME FollowUpTypeOK, NEW s \in Servers, Prepare(s)
  PROVE  preparing' \in [Servers -> Preparation \cup {NotPreparing}]
<1>1. ASSUME NEW t \in Threads, NEW attempts \in Attempts, ChooseStep(s, t, attempts)
      PROVE  preparing' \in [Servers -> Preparation \cup {NotPreparing}]
  <2>1. PICK p \in Preparation : preparing' = [preparing EXCEPT ![s] = p]
    BY <1>1, ChooseStepEffect
  <2>2. QED
    BY <2>1 DEF FollowUpTypeOK
<1>2. ASSUME NEW text \in Messages, AppendFollowUp(s, text)
      PROVE  preparing' \in [Servers -> Preparation \cup {NotPreparing}]
  BY <1>2, AppendFollowUpEffect DEF FollowUpTypeOK
<1>3. CASE AuditFollowUp(s) \/ CrashPreparing(s)
  BY <1>3 DEF AuditFollowUp, CrashPreparing, FollowUpTypeOK
<1>4. QED
  BY <1>1, <1>2, <1>3 DEF Prepare

LEMMA FollowUpTypeStep ==
  ASSUME FollowUpTypeOK, [FollowUpNext]_fvars
  PROVE  FollowUpTypeOK'
<1>1. TypeOK'
  BY FollowUpNextImplemented, NextType DEF FollowUpTypeOK
<1>2. preparing' \in [Servers -> Preparation \cup {NotPreparing}]
  BY PreparingType
     DEF FollowUpTypeOK, FollowUpNext, ApiNext, OtherHandler, WorkerAppend, fvars
<1>3. completed' \subseteq Keys
  BY DEF FollowUpTypeOK, FollowUpNext, NoteCompleted, fvars
<1>4. QED
  BY <1>1, <1>2, <1>3 DEF FollowUpTypeOK

\* Type correctness with the preparations.
THEOREM FollowUpTypeCorrect == FollowUpSpec => []FollowUpTypeOK
<1>1. FollowUpInit => FollowUpTypeOK
  <2>1. Init => TypeOK
    BY BoundAssumption DEF Init, TypeOK, NoRow, Row, Texts
  <2>2. QED
    BY <2>1 DEF FollowUpInit, FollowUpTypeOK
<1>2. FollowUpTypeOK /\ [FollowUpNext]_fvars => FollowUpTypeOK'
  BY FollowUpTypeStep
<1>3. QED
  BY <1>1, <1>2, PTL DEF FollowUpSpec

\* Preparing follow-ups implements InteractionApproval: for the rows people
\* review and send, a preparation is an append or nothing.
LEMMA PreparationImplementsApproval == FollowUpSpec => Spec
<1>1. FollowUpInit => Init
  BY DEF FollowUpInit
<1>2. FollowUpTypeOK /\ [FollowUpNext]_fvars => [Next]_vars
  BY FollowUpNextImplemented
<1>3. QED
  BY <1>1, <1>2, FollowUpTypeCorrect, PTL DEF FollowUpSpec, Spec

\* However the processes overlap while they prepare, review and send, every text
\* handed to a provider was approved for its row, the prepared ones included.
THEOREM FollowUpsDeliverApproved == FollowUpSpec => []DeliveredWasApproved
BY PreparationImplementsApproval, OnlyApprovedDelivered

----------------------------------------------------------------------------
(* Follow-ups come in order.                                               *)

\* Statuses read as done are noted, and nothing noted is forgotten.
LEMMA CompletedGrows ==
  ASSUME [FollowUpNext]_fvars
  PROVE  completed \subseteq completed'
BY DEF FollowUpNext, NoteCompleted, fvars

LEMMA OrderedStays ==
  ASSUME [FollowUpNext]_fvars, NEW t, NEW i, OrderedUpTo(t, i)
  PROVE  OrderedUpTo(t, i)'
BY CompletedGrows DEF OrderedUpTo, RowsOf, FollowUpsOf, StepsOf

\* The step a preparation chooses has its predecessors done.
LEMMA ChosenIsOrdered ==
  ASSUME FollowUpTypeOK, FollowUpInv, NEW t \in Threads, NEW i \in DOMAIN t.steps,
         MayFollowUp(t), NextStep(t, i)
  PROVE  OrderedUpTo(t, i)
<1>1. PICK k \in RowsOf(t) : rows[k].status \in CompletedStatuses
  BY DEF MayFollowUp, Reads
<1>2. k \in completed
  BY <1>1, ThreadKeys DEF FollowUpInv
<1>3. ASSUME NEW j \in 1..(i - 1)
      PROVE  t.steps[j] \in completed
  <2>1. j \in DOMAIN t.steps
    BY ThreadKeys
  <2>2. t.steps[j] \in Keys
    BY <2>1, ThreadKeys
  <2>3. QED
    BY <2>2 DEF NextStep, FollowUpInv
<1>4. QED
  BY <1>1, <1>2, <1>3 DEF OrderedUpTo

\* A thread's step belongs to no other place of a thread.
LEMMA StepsAreApart ==
  ASSUME NEW t \in Threads, NEW i \in DOMAIN t.steps,
         NEW u \in Threads, NEW j \in DOMAIN u.steps, t.steps[i] = u.steps[j]
  PROVE  t = u /\ i = j
BY ThreadsAssumption DEF StepsOf

LEMMA FollowUpStep ==
  ASSUME FollowUpTypeOK, FollowUpInv, [FollowUpNext]_fvars, RowsInv
  PROVE  FollowUpInv'
<1>1. \A k \in Keys : rows'[k].status \in CompletedStatuses => k \in completed'
  <2>1. CASE FollowUpNext
    BY <2>1 DEF FollowUpNext, NoteCompleted
  <2>2. CASE UNCHANGED fvars
    BY <2>2 DEF fvars, vars, FollowUpInv
  <2>3. QED
    BY <2>1, <2>2
<1> DEFINE Kept  == \A s \in Servers : preparing'[s] # NotPreparing =>
                      OrderedUpTo(preparing'[s].thread, preparing'[s].step)
           Begun == \A t \in Threads : \A i \in DOMAIN t.steps :
                      appends'[t.steps[i]] # 0 => OrderedUpTo(t, i)
<1>2. Kept /\ Begun
  <2>1. CASE UNCHANGED <<appends, preparing>>
    BY <2>1 DEF FollowUpInv
  <2>2. ASSUME NEW s \in Servers, NEW t \in Threads, NEW attempts \in Attempts,
               ChooseStep(s, t, attempts)
        PROVE  Kept /\ Begun
    <3>1. PICK i \in DOMAIN t.steps :
            /\ MayFollowUp(t) /\ NextStep(t, i)
            /\ preparing' = [preparing EXCEPT ![s] =
                               [pc |-> "append", thread |-> t, step |-> i]]
            /\ UNCHANGED vars
      BY <2>2, ChooseStepEffect
    <3>2. OrderedUpTo(t, i)
      BY <3>1, ChosenIsOrdered
    <3>3. QED
      BY <3>1, <3>2 DEF FollowUpInv, FollowUpTypeOK, vars
  <2>3. ASSUME NEW s \in Servers, NEW text \in Messages, AppendFollowUp(s, text)
        PROVE  Kept /\ Begun
    <3> DEFINE p == preparing[s]
    <3>1. /\ p.step \in DOMAIN p.thread.steps /\ p.thread \in Threads
          /\ AppendRow(p.thread.steps[p.step], "pending", text)
          /\ preparing' = [preparing EXCEPT ![s].pc = "audit"]
          /\ p \in Preparation
      BY <2>3, AppendFollowUpEffect
    <3>2. OrderedUpTo(p.thread, p.step)
      BY <2>3 DEF FollowUpInv, AppendFollowUp, NotPreparing
    <3>3. ASSUME NEW t \in Threads, NEW i \in DOMAIN t.steps, appends'[t.steps[i]] # 0
          PROVE  OrderedUpTo(t, i)
      <4>1. CASE t.steps[i] = p.thread.steps[p.step]
        BY <3>1, <3>2, <4>1, StepsAreApart
      <4>2. CASE t.steps[i] # p.thread.steps[p.step]
        <5>1. t.steps[i] \in Keys
          BY ThreadKeys
        <5>2. appends'[t.steps[i]] = appends[t.steps[i]]
          BY <3>1, <4>2, <5>1 DEF AppendRow, FollowUpTypeOK, TypeOK
        <5>3. QED
          BY <3>3, <5>2 DEF FollowUpInv
      <4>3. QED
        BY <4>1, <4>2
    <3>4. \A r \in Servers : /\ preparing'[r] # NotPreparing => preparing[r] # NotPreparing
                             /\ preparing'[r].thread = preparing[r].thread
                             /\ preparing'[r].step = preparing[r].step
      <4>1. p # NotPreparing
        BY <2>3 DEF AppendFollowUp, NotPreparing
      <4>2. p.thread = [p EXCEPT !.pc = "audit"].thread /\ p.step = [p EXCEPT !.pc = "audit"].step
        BY <3>1 DEF Preparation
      <4>3. QED
        BY <3>1, <4>1, <4>2 DEF FollowUpTypeOK
    <3>5. Kept
      <4> SUFFICES ASSUME NEW r \in Servers, preparing'[r] # NotPreparing
                   PROVE  OrderedUpTo(preparing'[r].thread, preparing'[r].step)
        OBVIOUS
      <4>1. OrderedUpTo(preparing[r].thread, preparing[r].step)
        BY <3>4 DEF FollowUpInv
      <4>2. QED
        BY <3>4, <4>1
    <3>6. Begun
      BY <3>3
    <3>7. QED
      BY <3>5, <3>6
  <2>4. ASSUME NEW s \in Servers, AuditFollowUp(s) \/ CrashPreparing(s)
        PROVE  Kept /\ Begun
    BY <2>4 DEF AuditFollowUp, CrashPreparing, FollowUpInv, FollowUpTypeOK, vars
  <2>5. ASSUME NEW k \in Keys, NEW text \in Texts, WorkerAppend(k, text)
        PROVE  Kept /\ Begun
    <3>1. \A t \in Threads : \A i \in DOMAIN t.steps :
            appends'[t.steps[i]] = appends[t.steps[i]]
      BY <2>5, ThreadKeys DEF WorkerAppend, AppendRow, FollowUpTypeOK, TypeOK
    <3>2. QED
      BY <2>5, <3>1 DEF FollowUpInv, WorkerAppend
  <2>6. ASSUME NEW s \in Servers, OtherHandler(s)
        PROVE  Kept /\ Begun
    BY <2>1, <2>6, HandlerRows DEF OtherHandler, FollowUpTypeOK
  <2>7. QED
    BY <2>1, <2>2, <2>3, <2>4, <2>5, <2>6
       DEF FollowUpNext, ApiNext, Prepare, fvars, vars
<1>3. Kept => \A s \in Servers : preparing'[s] # NotPreparing =>
                 OrderedUpTo(preparing[s].thread, preparing[s].step)'
  BY OrderedStays
<1>4. QED
  BY <1>1, <1>2, <1>3, OrderedStays DEF FollowUpInv

\* FollowUpsInOrder, for any number of API processes, threads and steps.
THEOREM FollowUpsOrdered == FollowUpSpec => []FollowUpsInOrder
<1>1. FollowUpInit => FollowUpInv /\ RowsInv
  BY ThreadKeys DEF FollowUpInit, Init, FollowUpInv, RowsInv, NoRow, NotPreparing, Idle,
                    CompletedStatuses
<1>2. FollowUpTypeOK /\ FollowUpInv /\ RowsInv /\ [FollowUpNext]_fvars
        => FollowUpInv' /\ RowsInv'
  BY FollowUpStep, RowsStep, FollowUpNextImplemented DEF FollowUpTypeOK
<1>3. FollowUpInv /\ RowsInv => FollowUpsInOrder
  BY ThreadKeys DEF FollowUpInv, RowsInv, FollowUpsInOrder, OrderedUpTo
<1>4. QED
  BY <1>1, <1>2, <1>3, FollowUpTypeCorrect, PTL DEF FollowUpSpec
----------------------------------------------------------------------------
(* With one process, a preparation works from a list that is still true.   *)

\* What a preparation chose from holds of a thread as long as nobody but the
\* worker writes its rows.
LEMMA CurrentStaysBesideWorker ==
  ASSUME FollowUpTypeOK, CurrentInv, NEW k \in Keys, NEW text \in Texts, WorkerAppend(k, text)
  PROVE  CurrentInv'
<1>1. /\ k \notin FollowUps /\ preparing' = preparing
      /\ rows' = [rows EXCEPT ![k] = AppendedRow("none", text)]
  BY DEF WorkerAppend, AppendRow
<1>2. \A key \in Keys : rows'[key] = rows[key] \/ (key = k /\ rows'[key].status = "pending")
  BY <1>1 DEF FollowUpTypeOK, TypeOK, AppendedRow
<1>3. \A key \in FollowUps : rows'[key] = rows[key]
  BY <1>1, <1>2, KeysAssumption
<1> SUFFICES ASSUME NEW s \in Servers, preparing[s].pc = "append"
             PROVE  LET t == preparing[s].thread IN
                    /\ \A key \in RowsOf(t) : rows'[key].status # "replied"
                    /\ rows'[t.steps[preparing[s].step]].status \notin CompletedStatuses
                    /\ \A key \in StepsOf(t) : rows'[key].status \notin OpenStatuses
  BY <1>1 DEF CurrentInv, Reads
<1> DEFINE t == preparing[s].thread
<1>4. t \in Threads /\ preparing[s].step \in DOMAIN t.steps
  BY DEF FollowUpTypeOK, Preparation, NotPreparing
<1>5. /\ RowsOf(t) \subseteq Keys /\ StepsOf(t) \subseteq FollowUps
      /\ t.steps[preparing[s].step] \in FollowUps
  BY <1>4, ThreadKeys DEF StepsOf
<1>6. /\ ~Reads(RowsOf(t), {"replied"})
      /\ rows[t.steps[preparing[s].step]].status \notin CompletedStatuses
      /\ ~Reads(StepsOf(t), OpenStatuses)
  BY DEF CurrentInv
<1>7. \A key \in RowsOf(t) : rows'[key].status # "replied"
  BY <1>2, <1>5, <1>6 DEF Reads
<1>8. \A key \in StepsOf(t) : rows'[key].status \notin OpenStatuses
  BY <1>3, <1>5, <1>6 DEF Reads
<1>9. rows'[t.steps[preparing[s].step]] = rows[t.steps[preparing[s].step]]
  BY <1>3, <1>5
<1>10. QED
  BY <1>6, <1>7, <1>8, <1>9

\* A step of the only process.  Begun, the preparation read what CurrentInv
\* says; until its append the process runs nothing else.
LEMMA CurrentStep ==
  ASSUME SingleServer, FollowUpTypeOK, CurrentInv, [FollowUpNext]_fvars
  PROVE  CurrentInv'
<1>1. ASSUME NEW s \in Servers, NEW t \in Threads, NEW attempts \in Attempts,
             ChooseStep(s, t, attempts)
      PROVE  CurrentInv'
  <2>1. PICK i \in DOMAIN t.steps :
          /\ MayFollowUp(t) /\ NextStep(t, i)
          /\ preparing' = [preparing EXCEPT ![s] =
                             [pc |-> "append", thread |-> t, step |-> i]]
          /\ UNCHANGED vars
    BY <1>1, ChooseStepEffect
  <2>2. \A r \in Servers : preparing'[r] = [pc |-> "append", thread |-> t, step |-> i]
    BY <2>1 DEF SingleServer, FollowUpTypeOK
  <2>3. rows' = rows
    BY <2>1 DEF vars
  <2>4. /\ ~Reads(RowsOf(t), {"replied"})
        /\ rows[t.steps[i]].status \notin CompletedStatuses
        /\ ~Reads(StepsOf(t), OpenStatuses)
    BY <2>1 DEF MayFollowUp, NextStep, Reads, FollowUpsOf
  <2>5. QED
    BY <2>2, <2>3, <2>4 DEF CurrentInv, Reads
<1>2. ASSUME NEW s \in Servers, \A r \in Servers : preparing'[r].pc # "append"
      PROVE  CurrentInv'
  BY <1>2 DEF CurrentInv
<1>3. ASSUME NEW s \in Servers, NEW text \in Messages, AppendFollowUp(s, text)
      PROVE  CurrentInv'
  <2>1. \A r \in Servers : preparing'[r] = [preparing[s] EXCEPT !.pc = "audit"]
    BY <1>3 DEF AppendFollowUp, SingleServer, FollowUpTypeOK
  <2>2. preparing[s] \in Preparation
    BY <1>3, AppendFollowUpEffect
  <2>3. [preparing[s] EXCEPT !.pc = "audit"].pc = "audit"
    BY <2>2 DEF Preparation
  <2>4. QED
    BY <1>2, <2>1, <2>3
<1>4. ASSUME NEW s \in Servers, AuditFollowUp(s) \/ CrashPreparing(s)
      PROVE  CurrentInv'
  <2>1. \A r \in Servers : preparing'[r] = NotPreparing
    BY <1>4 DEF AuditFollowUp, CrashPreparing, SingleServer, FollowUpTypeOK
  <2>2. QED
    BY <1>2, <2>1 DEF NotPreparing
<1>5. ASSUME NEW s \in Servers, OtherHandler(s)
      PROVE  CurrentInv'
  <2>1. \A r \in Servers : preparing'[r] = NotPreparing
    BY <1>5 DEF OtherHandler, SingleServer
  <2>2. QED
    BY <1>2, <2>1 DEF NotPreparing
<1>6. CASE UNCHANGED fvars
  BY <1>6 DEF fvars, vars, CurrentInv, Reads
<1>7. QED
  BY <1>1, <1>3, <1>4, <1>5, <1>6, CurrentStaysBesideWorker
     DEF FollowUpNext, ApiNext, Prepare

\* PreparationIsCurrent, for any threads, limits and appends of the worker
\* beside a single API process.
THEOREM PreparationsAreCurrent ==
  ASSUME SingleServer
  PROVE  FollowUpSpec => PreparationIsCurrent
<1> DEFINE Current ==
      \A s \in Servers :
        preparing[s].pc = "append" /\ preparing'[s].pc = "audit" =>
          LET t == preparing[s].thread IN
          /\ ~Reads(RowsOf(t), {"replied"})
          /\ rows[t.steps[preparing[s].step]].status \notin {"sent", "replied", "closed"}
          /\ ~Reads(StepsOf(t), OpenStatuses)
<1>1. FollowUpInit => CurrentInv
  BY DEF FollowUpInit, CurrentInv, NotPreparing
<1>2. FollowUpTypeOK /\ CurrentInv /\ [FollowUpNext]_fvars => CurrentInv'
  BY CurrentStep
<1>3. CurrentInv => Current
  BY DEF CurrentInv, CompletedStatuses
<1>4. CurrentInv /\ [FollowUpNext]_fvars => [Current]_fvars
  BY <1>3
<1>5. QED
  BY <1>1, <1>2, <1>4, FollowUpTypeCorrect, PTL DEF FollowUpSpec, PreparationIsCurrent
=============================================================================
