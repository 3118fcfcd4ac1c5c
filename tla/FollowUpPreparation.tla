------------------------ MODULE FollowUpPreparation ------------------------
(***************************************************************************)
(* The two routes that prepare follow-ups, beside the handlers of          *)
(* InteractionApproval and the worker's appends.                           *)
(*                                                                         *)
(* A thread is what was written to one candidate through one channel: the  *)
(* first contact, the follow-ups the API prepares one at a time, and the   *)
(* ones the worker's cadence prepares (d5, d7), which the API counts as    *)
(* open follow-ups but not as steps of its own.  A preparation lists the   *)
(* candidate's rows, chooses the step in memory, appends its row and       *)
(* records an audit event: three transactions, nothing locked.  Being      *)
(* `async def` without awaits it has its process to itself.                *)
(*                                                                         *)
(* Left out: the daily limit and the disabled channel, which only refuse   *)
(* a preparation.                                                          *)
(***************************************************************************)
EXTENDS InteractionApproval, Sequences

CONSTANTS Threads,    \* [first, steps, cadence]: keys of one candidate and channel
          Attempts    \* values of max_attempts_per_candidate

Thread == [first : Keys, steps : Seq(FollowUps), cadence : SUBSET Keys]

StepsOf(t) == {t.steps[i] : i \in DOMAIN t.steps}
FollowUpsOf(t) == StepsOf(t) \cup t.cadence
RowsOf(t) == {t.first} \cup FollowUpsOf(t)

\* Keys name the candidate, the channel and the step, so no two agree.
ASSUME ThreadsAssumption ==
  /\ Threads \subseteq Thread
  /\ Attempts \subseteq Nat
  /\ \A t \in Threads :
       /\ t.first \notin FollowUps
       /\ t.cadence \cap FollowUps = {}
       /\ \A i, j \in DOMAIN t.steps : t.steps[i] = t.steps[j] => i = j
  /\ \A t, u \in Threads : t # u => StepsOf(t) \cap StepsOf(u) = {}

VARIABLES preparing,  \* the preparation each API process is running
          completed   \* (for the properties) keys that ever read as done

fvars == <<vars, preparing, completed>>

NotPreparing == [pc |-> "idle"]

Preparation ==
  {p \in [pc : {"append", "audit"}, thread : Threads, step : Nat] :
     p.step \in DOMAIN p.thread.steps}

FollowUpTypeOK ==
  /\ TypeOK
  /\ preparing \in [Servers -> Preparation \cup {NotPreparing}]
  /\ completed \subseteq Keys

FollowUpInit ==
  /\ Init
  /\ preparing = [s \in Servers |-> NotPreparing]
  /\ completed = {}

CompletedStatuses == {"sent", "replied", "closed"}
OpenStatuses == {"draft", "pending", "approved"}

Reads(keys, statuses) == \E k \in keys : rows[k].status \in statuses

\* _next_follow_up_step: the first step whose row does not read as done.
SomeStep(t, i) ==   \* mutant: any step that is not done
  rows[t.steps[i]].status \notin CompletedStatuses
NextStep(t, i) ==
  /\ rows[t.steps[i]].status \notin CompletedStatuses
  /\ \A j \in 1..(i - 1) : rows[t.steps[j]].status \in CompletedStatuses

\* int(limit or 3), cut to the number of steps: a limit of 0 is no limit.
Limit(t, attempts) ==
  IF attempts = 0 \/ attempts > Len(t.steps) THEN Len(t.steps) ELSE attempts

\* A message of the thread was sent, none was answered, no follow-up is open.
MayFollowUpAnswered(t) ==   \* mutant: answers are not looked at
  /\ Reads(RowsOf(t), CompletedStatuses)
  /\ ~Reads(FollowUpsOf(t), OpenStatuses)
MayFollowUp(t) ==
  /\ Reads(RowsOf(t), CompletedStatuses)
  /\ ~Reads(RowsOf(t), {"replied"})
  /\ ~Reads(FollowUpsOf(t), OpenStatuses)

\* The route reads the rows and finds a step to prepare.  Otherwise it answers
\* with the open follow-up, or refuses, and nothing changes.
ChooseStep(s, t, attempts) ==
  /\ calls[s] = Idle
  /\ preparing[s] = NotPreparing
  /\ MayFollowUp(t)
  /\ \E i \in 1..Limit(t, attempts) :
       /\ NextStep(t, i)
       /\ preparing' = [preparing EXCEPT ![s] =
                          [pc |-> "append", thread |-> t, step |-> i]]
  /\ UNCHANGED vars

\* The text comes from the tenant's template or a default, never empty.
AppendApproved(s, text) ==   \* mutant: a template's text counts as approved
  LET p == preparing[s] IN
  /\ p.pc = "append"
  /\ AppendRow(p.thread.steps[p.step], "approved", text)
  /\ preparing' = [preparing EXCEPT ![s].pc = "audit"]
AppendFollowUp(s, text) ==
  LET p == preparing[s] IN
  /\ p.pc = "append"
  /\ AppendRow(p.thread.steps[p.step], "pending", text)
  /\ preparing' = [preparing EXCEPT ![s].pc = "audit"]

AuditFollowUp(s) ==
  /\ preparing[s].pc = "audit"
  /\ preparing' = [preparing EXCEPT ![s] = NotPreparing]
  /\ UNCHANGED vars

CrashPreparing(s) ==
  /\ preparing[s] # NotPreparing
  /\ preparing' = [preparing EXCEPT ![s] = NotPreparing]
  /\ UNCHANGED vars

Prepare(s) ==
  \/ \E t \in Threads, attempts \in Attempts : ChooseStep(s, t, attempts)
  \/ \E text \in Messages : AppendFollowUp(s, text)
  \/ AuditFollowUp(s)
  \/ CrashPreparing(s)

OtherHandler(s) ==
  /\ preparing[s] = NotPreparing
  /\ Handler(s)
  /\ UNCHANGED preparing

WorkerAppend(k, text) ==
  /\ k \notin FollowUps
  /\ AppendRow(k, "none", text)
  /\ UNCHANGED preparing

NoteCompleted ==
  completed' = completed \cup {k \in Keys : rows'[k].status \in CompletedStatuses}

ApiNext == \E s \in Servers : Prepare(s) \/ OtherHandler(s)

FollowUpNext ==
  /\ ApiNext \/ \E k \in Keys, text \in Texts : WorkerAppend(k, text)
  /\ NoteCompleted

FollowUpSpec == FollowUpInit /\ [][FollowUpNext]_fvars

----------------------------------------------------------------------------
(* Properties.                                                             *)

\* However the preparations of several processes overlap with sends, replies,
\* discards, crashes and the worker's appends, a follow-up exists only if every
\* earlier step of its thread was done at some time (sent, replied or closed),
\* and so was some message before it: no candidate gets a second reminder
\* without the first.
FollowUpsInOrder ==
  \A t \in Threads : \A i \in DOMAIN t.steps :
    rows[t.steps[i]] # NoRow =>
      /\ \A j \in 1..(i - 1) : t.steps[j] \in completed
      /\ RowsOf(t) \cap completed # {}

\* With a single API process, the list a preparation works from is still true
\* when it appends: nobody has answered in that thread, the step is not done
\* and no step is waiting for review.  (With two processes the slower of two
\* preparations reopens the row of the faster one.)
PreparationIsCurrent ==
  [][\A s \in Servers :
       preparing[s].pc = "append" /\ preparing'[s].pc = "audit" =>
         LET t == preparing[s].thread IN
         /\ ~Reads(RowsOf(t), {"replied"})
         /\ rows[t.steps[preparing[s].step]].status \notin {"sent", "replied", "closed"}
         /\ ~Reads(StepsOf(t), OpenStatuses)]_fvars

----------------------------------------------------------------------------
\* Inductive strengthening of FollowUpsInOrder: what reads as done is noted,
\* and a chosen step had its predecessors done when it was chosen.
OrderedUpTo(t, i) ==
  /\ \A j \in 1..(i - 1) : t.steps[j] \in completed
  /\ RowsOf(t) \cap completed # {}

FollowUpInv ==
  /\ \A k \in Keys : rows[k].status \in CompletedStatuses => k \in completed
  /\ \A s \in Servers :
       preparing[s] # NotPreparing =>
         OrderedUpTo(preparing[s].thread, preparing[s].step)
  /\ \A t \in Threads : \A i \in DOMAIN t.steps :
       appends[t.steps[i]] # 0 => OrderedUpTo(t, i)

\* Of PreparationIsCurrent, for a single process: what the preparation read is
\* true from the choice of its step to the append.
CurrentInv ==
  \A s \in Servers :
    preparing[s].pc = "append" =>
      LET t == preparing[s].thread IN
      /\ ~Reads(RowsOf(t), {"replied"})
      /\ rows[t.steps[preparing[s].step]].status \notin CompletedStatuses
      /\ ~Reads(StepsOf(t), OpenStatuses)
=============================================================================
