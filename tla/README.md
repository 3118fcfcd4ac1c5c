# TLA+ models of Talent Intel CRM

Talent Intel CRM contacts job candidates for recruiting companies. Temporal
workflows take a candidate from ingestion to first contact and follow-up; an
HTTP API searches and enriches candidates, lets people review the messages,
approve and send them, prepares follow-ups, receives what the channels report
back, and administers the tenants. The modules here model the processes that
write the database - the API, the worker, the migration runner - and what goes
wrong between them: handlers of several API processes that overlap, activities
that are retried, time out or outlive their run, providers whose answer is late
or lost, and processes that stop between two writes.

Paths such as `api.py:2376` are below `src/src/talent_intel_crm/`; other paths
are below `src/`.

## Inventory

| Part | State | Operations | Module |
|---|---|---|---|
| Interaction review and send (`api.py` 2361-2563, 641-1000) | rows of `interactions`: status, `manual_approval_status`, text | status route, review route, Expandi callback and poll, sends by Resend / Expandi, audit events | `InteractionStore`, `InteractionApproval` |
| Follow-up preparation (`api.py` 2220-2343, 553-621) | the same rows, the tenant's limits | choose the step, append, audit | `FollowUpPreparation` |
| Workflows (`workflows/*.py`, `worker.py`) | a run's position and attempts (kept by Temporal); `candidates.stage`, `interactions`, `workflow_runs`, `audit_events`, `tenants` | eight workflows, their activities, retries, timeouts | `WorkflowScripts`, `CandidateWorkflows`, `DurableRun` |
| API and worker together | `interactions`, shared | all of the above | `OutreachSystem` |
| Tenant administration (`api.py` 1301-1419, 1923-2080; `db.py` 67-286; `scripts/bootstrap_tenant_member.py`) | tenant metadata, memberships, API keys | preferences, templates, membership, key rotation, onboarding | `TenantAdministration`, `KeyLine` |
| Sourcing and enrichment (`api.py` 1422-1912, 2083-2188) | `candidates`: stage, addresses, the metadata marks | search, enrich by Apollo or Hunter, create, decide, start the lifecycle | `CandidateSourcing` |
| Migrations (`migrations.py`, `sql/`) | `ticrm_schema_migrations`, the schema | apply pending files | `SchemaMigrations`, `Deployment` |
| Notion mirror (`activities/notion.py`, `activities/persistence.py`) | pages outside | commit, find, create or update | `NotionMirror`, `Deployment` |
| Persistence activities, channel webhooks (`activities/`, `db.py`) | none of their own | upserts, append, webhook posts | in `CandidateWorkflows`, `NotionMirror` |
| Starting workflows (`api.py`, `runner.py`) | workflow ids | start, refuse if open | `Start` in `CandidateWorkflows`, `CandidateSourcing` |
| Authentication (`auth.py`) | keys, memberships (read) | principal of a request, its role | the role check in `TenantAdministration` |
| Agents (`activities/agents.py`) | none | LLM or webhook, text and score | a text in `Draft` |
| Web console (`web/`) | session cookies | forms over the API | not modelled |
| Telemetry, probes | none | logging, one-off tools | not modelled |

**How they interact.** The API starts workflows through Temporal and reads and
writes Postgres; the worker executes activities that write Postgres, post to
channel webhooks and mirror rows to Notion. API and worker call each other
never: they meet in the tables. Each `db.py` function is one transaction
(`get_connection` commits at its end), so a handler or activity is a sequence of
transactions, and nothing is locked between two of them.

**What is hard.** An `async def` handler of the API that awaits nothing is not
interrupted inside its process, but processes are several, the worker is
another, and the sourcing and administration handlers do await;
`update_interaction_status`, `update_candidate_state` and
`update_tenant_metadata` read an object and write it back merged; a send, or a
provider's answer, comes between the read and the write; an answer may be lost;
Temporal repeats an activity whose effect has already happened, and abandons one
that has yet to happen; the append of an interaction overwrites the row that is
there, and the upsert of a candidate overwrites its stage and metadata.

**What makes each part correct.** Review and send: only approved texts leave, an
approval is used once, the row tells what was sent. Follow-ups: a step is
prepared after the earlier one and never after a reply. Workflows:
`workflow_runs` and the stage claim no more than was done, nothing is skipped or
undone by failures, every run ends. Together: the worker does to the rows people
review only what the API reckons with. Tenants: a saved section stays, a key has
one heir and is never accepted again once withdrawn. Sourcing: nobody reachable is forgotten, a decision stands against
what begins after it. Deployment: each migration is executed once and in order,
nothing is written into half a release, each record has one page that shows it.

The full list of hazards, each at its line with the properties that cover it or
the reason why none does, is `hazards` in `PROJECT.json`.

## Modules

### InteractionStore, InteractionApproval

A row is a record of status, manual_approval_status and text, named by its
idempotency key (`InteractionStore`). `InteractionApproval` runs the four routes
on a set of API processes (`Servers`), each in the steps the code takes:

    Begin* -> (SendAccepted | SendUnconfirmed | SendRefused | SendManual)
           -> Select -> Update -> RecordAudit

| Action | Code |
|---|---|
| `BeginSend`, `BeginStatus` | `update_interaction_status_route`: read, guard (2376) |
| `BeginReview`, `BeginExpandi` | `review_interaction_message`; `sync_expandi_status`, `poll_expandi_status` |
| `SendAccepted`, `SendUnconfirmed`, `SendRefused` | `_send_resend_email`, `_send_expandi_linkedin_message`: delivered and answered; delivered, answer lost (502, nothing recorded); refused |
| `SendManual` | LinkedIn without a webhook: nothing is called, the row is marked |
| `Select`, `Update` | the two statements of `update_interaction_status` and the merge between them |
| `RecordAudit` | `_record_audit_event` |
| `Crash` | the process stops between two transactions |
| `AppendRow` | `append_interaction_row`, new key or old, by the worker (no approval) or by the API for a follow-up (approval pending) |

What the handler holds in memory is `calls[s].row`: the row it read, then the row
it is about to write. Four variables are for the properties only and no guard
reads them: `approved`, `delivered`, `licensed` (approvals nothing has used up or
withdrawn) and `spent` (keys delivered since their last approval).

### FollowUpPreparation

Extends `InteractionApproval` by the two preparation routes. A *thread* is what
one candidate got through one channel: the first contact, the steps the API
prepares, and the cadence rows of the worker. `ChooseStep` is everything from the
listing to the chosen step (`MayFollowUp`, `NextStep`, `Limit`), `AppendFollowUp`
the append, `AuditFollowUp` the event; a process runs a preparation or another
handler, not both. `completed` remembers, for the properties, which rows ever
read as done. To the review routes a preparation is one more append, so that
`DeliveredWasApproved` is asked again with the preparation routes beside them.

### WorkflowScripts, CandidateWorkflows, DurableRun

No workflow looks at a result to decide what comes next, so its input fixes the
sequence of its activities; `WorkflowScripts` gives that sequence for each of the
eight (`LifecycleScript`, `OutreachScript`, ...), with the retry policy and
whether the workflow id admits one open run only. `CandidateWorkflows` executes
any set of such scripts for one candidate and its tenant, activity by activity:

| Action | Code or Temporal |
|---|---|
| `Start` | `start_workflow` in `api.py` and `runner.py` |
| `Perform`, with `Apply` | an activity of `activities/persistence.py` commits, or a webhook takes the post; `MayApply` is the foreign keys |
| `Draft` | an agent's answer |
| `PostNothing` | no webhook configured, or an HTTP error that `post_json` returns as a result |
| `Complete` | the attempt is reported; next activity, or the workflow returns |
| `Retry`, `GiveUp` | the attempt raised, before or after its effect; the retry policy |
| `TimeOut` | `schedule_to_close_timeout`: the run fails, the thread may go on |
| `PerformLate`, `LoseLate` | that thread commits after all, or never |
| `Decide` | `update_candidate_decision` |
| `ApiWrite` | `update_interaction_status` on a row that is there, or the append of a follow-up: what the API may do to `interactions` between two steps of the worker |

`DurableRun` is the abstract specification of one run: steps in order, each at
least once before the next, all of them before completion, none afterwards, at
most one after a failure. `RunsAreDurable` maps every run of `CandidateWorkflows`
to it (`Durable(r)`, with `Must`, `DurablePhase` and `applied[r]`).

### OutreachSystem

The handlers of `InteractionApproval` and `FollowUpPreparation` and the runs of
`CandidateWorkflows` on the same variable `rows`. Each side was modelled with a
stand-in for the other: the arbitrary `AppendRow` of `InteractionApproval` for
the worker, the arbitrary `ApiWrite` of `CandidateWorkflows` for the API. Here
both are real, and the composition has to fit both stand-ins:

- `ApiIsImplemented` is the specification of `FollowUpPreparation` (and with it
  that of `InteractionApproval`) as a property of the composition: whatever a run
  does with retries, timeouts and late threads, it appends or leaves the rows
  alone, and never under the key of a follow-up the API prepares.
- `WorkerIsImplemented` is the specification of `CandidateWorkflows`: whatever the
  handlers do as they overlap and stop, they write no row that was not there,
  but a follow-up, and take none away.

### TenantAdministration

One tenant's settings (`tenants.metadata_json`), members and API keys, under any
number of requests whose steps interleave. A request begins with its principal
and role (`Begin`, `Authorized`) and then takes the transactions of its handler:

| Action | Code |
|---|---|
| `SelectSettings`, `UpdateSettings` | `update_tenant_metadata` under the preferences and templates routes: select, merge (`Merged`), update |
| `GrantMembership`, `RemoveMembership`, `BootstrapMember` | the membership routes; `scripts/bootstrap_tenant_member.py` |
| `CreateKey`, `RevokeKey` | key creation; `revoke_tenant_api_key` guarded by `is_active` |
| `RotateRevoke`, `RotateInsert` | the two transactions of a rotation |
| `StartOnboarding`, `UpsertTenant`, `OnboardingGoesOn`, `OnboardingEnds`, `LateUpsertLost` | `create_tenant` and the onboarding workflow whose first activity replaces the tenant's metadata |
| `RecordEvent`, `Abandon` | the audit event, which refers to the tenant's row; a request that is refused, fails or stops |

`KeyLine` is the abstract specification of one key through its rotations: issued,
held, withdrawn for a rotation or for good, broken off. `LinesAreKept` maps the
line of every created key to it (`Line(line)`, with `LinePhase`, `Holders` and
`Past`).

`line` of a key is the key it descends from; `expected`, `missed` and `ended` are
for the properties: what each section was last set to, which sections an
unfinished save has not seen change, and which lines were ended.

### CandidateSourcing

Candidates with their stage, addresses, the mark `needs_contact_enrichment` and
where they came from, under overlapping calls of search, enrichment, creation and
decision, beside the lifecycle runs they start. Of Apollo's address it matters
whether there is none, one, or a locked placeholder (`Emails`). A call reads
(`ApolloFound`, `HunterFound`, `NotFound`, `ApolloCannotAsk`), and in later steps
writes the whole row back (`Upsert`) or the merged metadata (`Select`, `Update`)
and starts the lifecycle (`StartFound`); it may be cut off anywhere
(`Interrupt`). A lifecycle run is known by its input, which it writes again and
again (`RunWrite`), also in a thread that outlives it (`LateWrite`). `served` and
`decided` are for the properties.

### SchemaMigrations, NotionMirror, Deployment

`SchemaMigrations`: runners of several releases read the ledger once
(`ReadLedger`) and take its files in order: `Skip` an applied one whose checksum
agrees, or `Execute` and `Commit` it with its ledger row, whose primary key
refuses a second; `Stop` anywhere. `NotionMirror`: threads performing persistence
activities `CommitRow`, `FindPage`, and `CreatePage` or `UpdatePage`; `Break` is a
failed call, and what is performed again is another `Perform`. `raced` holds
records two threads were at between commit and page, `stale` those whose last
commit has not reached the page. `Deployment` puts both on one database: a row is
committed only where its table's migration has been, so that
`WrittenAfterMigrations` relates the rows to what the runners executed.

### Definitions marked "mutant"

A definition with the comment *mutant* is a plausible bug, used by nothing in
the specification. Put in place of the definition that follows it, it breaks
the property it is paired with in `PROJECT.json`: evidence that the property
constrains that definition.

## Runs

| Run | Configuration | Checked | Expected |
|---|---|---|---|
| `approval_many` | 2 API processes, 1 LinkedIn row, provider reports, 2 texts, 2 appends | `DeliveredWasApproved` | holds |
| `follow_ups` | 2 API processes, a first contact and 2 follow-ups, limits 0 and 1, 2 appends each | `FollowUpTypeOK`, `FollowUpsInOrder`, `DeliveredWasApproved` | holds |
| `workflows_single` | 1 run of any workflow on any of 3 inputs, fairness | `StageMovesForward`, `RunsEnd`, `RunsAreDurable` | holds |
| `workflows_pair` | 2 runs of lifecycle, outreach, closure or onboarding, 2 decisions, the API's writes | `TypeOK`, `CompletedMeansDone`, `ContactedHasRows`, `CompletedIsRecorded` | holds |
| `composed` | 1 API process, 1 run of lifecycle or outreach, a first mail and its follow-up | `SendIsLicensed`, `SentShowsDelivered`, `PreparationIsCurrent`, `ApiIsImplemented`, `WorkerIsImplemented` | holds |
| `tenant` | 2 requests at a time, 1 user, 3 keys | `TypeOK`, `OneHeir`, `SettingsKept`, `LinesAreKept` | holds |
| `deployment` | 2 runners of 2 releases, 2 mirroring threads, 2 records | `SchemaIsLedger`, `CompletedIsApplied`, `OnePage`, `PageShowsRow`, `WrittenAfterMigrations` | holds |
| `sourcing` | 1 candidate, 2 calls at a time, its runs and a late thread | `TypeOK`, `UnmarkedIsStarted`, `DecisionStands` | holds |
| `discarded` | 1 API process, 1 e-mail row | `DiscardedIsNotSent` | violated |
| `redelivery` | same | `OneDeliveryPerApproval` | violated |
| `replay` | same | `ReplayKeepsSent` | violated |
| `unapproved` | 1 API process, 1 lifecycle run, 1 row | `WorkerPostsApproved` | violated |

The four violations are disagreements between the code and what its documents,
messages or tests say of it; `findings` in `PROJECT.json` quotes each:

- `replay`: an append under an existing key sets the row back to pending, so an
  activity retried after its commit, or a second run for the candidate, reopens
  an interaction that was sent, which README.md says cannot happen.
- `redelivery`: no side effect of the send carries an idempotency key; an answer
  lost after delivery leads to a second delivery.
- `discarded`: the guard "Message must be approved before send" accepts an
  approval that survived a discard.
- `unapproved`: the lifecycle posts the text it rendered to the channel's webhook
  before anybody approved it. (The outreach workflow posts, too, but sends no
  text along; such a post is not counted.)

**Bounds, and why they are enough.**

- *Approvals.* Rows do not influence each other in the review and send handlers,
  so one row suffices; two texts in `approval_many` distinguish the approved text
  from another; two appends put one before and one during or after a send; two
  processes give every overlap of two handlers, and the theorem covers any number.
  `SendIsLicensed` and `SentShowsDelivered` are stated for a single API process:
  with two, lost updates break both (a send already under way survives a review
  that withdraws it), and the code has nothing to prevent it.
- *Follow-ups.* A preparation relates the rows of one thread; two steps after the
  first contact show one step prepared in place of another, and limits 0 and 1
  both sides of `Limit`. In `follow_ups` two processes prepare, review and send
  from lists the other has overtaken; to afford that, "sent" is the only status
  asked of the status route. `PreparationIsCurrent` is stated for one process, where
  the route runs without interruption by other handlers and the worker may still
  append between its list and its own append; with two processes the slower of
  two preparations reopens the row of the faster one. It is checked in `composed`,
  where candidates reply and the worker is the real one. `FollowUpsInOrder` does
  not depend on it. Neither run discards a follow-up; the theorems, which are
  about every status and every number of rows, do.
- *Workflows.* One text, since no property of theirs tells texts apart; two
  channels and at most two follow-up delays, which exercise every branch of every
  script. Two runs give every overlap of two workflows. The attempt counter is
  bounded by the retry policy (three for the lifecycle) and not counted where the
  policy sets no limit. In `workflows_pair` the candidate has one channel
  (`PairKeys`), the API may mark its row sent at any time (`PairEdits`; the
  properties tell only whether a row is there), and of the decisions one is no
  stage of a workflow and one is.
- *Composition.* Inputs are reduced to what changes an approval or opens the way
  to a follow-up; appends of one key are bounded by `MaxAppends`; the lifecycle's
  attempts are cut to one (`FewAttempts`), since the outreach run beside it is
  retried without limit and `workflows_pair` has the lifecycle's three.
- *Tenants.* Two requests overlap in every order; three keys allow a rotation of
  a rotated key and a fresh one; one value is enough, as a section is either what
  was saved or not, and one role, as a member who may administrate nothing is
  served like a user without a membership.
- *Deployment.* Two releases that share their first file and differ in the text of
  the second; two threads and two contents show every race for a page.
  `MaxPages` bounds what a race can create. A request to Notion that takes effect
  only after its client gave up, while the retry is under way, is a thread still at
  its last step: the retry's commit then marks the record as raced for.
- *Sourcing.* Calls and runs on different candidates do not meet, so one
  candidate; the profiles and matches chosen are those that take each branch of
  the routes; a run writes one stage, since the order of the stages belongs to
  `CandidateWorkflows`; `MaxLate` late threads.

`CHECK_DEADLOCK FALSE` stands where the system really stops: all runs over and
nobody acting.

**Fairness.** `FairSpec` of `CandidateWorkflows` assumes weak fairness of
`Progress(r)` (Temporal dispatches a due activity or timer to a running worker,
and an attempt that stays possible is eventually made) and of `TimeOut(r)`
(Temporal enforces `schedule_to_close_timeout`, which every activity in
`workflows/*.py` sets). No fairness is assumed of an attempt's success, of late
threads, of retries or of people. `RunsEnd` rests on the timeouts: seven of the
eight workflows set no maximum number of attempts, and an activity whose foreign
key is missing never succeeds. The other modules state safety only: nothing in
the API obliges a client, a provider or a person to act, and a request that is
cut off is not taken up again.

## Proofs

| Theorem | States | Module |
|---|---|---|
| `TypeCorrect` | `Spec => []TypeOK` | `InteractionApprovalProofs` |
| `OnlyApprovedDelivered` | `Spec => []DeliveredWasApproved` | " |
| `SendsLicensed` | `Spec => []SendIsLicensed`, one API process | " |
| `SentRowsShowDelivered` | `Spec => []SentShowsDelivered`, one API process | " |
| `FollowUpTypeCorrect` | `FollowUpSpec => []FollowUpTypeOK` | `FollowUpPreparationProofs` |
| `FollowUpsDeliverApproved` | `FollowUpSpec => []DeliveredWasApproved` | " |
| `FollowUpsOrdered` | `FollowUpSpec => []FollowUpsInOrder` | " |
| `PreparationsAreCurrent` | `FollowUpSpec => PreparationIsCurrent`, one API process | " |
| `RunsInvariant` | `Spec => [](TypeOK /\ DurableInv)` | `CandidateWorkflowsProofs` |
| `WorkflowTypeCorrect` | `Spec => []TypeOK` | " |
| `CompletedRunsAreDone` | `Spec => []CompletedMeansDone` | " |
| `CompletedRunsAreRecorded` | `Spec => []CompletedIsRecorded` | " |
| `ContactedHaveRows` | `Spec => []ContactedHasRows` | " |
| `RunsImplementDurableRun` | `Spec => RunsAreDurable` | " |
| `StagesMoveForward` | `Spec => StageMovesForward`, one run, no decisions | " |
| `RegisteredScriptsAreShaped` | every script of `Registered(input)` is `Shaped`, every input | `WorkflowScriptsProofs` |
| `RegisteredRunsAreDone` | `Worker!Spec => []Worker!CompletedMeansDone` | " |
| `RegisteredRunsAreDurable` | `Worker!Spec => Worker!RunsAreDurable` | " |
| `RegisteredContactedHaveRows` | `Worker!Spec => []Worker!ContactedHasRows` | " |
| `RegisteredStagesMoveForward` | `Worker!Spec => Worker!StageMovesForward`, one run, no decisions | " |
| `CompositionImplementsPreparation` | `SystemSpec => ApiIsImplemented` | `OutreachSystemProofs` |
| `CompositionImplementsWorkflows` | `SystemSpec => WorkerIsImplemented` | " |
| `SystemDeliversApproved` | `SystemSpec => []DeliveredWasApproved` | " |
| `SystemSendsLicensed` | `SystemSpec => []SendIsLicensed`, one API process | " |
| `SystemShowsDelivered` | `SystemSpec => []SentShowsDelivered`, one API process | " |
| `SystemFollowUpsOrdered` | `SystemSpec => []FollowUpsInOrder` | " |
| `SystemPreparationsAreCurrent` | `SystemSpec => PreparationIsCurrent`, one API process | " |
| `SystemRunsAreDone` | `SystemSpec => []Worker!CompletedMeansDone` | " |
| `SystemContactedHaveRows` | `SystemSpec => []Worker!ContactedHasRows` | " |
| `TypeCorrect` | `Spec => [](TypeOK /\ LinesInv)` | `TenantAdministrationProofs` |
| `KeysHaveOneHeir` | `Spec => []OneHeir` | " |
| `LinesImplementKeyLine` | `Spec => LinesAreKept` | " |
| `SavedSettingsStay` | `Spec => []SettingsKept` | " |
| `SchemaMatchesLedger` | `SchemaSpec => []SchemaIsLedger` | `DeploymentProofs` |
| `CompletedRunnersApplied` | `SchemaSpec => []CompletedIsApplied` | " |
| `RecordsHaveOnePage` | `MirrorSpec => []OnePage` | " |
| `PagesShowRows` | `MirrorSpec => []PageShowsRow` | " |
| `DeploymentImplementsParts` | `DeploymentSpec => SchemaSpec /\ MirrorSpec` | " |
| `DeploymentKeepsParts` | `DeploymentSpec => []` of the four invariants above | " |
| `WritesFollowMigrations` | `DeploymentSpec => []WrittenAfterMigrations` | " |
| `SourcingTypeCorrect` | `Spec => [](TypeOK /\ KnownInv)` | `CandidateSourcingProofs` |
| `UnmarkedAreStarted` | `Spec => []UnmarkedIsStarted` | " |
| `DecisionsStand` | `Spec => []DecisionStands` | " |

They hold for every value of the constants that satisfies the named assumptions
of the modules, which TLC evaluates on every instance. Most only give the sets of
inputs their types. Those that say more:

- `WorkflowsAssumption`: a script is a non-empty sequence whose last activity, and
  no other, writes the run's final row.
- `ContactAssumption`: in a script every `append` comes before the stage
  "contacted".
- `StagesAssumption`: a script does not come back to a stage it left. These three are
  true of all eight workflows: `WorkflowScriptsProofs` proves it for every input.
- `EditsAssumption`: what the API writes into a row has a status.
- `WorkerAssumption`: the three assumptions about scripts hold of the workflows in
  the composition, and none of them appends under the key of a follow-up the API
  prepares (their steps are the first contact and the days of the cadence).
- `ThreadsAssumption`: keys name candidate, channel and step, so two threads share
  no follow-up and a thread no step twice (`make_idempotency_key`).
- `ConstantsAssumption`, `ReleasesAssumption`, `MirrorAssumption`,
  `MessagesAssumption`: the values that stand for nothing (`Unset`, `NoTenant`,
  `NotApplied`, `NoContent`, `NoMessage`) are not values.

The arguments:

- *Only approved texts.* `DeliveredWasApproved` is not inductive: it says nothing
  of a row that could be sent next. `ApprovedInv` adds that a row either of whose
  flags reads approved carries an approved text, and that the same is true of
  every copy a handler works from, so that a merge of a stale payload keeps
  approval and text together: both come from the same `Select`, and a review
  replaces both.
- *Licensed sends.* `LicensedInv` says that either flag reading approved means an
  approval in force. With one process a handler's copy and the table agree about
  it, which is where the assumption of the theorem is needed.
- *Sent rows.* `ShownInv` follows the text through a handler: the copy a send
  works from shows the row's text, which is delivered by the time the handler
  selects the row again to write "sent". A second append may change the text in
  between, hence the condition on `appends`; `RowsInv` excludes a handler at a row
  whose first append is still to come.
- *Follow-ups.* `ChooseStep` saw every earlier row of the thread done, and
  `completed` only grows, so what it saw stays true until its append, whoever
  steps between (`FollowUpInv`). What is proved of `InteractionApproval` holds beside
  the preparations, each of which is an append to it or nothing
  (`PreparationImplementsApproval`, a lemma).
- *Workflows.* `DurableInv` describes what a run has written by its position:
  everything before, nothing after, the final row exactly if the last activity
  took effect, a late thread at the run's own position. The abstract step of each
  action (`DurableStep`) follows from it.
- *Scripts.* Every script is an `Opening`, plain activities (neither a stage nor a
  run's row) and a `Closing`, and such parts make a script of the shape the three
  assumptions ask for (`ShapeOfParts`). What lies between is a contact or not for
  each channel, and in a follow-up as many cadence steps as there are delays:
  `FlattenSeq` of them is a sequence of plain activities by induction on their
  number (`FlattenSeqType`). The induction is over a set of numbers and its least
  missing element (`NatSetInduction`, from `WFMin`), which needs no theorem with an
  operator for a parameter. `Worker`, an instance of `CandidateWorkflowsProofs` with
  the registered workflows on every input, then has all its assumptions, and its
  theorems hold of the code's own workflows.
- *Contacted candidates.* `ContactInv`: an append that took effect left a row, and
  only a run's own upsert makes a candidate read "contacted". By `DurableInv`
  everything before that upsert in the run's script took effect.
- *Stages.* `StageInv`: the stage is what the latest upsert of some run wrote.
  With one run, the activity at its position is the next, the same again or a
  late one of the same position; by `DurableInv` nothing after it took effect, so
  a change of the stage leads from an earlier upsert to a later one. By
  `StagesAssumption` every upsert of the new stage is then after one of the old:
  `StageMovesForward` compares all of them, as a stage may be written twice.
- *Current preparations.* `CurrentInv` says at every step between choice and
  append what the preparation read. With one process nobody but the worker steps
  in between; its append writes a pending row under a key that is no step of the
  thread's, so that it adds no reply and no open follow-up.
- *Composition.* The worker changes `rows` by one `AppendedRow` of a key that is
  no prepared follow-up, or not at all (`WorkerRows`), which needs the type of the
  runs' messages; hence its step is an append of `FollowUpPreparation` or a
  stutter (`Noted`: `completed` has nothing to learn from a step that leaves the
  rows alone). In the other direction a handler holds a copy of a row that was
  there and writes a status into it (`RowsInv`, `ApprovedInv`), and a row once
  appended is never unwritten (`RowsStay`): its step is an `ApiWrite` or a
  stutter of `CandidateWorkflows`. Both arguments use invariants of the two sides
  at once, hence one invariant of the composition (`SystemInv`). Every theorem of
  either side then holds of the composition; those of the worker's side are cited
  as theorems of an instance of `CandidateWorkflowsProofs`, whose assumptions
  `WorkerAssumptions` discharges.
- *Keys.* `LinesInv`: every key descends from one in use that is its own line, so
  a fresh key never joins a line. `OneHeir` then follows from `revoke` taking
  effect once per key: a line has an active key or a rotation about to insert
  one, never both. `LineStep` names the four things a step can do to the lines -
  nothing, issue a key, withdraw one, break off - and `StepsOfLines` sorts every
  action into them; from there `OneHeir` and the refinement of `KeyLine` are each
  a matter of four cases.
- *Settings.* `SavesInv`: a save between its select and its update holds a copy
  that agrees with the table in every section it has not missed a change of; its
  update therefore puts back nothing but what it missed.
- *Migrations.* `RunnersInv`: what a runner read in the ledger is still there, and
  everything before its next file is applied with its own checksum; the primary
  key refuses the transaction of the slower of two runners as a whole.
- *Mirror.* `MirroringsInv`: of a record no two threads raced for, one thread at
  most is between commit and page, it holds the row's content, and it creates only
  where there is no page.
- *Half a release.* `RowsSupported`: a row was let in by a file in the ledger, and
  a ledger row is never changed (`LedgerGrows`); `SchemaIsLedger` has every file
  before it executed.
- *Unmarked candidates.* `UnmarkedInv` carries the mark through a call's copy: a
  call about to write a row without it has served the candidate, or will start
  it.
- *Decisions.* `DecisionInv`: once a decision stands there is no run or late
  thread of the candidate, and every call at it will write the same stage or is
  a person's next decision.

**Only model-checked.** `RunsEnd`: liveness under fairness is out of the
prover's reach. Every other property that a run finds to hold is a theorem.

## Not modelled

Tokens and keys as credentials (a request has a role, or is refused), the other
columns and metadata of the rows, prompts and scores, the properties of a Notion
page, read-only routes, the web console, telemetry. The daily e-mail limit and a
disabled channel, which only refuse a preparation. A worker without a database
URL, whose activities write nothing. The identity of a person behind two
candidates: `CandidateSourcing` follows one candidate id. The tenant's row is
there from the start in `InteractionApproval` and `CandidateSourcing`.

## Plan

Done: all modules above with their runs and theorems. Left:

1. `OutreachSystem` with `CandidateSourcing`: the lifecycle runs there are known
   by their input and stage only; a composition would start real scripts from the
   sourcing routes.
2. Larger instances of `follow_ups` with two API processes, for the properties
   that hold there.
3. `OutreachSystem` with the registered workflows: that they append under no key of
   a follow-up the API prepares would discharge `WorkerAssumption` too.
