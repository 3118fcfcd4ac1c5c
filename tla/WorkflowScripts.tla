-------------------------- MODULE WorkflowScripts --------------------------
(***************************************************************************)
(* The Temporal workflows of workflows/*.py, each as the sequence of       *)
(* activities it awaits.  A workflow never looks at what an activity       *)
(* returns to decide what comes next (results only fill payloads), so its  *)
(* input fixes the whole sequence.                                         *)
(***************************************************************************)
EXTENDS Naturals, Sequences, SequencesExt

(* One activity call.  do: "tenant", "candidate", "run", "audit" and       *)
(* "append" write a row of that kind; "post" calls a channel's webhook;    *)
(* "agent" asks an LLM; "sleep" is a timer.  arg: the stage, run status,   *)
(* channel, event or prompt.  step: the cadence step of an interaction,    *)
(* 0 for the first contact, 1 for d5, 2 for d7, ...                        *)
Activity(do, arg) == [do |-> do, arg |-> arg, step |-> 0]

Running == Activity("run", "Running")
Completed == Activity("run", "Completed")
Stage(stage) == Activity("candidate", stage)
Audit(event) == Activity("audit", event)
Interaction(channel, step) == [do |-> "append", arg |-> channel, step |-> step]
When(condition, activities) == IF condition THEN activities ELSE <<>>

\* What a workflow is started with: the channels asked for, in order and
\* without repetition; the channels there is an address for; the stage; and
\* the follow-up delays.
Input(channels, addresses, stage, delays) ==
  [channels |-> channels, addresses |-> addresses, stage |-> stage, delays |-> delays]

\* First contact through one channel, if it is asked for and has an address.
Contact(input, channel, draft) ==
  When(channel \in Range(input.channels) /\ channel \in input.addresses,
      draft \o <<Activity("post", channel), Interaction(channel, 0)>>)

\* attempts: the RetryPolicy's maximum_attempts, 0 for the default (no limit
\* but the schedule-to-close timeout).  single: the workflow id names the
\* tenant or candidate only, so that Temporal runs one at a time.
Workflow(name, attempts, single, script) ==
  [name |-> name, attempts |-> attempts, single |-> single, script |-> script]

----------------------------------------------------------------------------
LifecycleScript(input) ==
  LET render == <<Activity("agent", "render")>> IN
  <<Running,
    Stage("ingested"),
    Activity("agent", "enrich"),   Stage("enriched"),
    Activity("agent", "classify"), Stage("qualified"),
    Stage("ready_to_contact")>>
  \o Contact(input, "email", render)
  \o Contact(input, "linkedin", render)
  \o <<Stage(IF input.channels = <<>> THEN "closed" ELSE "contacted"),
       Audit("candidate.lifecycle_completed"),
       Completed>>

Lifecycle(input) == Workflow("lifecycle", 3, TRUE, LifecycleScript(input))

Ingest(input) ==
  Workflow("ingest", 0, FALSE,
    <<Running, Stage("ingested"), Audit("candidate.ingested"), Completed>>)

Enrichment(input) ==
  Workflow("enrichment", 0, FALSE,
    <<Running, Activity("agent", "enrich"), Stage("enriched"),
      Audit("candidate.enriched"), Completed>>)

Qualification(input) ==
  Workflow("qualification", 0, FALSE,
    <<Running, Activity("agent", "classify"), Stage("qualified"),
      Audit("candidate.qualified"), Completed>>)

OutreachScript(input) ==
  <<Running>> \o
  IF input.stage = "closed"
  THEN <<Activity("run", "Skipped")>>
  ELSE <<Stage("ready_to_contact")>>
       \o Contact(input, "email", <<>>)
       \o Contact(input, "linkedin", <<>>)
       \o <<Stage(IF input.channels = <<>> THEN "ready_to_contact" ELSE "contacted"),
            Audit("candidate.outreach_routed"),
            Completed>>

Outreach(input) == Workflow("outreach", 0, FALSE, OutreachScript(input))

\* One step of the cadence: wait, prepare a row per channel, record it.  The
\* rows are prepared for every channel, with an address or without.
CadenceStep(input, i) ==
  When(input.delays[i] # 0, <<Activity("sleep", "")>>)
  \o [c \in DOMAIN input.channels |-> Interaction(input.channels[c], i)]
  \o <<Audit("candidate.follow_up_due")>>

FollowUpScript(input) ==
  <<Running, Stage("follow_up"), Audit("candidate.follow_up_scheduled")>>
  \o FlattenSeq([i \in DOMAIN input.delays |-> CadenceStep(input, i)])
  \o <<Completed>>

FollowUp(input) == Workflow("follow-up", 0, FALSE, FollowUpScript(input))

Closure(input) ==
  Workflow("closure", 0, FALSE,
    <<Running, Stage("closed"), Audit("candidate.closed"), Completed>>)

TenantOnboarding ==
  Workflow("onboarding", 0, TRUE,
    <<Activity("tenant", "onboarded"), Running, Audit("tenant.onboarded"), Completed>>)

\* Every workflow the worker registers, for one input.
Registered(input) ==
  {Lifecycle(input), Ingest(input), Enrichment(input), Qualification(input),
   Outreach(input), FollowUp(input), Closure(input), TenantOnboarding}
=============================================================================
