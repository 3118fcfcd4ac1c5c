------------------------- MODULE CandidateSourcing -------------------------
(***************************************************************************)
(* Candidates between the providers of contact data and their lifecycle:   *)
(* the search in Apollo, the enrichment by Apollo and by Hunter, the       *)
(* creation of a candidate and a person's decision, in any number of API   *)
(* calls at a time, beside the lifecycle runs in the worker.               *)
(*                                                                         *)
(* A call waits for a provider between reading a candidate and writing it  *)
(* back whole; update_candidate_state selects metadata before it       *)
(* writes it merged; nothing is locked, and a call may be cut off between  *)
(* two transactions.  A batch takes its candidates one after another and   *)
(* nothing passes from one to the next, so a call here serves one.         *)
(*                                                                         *)
(* Left out: what only describes a candidate (name, company, score, the    *)
(* status of an enrichment), the audit event at the end of a call, and     *)
(* whom a lifecycle writes to (CandidateWorkflows).                        *)
(***************************************************************************)
EXTENDS Naturals, FiniteSets

CONSTANTS Candidates,
          Calls,       \* API calls being served at a time
          Profiles,    \* what Apollo's search may tell of a person
          Matches,     \* what Apollo may tell of one it is asked for
          Handles,     \* whether Hunter tells a LinkedIn profile, too
          Forms,       \* what a created candidate's payload may hold
          Decisions,   \* stages a person may give
          RunStages,   \* the stages a lifecycle writes
          MaxLate      \* bound: threads that outlive their runs, at a time

\* An e-mail address as Apollo gives it: "locked" is its placeholder
\* email_not_unlocked@..., which is no address.
Emails == {"none", "locked", "given"}

\* Where a candidate came from: the metadata's source and apollo_person_id.
Origins == {"form", "apollo", "apollo without id"}

\* The candidates table: does the row hold an address, does its metadata say
\* needs_contact_enrichment.
Contact == [email : BOOLEAN, linkedin : BOOLEAN, needs : BOOLEAN, origin : Origins]
Stages == {"ingested", "enriched", "qualified", "ready_to_contact", "contacted",
           "paused", "discarded"}
Row == [stage : Stages, contact : Contact]
NoRow == [stage |-> "absent"]

ASSUME InputsAssumption ==
  /\ Profiles \subseteq [email : Emails, linkedin : BOOLEAN,
                         origin : {"apollo", "apollo without id"}]
  /\ Matches \subseteq [email : Emails, linkedin : BOOLEAN]
  /\ Handles \subseteq BOOLEAN
  /\ Forms \subseteq [email : BOOLEAN, linkedin : BOOLEAN]
  /\ Decisions \subseteq {"paused", "discarded", "qualified"}
  /\ RunStages \subseteq Stages
  /\ MaxLate \in Nat

VARIABLES
  rows,    \* the candidates table
  calls,   \* what each call is doing
  runs,    \* the open lifecycle run of each candidate, or NoRun
  late,    \* <<c, row>>: a thread of a failed run that may still upsert row
  \* For the properties only:
  served,   \* candidates a lifecycle was ever started for, or with a call cut
            \* off before it started one
  decided   \* the decision that nothing overlapped, "none" otherwise

svars == <<rows, calls, runs, late, served, decided>>

Idle == [pc |-> "idle"]

\* A call, the candidate it serves, the stage it will write, and the rest of
\* what it read or will write.
Serving == [pc : {"stage", "upsert", "start", "select", "select missing", "update"},
            candidate : Candidates,
            stage : Stages,
            contact : Contact,
            decision : BOOLEAN]

\* A lifecycle run is known by its input.
NoRun == [open |-> FALSE]

Init ==
  /\ rows = [c \in Candidates |-> NoRow]
  /\ calls = [s \in Calls |-> Idle]
  /\ runs = [c \in Candidates |-> NoRun]
  /\ late = {}
  /\ served = {}
  /\ decided = [c \in Candidates |-> "none"]

At(s, pc) == calls[s] # Idle /\ calls[s].pc = pc

\* No contact: a call on its way to update_candidate_state needs none.
Blank == [email |-> FALSE, linkedin |-> FALSE, needs |-> TRUE, origin |-> "form"]

Become(s, call) == calls' = [calls EXCEPT ![s] = call]

----------------------------------------------------------------------------
(* Lifecycles.                                                             *)

\* start_workflow: the workflow id of a candidate admits one open run; a
\* second start is reported as a duplicate.
Start(c, contact) ==
  IF runs[c] # NoRun
    THEN UNCHANGED <<runs, served, decided>>
    ELSE /\ runs' = [runs EXCEPT ![c] = contact]
         /\ served' = served \cup {c}
         /\ decided' = [decided EXCEPT ![c] = "none"]

\* The run upserts the record it was started with, under one of its stages,
\* once or, when an attempt is repeated after its commit, again.  (The order of
\* the stages is CandidateWorkflows' matter.)
RunRows(c) == [stage : RunStages, contact : {runs[c]}]

RunWrite(c) ==
  /\ runs[c] # NoRun
  /\ \E row \in RunRows(c) : rows' = [rows EXCEPT ![c] = row]
  /\ UNCHANGED <<calls, runs, late, served, decided>>

\* The run completes or fails; a thread of a failed one may go on.
RunEnd(c) ==
  /\ runs[c] # NoRun
  /\ runs' = [runs EXCEPT ![c] = NoRun]
  /\ \/ UNCHANGED late
     \/ /\ Cardinality(late) < MaxLate
        /\ \E row \in RunRows(c) : late' = late \cup {<<c, row>>}
  /\ UNCHANGED <<rows, calls, served, decided>>

LateWrite(c) ==
  /\ \E l \in late :
       /\ l[1] = c
       /\ rows' = [rows EXCEPT ![c] = l[2]]
       /\ late' = late \ {l}
  /\ UNCHANGED <<calls, runs, served, decided>>

LateLost(c) ==
  /\ \E l \in late : l[1] = c /\ late' = late \ {l}
  /\ UNCHANGED <<rows, calls, runs, served, decided>>

----------------------------------------------------------------------------
(* Search.  An address still locked is not stored, but it is a channel.    *)

Stored(profile) == profile.email = "given"

HasChannel(profile) == profile.email # "none" \/ profile.linkedin

Discovered(profile) ==
  [email |-> Stored(profile), linkedin |-> profile.linkedin,
   needs |-> ~ HasChannel(profile), origin |-> profile.origin]

\* A person with a channel: a lifecycle, or a duplicate.
SearchStarts(s, c, profile) ==
  /\ calls[s] = Idle
  /\ HasChannel(profile)
  /\ Start(c, Discovered(profile))
  /\ UNCHANGED <<rows, calls, late>>

\* A person without one is kept for enrichment, unless there is a row.
SearchFindsNone(s, c, profile) ==
  /\ calls[s] = Idle
  /\ ~ HasChannel(profile)
  /\ rows[c] = NoRow
  /\ Become(s, [pc |-> "stage", candidate |-> c, stage |-> "ingested",
                contact |-> Discovered(profile), decision |-> FALSE])
  /\ UNCHANGED <<rows, runs, late, served, decided>>

----------------------------------------------------------------------------
(* Enrichment.  The row is read, the provider is asked, and the row is     *)
(* written in a later step: what the provider answers changes nothing of   *)
(* ours, so the read and the answer are one step.                          *)

Read(s, c) == calls[s] = Idle /\ rows[c] # NoRow

\* Apollo is asked for the person the metadata names.
Known(c) == rows[c].contact.origin = "apollo"

\* Hunter is asked unless there is an e-mail and nothing is missing.
Asked(c) == rows[c].contact.email => rows[c].contact.needs

\* Apollo's id of the person is missing: a status is noted.
ApolloCannotAsk(s, c) ==
  /\ Read(s, c)
  /\ rows[c].contact.origin = "apollo without id"
  /\ Become(s, [pc |-> "select", candidate |-> c, stage |-> rows[c].stage,
                contact |-> Blank, decision |-> FALSE])
  /\ UNCHANGED <<rows, runs, late, served, decided>>

\* The provider has nothing: the candidate is marked as needing contact data.
NotFound(s, c) ==
  /\ Read(s, c)
  /\ Known(c) \/ Asked(c)
  /\ Become(s, [pc |-> "select missing", candidate |-> c, stage |-> rows[c].stage,
                contact |-> Blank, decision |-> FALSE])
  /\ UNCHANGED <<rows, runs, late, served, decided>>

\* Apollo knows the person: its e-mail, or the row's if it gives none, and
\* its LinkedIn profile, or the row's.
ApolloContact(contact, match) ==
  LET e == match.email = "given" \/ (match.email = "none" /\ contact.email)
      l == match.linkedin \/ contact.linkedin
  IN  [contact EXCEPT !.email = e, !.linkedin = l, !.needs = ~ (e \/ l)]

ApolloFound(s, c, match) ==
  /\ Read(s, c)
  /\ Known(c)
  /\ Become(s, [pc |-> "upsert", candidate |-> c, stage |-> rows[c].stage,
                contact |-> ApolloContact(rows[c].contact, match),
                decision |-> FALSE])
  /\ UNCHANGED <<rows, runs, late, served, decided>>

HunterContact(contact, linkedin) ==
  [contact EXCEPT !.email = TRUE, !.linkedin = linkedin \/ @, !.needs = FALSE]

HunterRestarts(s, c, linkedin) ==   \* mutant: writes the stage it gives the run
  /\ Read(s, c)
  /\ Asked(c)
  /\ Become(s, [pc |-> "upsert", candidate |-> c, stage |-> "ingested",
                contact |-> HunterContact(rows[c].contact, linkedin),
                decision |-> FALSE])
  /\ UNCHANGED <<rows, runs, late, served, decided>>
HunterFound(s, c, linkedin) ==
  /\ Read(s, c)
  /\ Asked(c)
  /\ Become(s, [pc |-> "upsert", candidate |-> c, stage |-> rows[c].stage,
                contact |-> HunterContact(rows[c].contact, linkedin),
                decision |-> FALSE])
  /\ UNCHANGED <<rows, runs, late, served, decided>>

\* upsert_candidate: the whole row, whatever it reads by now.  A candidate
\* with an address has its lifecycle started next.
Reachable(contact) == contact.email \/ contact.linkedin

Written(call) == [stage |-> call.stage, contact |-> call.contact]

\* The input of the run: the record, as an ingested candidate.
ForRun(call) == [call EXCEPT !.pc = "start", !.stage = "ingested"]

StartsWithMailOnly(call) ==   \* mutant: LinkedIn alone is left for Hunter
  IF call.pc = "upsert" /\ call.contact.email THEN ForRun(call) ELSE Idle
AfterUpsert(call) ==
  IF call.pc = "upsert" /\ Reachable(call.contact)
    THEN ForRun(call)
    ELSE Idle

Upsert(s) ==
  /\ At(s, "stage") \/ At(s, "upsert")
  /\ rows' = [rows EXCEPT ![calls[s].candidate] = Written(calls[s])]
  /\ Become(s, AfterUpsert(calls[s]))
  /\ UNCHANGED <<runs, late, served, decided>>

StartFound(s) ==
  /\ At(s, "start")
  /\ Start(calls[s].candidate, calls[s].contact)
  /\ Become(s, Idle)
  /\ UNCHANGED <<rows, late>>

----------------------------------------------------------------------------
(* update_candidate_state: the metadata is selected, then the caller's     *)
(* stage and the merged metadata are written; the addresses are not        *)
(* touched.                                                                *)

\* What update_candidate_state keeps between its two statements.
Metadata(row, needs) == [Blank EXCEPT !.needs = needs, !.origin = row.contact.origin]

Select(s) ==
  /\ At(s, "select") \/ At(s, "select missing")
  /\ LET row == rows[calls[s].candidate]
         needs == row.contact.needs \/ At(s, "select missing")
     IN  Become(s, [calls[s] EXCEPT !.pc = "update",
                                    !.contact = Metadata(row, needs)])
  /\ UNCHANGED <<rows, runs, late, served, decided>>

\* The row with the caller's stage and metadata and its own addresses.
Replaced(row, call) ==   \* mutant: the update is all that is left of the metadata
  [stage |-> call.stage,
   contact |-> [email |-> row.contact.email, linkedin |-> row.contact.linkedin,
                needs |-> call.contact.needs]]
Merged(row, call) ==
  [stage |-> call.stage,
   contact |-> [call.contact EXCEPT !.email = row.contact.email,
                                    !.linkedin = row.contact.linkedin]]

\* Nobody else is at work on a candidate.
Alone(s, c) ==
  /\ runs[c] = NoRun
  /\ \A l \in late : l[1] # c
  /\ \A t \in Calls \ {s} : calls[t] # Idle => calls[t].candidate # c

Update(s) ==
  LET call == calls[s]
      c == call.candidate
  IN
  /\ At(s, "update")
  /\ rows' = [rows EXCEPT ![c] = Merged(@, call)]
  /\ decided' = IF call.decision
                  THEN [decided EXCEPT ![c] = IF Alone(s, c) THEN call.stage ELSE "none"]
                  ELSE decided
  /\ Become(s, Idle)
  /\ UNCHANGED <<runs, late, served>>

----------------------------------------------------------------------------
(* The other routes.                                                       *)

\* POST /v1/candidates.  The channels a form names are taken as they are;
\* without any, an address is one.
Create(s, c, form) ==
  /\ calls[s] = Idle
  /\ runs[c] = NoRun
  /\ Start(c, [email |-> form.email, linkedin |-> form.linkedin,
               needs |-> FALSE, origin |-> "form"])
  /\ UNCHANGED <<rows, calls, late>>

\* POST /v1/candidates/{id}/decision.
Decide(s, c, stage) ==
  /\ calls[s] = Idle
  /\ rows[c] # NoRow
  /\ Become(s, [pc |-> "select", candidate |-> c, stage |-> stage,
                contact |-> Blank, decision |-> TRUE])
  /\ UNCHANGED <<rows, runs, late, served, decided>>

\* A provider's error raises 502, the database or Temporal fails, or the
\* process stops.
Interrupt(s) ==
  /\ calls[s] # Idle
  /\ served' = IF At(s, "start") THEN served \cup {calls[s].candidate} ELSE served
  /\ Become(s, Idle)
  /\ UNCHANGED <<rows, runs, late, decided>>

Serve(s) ==
  \/ \E c \in Candidates, profile \in Profiles :
       SearchStarts(s, c, profile) \/ SearchFindsNone(s, c, profile)
  \/ \E c \in Candidates : ApolloCannotAsk(s, c) \/ NotFound(s, c)
  \/ \E c \in Candidates, match \in Matches : ApolloFound(s, c, match)
  \/ \E c \in Candidates, linkedin \in Handles : HunterFound(s, c, linkedin)
  \/ Upsert(s) \/ StartFound(s) \/ Select(s) \/ Update(s)
  \/ \E c \in Candidates, form \in Forms : Create(s, c, form)
  \/ \E c \in Candidates, stage \in Decisions : Decide(s, c, stage)
  \/ Interrupt(s)

Next ==
  \/ \E s \in Calls : Serve(s)
  \/ \E c \in Candidates :
       RunWrite(c) \/ RunEnd(c) \/ LateWrite(c) \/ LateLost(c)

Spec == Init /\ [][Next]_svars

----------------------------------------------------------------------------
(* Properties.                                                             *)

TypeOK ==
  /\ rows \in [Candidates -> Row \cup {NoRow}]
  /\ calls \in [Calls -> Serving \cup {Idle}]
  /\ runs \in [Candidates -> Contact \cup {NoRun}]
  /\ late \subseteq Candidates \X Row
  /\ served \subseteq Candidates
  /\ decided \in [Candidates -> Stages \cup {"none"}]

\* A lifecycle was started for c, or is about to be, or the call was cut off.
Served(c) == c \in served \/ \E s \in Calls : At(s, "start") /\ calls[s].candidate = c

\* Nobody is forgotten: a candidate no longer marked as needing contact data,
\* whom Hunter's route passes over once there is an e-mail, has had its
\* lifecycle started, or a call is about to, or that call was cut off.  Late
\* provider answers, merges of old metadata and duplicates do not unmark one
\* who was never started.
UnmarkedIsStarted ==
  \A c \in Candidates : rows[c] # NoRow /\ ~ rows[c].contact.needs => Served(c)

\* A decision nothing overlapped (no open run or late thread, no other call on
\* the candidate) stands: searches and enrichments that follow keep the stage,
\* until a lifecycle is started or a person decides anew.
DecisionStands ==
  \A c \in Candidates : decided[c] # "none" => rows[c].stage = decided[c]

----------------------------------------------------------------------------
(* Inductive strengthenings.                                               *)

\* What a call is about to write has a row to be written to.
KnownInv ==
  \A s \in Calls : calls[s] # Idle /\ calls[s].pc \notin {"stage", "start"} =>
                     rows[calls[s].candidate] # NoRow

\* Who is about to be unmarked, or has a run, is served or will be next.
UnmarkedInv ==
  /\ UnmarkedIsStarted
  /\ \A s \in Calls :
       /\ At(s, "stage") => calls[s].contact.needs
       /\ At(s, "upsert") /\ ~ Reachable(calls[s].contact) => calls[s].contact.needs
       /\ At(s, "update") /\ ~ calls[s].contact.needs => Served(calls[s].candidate)
  /\ \A c \in Candidates : runs[c] # NoRun => c \in served
  /\ \A l \in late : l[1] \in served

\* Once a decision stands, whoever will write a stage writes that one, or is a
\* person's next decision, which no upsert is.
DecisionInv ==
  /\ DecisionStands
  /\ \A c \in Candidates : decided[c] # "none" =>
       /\ rows[c] # NoRow
       /\ runs[c] = NoRun
       /\ \A l \in late : l[1] # c
       /\ \A s \in Calls :
            calls[s] # Idle /\ calls[s].candidate = c /\ calls[s].pc # "start" =>
              /\ calls[s].pc # "stage"
              /\ (calls[s].decision /\ calls[s].pc # "upsert") \/ calls[s].stage = decided[c]
=============================================================================
