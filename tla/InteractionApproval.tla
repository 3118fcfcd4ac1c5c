------------------------ MODULE InteractionApproval ------------------------
(***************************************************************************)
(* The life of interaction rows between the handlers of the API and the    *)
(* activities of the worker.                                               *)
(*                                                                         *)
(* An API process runs one of these handlers at a time (they are `async    *)
(* def` but await nothing), several processes run side by side, and every  *)
(* function of db.py is a transaction of its own: a handler is a sequence  *)
(* of steps                                                                *)
(*                                                                         *)
(*    read the row -> (send) -> select payload -> update row -> audit      *)
(*                                                                         *)
(* between which other processes and the worker may step.  The row is not  *)
(* locked between any two of them: update_interaction_status selects the   *)
(* payload without FOR UPDATE and writes back the merged object.  A        *)
(* process may stop between two steps.                                     *)
(***************************************************************************)
EXTENDS InteractionStore, Naturals

CONSTANTS Keys,             \* idempotency keys of one tenant
          LinkedIn,         \* the keys of LinkedIn rows; the others are e-mail
          Servers,          \* API processes
          MaxAppends,       \* bound: appends per key
          FollowUps,        \* the keys of follow-ups the API itself prepares
          Requested,        \* statuses clients ask of the status route
          Reviews,          \* decisions of the review route
          Reports           \* statuses of provider reports

ASSUME KeysAssumption == LinkedIn \subseteq Keys /\ FollowUps \subseteq Keys
ASSUME InputsAssumption == /\ Requested \subseteq RouteStatuses
                           /\ Reviews \subseteq ReviewStatuses
                           /\ Reports \subseteq ExpandiStatuses
ASSUME BoundAssumption == MaxAppends \in Nat

VARIABLES
  rows,       \* the table: key -> Row
  appends,    \* appends so far, per key
  calls,      \* the handler each API process is running
  \* What the outside world and the humans know, for the properties only:
  approved,   \* <<key, text>> pairs somebody approved
  delivered,  \* <<key, text>> pairs the API handed to a provider
  licensed,   \* keys whose approval nothing has used up or withdrawn since
  spent       \* keys delivered since their last approval

ghosts == <<approved, delivered, licensed, spent>>
vars == <<rows, appends, calls, approved, delivered, licensed, spent>>

Idle == [pc |-> "idle"]

\* `row` is what the handler holds in memory: first the row it read, then the
\* row it is about to write.
Call == [pc     : {"send", "select", "update", "audit"},
         op     : {"status", "review", "expandi"},
         key    : Keys,
         status : Statuses,
         row    : Row]

TypeOK ==
  /\ rows \in [Keys -> Row]
  /\ appends \in [Keys -> 0..MaxAppends]
  /\ calls \in [Servers -> Call \cup {Idle}]
  /\ approved \subseteq Keys \X Texts
  /\ delivered \subseteq Keys \X Texts
  /\ licensed \subseteq Keys
  /\ spent \subseteq Keys

Init ==
  /\ rows = [k \in Keys |-> NoRow]
  /\ appends = [k \in Keys |-> 0]
  /\ calls = [s \in Servers |-> Idle]
  /\ approved = {}
  /\ delivered = {}
  /\ licensed = {}
  /\ spent = {}

----------------------------------------------------------------------------
(* The first step of a handler: find the row and check the request.        *)

BeginUnfound(s, pc, op, k, status, row) ==   \* mutant: the row is not looked up
  /\ calls[s] = Idle
  /\ calls' = [calls EXCEPT ![s] = [pc |-> pc, op |-> op, key |-> k,
                                    status |-> status, row |-> row]]
  /\ UNCHANGED <<rows, appends, ghosts>>
Begin(s, pc, op, k, status, row) ==
  /\ calls[s] = Idle
  /\ rows[k] # NoRow
  /\ calls' = [calls EXCEPT ![s] = [pc |-> pc, op |-> op, key |-> k,
                                    status |-> status, row |-> row]]
  /\ UNCHANGED <<rows, appends, ghosts>>

\* POST /v1/interactions/{id}/status with status "sent".
BeginSend(s, k) ==
  /\ MaySend(rows[k])
  /\ Begin(s, "send", "status", k, "sent", rows[k])

\* The same route with any other status: no guard looks at the old one.
BeginStatus(s, k, status) ==
  /\ status # "sent"
  /\ Begin(s, "select", "status", k, status, rows[k])

\* POST /v1/interactions/{id}/review: a human edits the text and decides.
BeginReview(s, k, status, text) ==
  Begin(s, "select", "review", k, status, [rows[k] EXCEPT !.message = text])

\* A provider report, pushed by the webhook or pulled by the poll route.
BeginExpandi(s, k, status) ==
  /\ k \in LinkedIn
  /\ Begin(s, "select", "expandi", k, status, rows[k])

----------------------------------------------------------------------------
(* The send: the provider may take the message and answer, take it while   *)
(* the answer is lost, or refuse it.                                       *)

Deliver(k, text) ==
  /\ text # NoMessage
  /\ delivered' = delivered \cup {<<k, text>>}
  /\ spent' = spent \cup {k}

SendDelivered(s, next) ==
  LET c == calls[s] IN
  /\ c.pc = "send"
  /\ Deliver(c.key, c.row.message)
  /\ calls' = [calls EXCEPT ![s] = next]
  /\ UNCHANGED <<rows, appends, approved, licensed>>

SendAccepted(s) == SendDelivered(s, [calls[s] EXCEPT !.pc = "select"])

\* Timeout or unreadable answer after delivery: HTTP 502, nothing recorded.
SendUnconfirmed(s) == SendDelivered(s, Idle)

SendRefusedSilently(s) ==   \* mutant: the provider's error is swallowed
  /\ calls[s].pc = "send"
  /\ calls' = [calls EXCEPT ![s].pc = "select"]
  /\ UNCHANGED <<rows, appends, ghosts>>

\* No key, no address, no text, or an HTTP error of the provider.
SendRefused(s) ==
  /\ calls[s].pc = "send"
  /\ calls' = [calls EXCEPT ![s] = Idle]
  /\ UNCHANGED <<rows, appends, ghosts>>

\* LinkedIn without a configured webhook (the environment is read at each
\* send): the person sends by hand and marks the row.
SendManual(s) ==
  /\ calls[s].pc = "send"
  /\ calls[s].key \in LinkedIn
  /\ calls' = [calls EXCEPT ![s].pc = "select"]
  /\ UNCHANGED <<rows, appends, ghosts>>

----------------------------------------------------------------------------
(* update_interaction_status: a SELECT, a merge in memory, an UPDATE.      *)

\* Reviews and provider reports set manual_approval_status to their status;
\* the status route does so for "sent" and "replied" only.
SetsApproval(c) == c.op # "status" \/ c.status \in {"sent", "replied"}

\* mutants: the status route leaves manual_approval_status alone; a review that
\* does not approve keeps the approval the row had
MergedRowAfterSend(c, base) ==
  [status   |-> c.status,
   approval |-> IF c.op # "status" THEN c.status ELSE base.approval,
   message  |-> IF c.op = "review" THEN c.row.message ELSE base.message]
MergedRowAfterReview(c, base) ==
  [status   |-> c.status,
   approval |-> IF SetsApproval(c) /\ (c.op = "review" => c.status = "approved")
                  THEN c.status ELSE base.approval,
   message  |-> IF c.op = "review" THEN c.row.message ELSE base.message]
MergedRow(c, base) ==
  [status   |-> c.status,
   approval |-> IF SetsApproval(c) THEN c.status ELSE base.approval,
   message  |-> IF c.op = "review" THEN c.row.message ELSE base.message]

Select(s) ==
  LET c == calls[s] IN
  /\ c.pc = "select"
  /\ calls' = [calls EXCEPT ![s] = [c EXCEPT !.pc = "update",
                                             !.row = MergedRow(c, rows[c.key])]]
  /\ UNCHANGED <<rows, appends, ghosts>>

\* Every handler but a plain status change ends with an audit event.
Audits(c) == c.op # "status" \/ c.status = "sent"

Update(s) ==
  LET c == calls[s] IN
  /\ c.pc = "update"
  /\ rows' = [rows EXCEPT ![c.key] = c.row]
  /\ calls' = [calls EXCEPT ![s] = IF Audits(c) THEN [c EXCEPT !.pc = "audit"]
                                                ELSE Idle]
  /\ IF c.status = "approved"
       THEN /\ approved' = approved \cup {<<c.key, c.row.message>>}
            /\ licensed' = licensed \cup {c.key}
            /\ spent' = spent \ {c.key}
       ELSE /\ licensed' = IF SetsApproval(c) THEN licensed \ {c.key} ELSE licensed
            /\ UNCHANGED <<approved, spent>>
  /\ UNCHANGED <<appends, delivered>>

RecordAudit(s) ==
  /\ calls[s].pc = "audit"
  /\ calls' = [calls EXCEPT ![s] = Idle]
  /\ UNCHANGED <<rows, appends, ghosts>>

\* The process stops (restart, redeploy, lost database): the call is gone.
Crash(s) ==
  /\ calls[s] # Idle
  /\ calls' = [calls EXCEPT ![s] = Idle]
  /\ UNCHANGED <<rows, appends, ghosts>>

----------------------------------------------------------------------------
\* append_interaction_row.  The worker's payload has no manual_approval_status:
\* a first write, an activity retried after its commit, or a later run of the
\* workflow for the same candidate.  The API's payload, for a follow-up it
\* prepares (FollowUpPreparation), says "pending".
AppendRow(k, approval, text) ==
  /\ approval = "pending" => k \in FollowUps
  /\ appends[k] < MaxAppends
  /\ rows' = [rows EXCEPT ![k] = AppendedRow(approval, text)]
  /\ appends' = [appends EXCEPT ![k] = @ + 1]
  /\ UNCHANGED <<calls, ghosts>>

Handler(s) ==
  \/ \E k \in Keys : BeginSend(s, k)
  \/ \E k \in Keys, status \in Requested : BeginStatus(s, k, status)
  \/ \E k \in Keys, status \in Reviews, text \in Messages :
        BeginReview(s, k, status, text)
  \/ \E k \in Keys, status \in Reports : BeginExpandi(s, k, status)
  \/ SendAccepted(s) \/ SendUnconfirmed(s) \/ SendRefused(s) \/ SendManual(s)
  \/ Select(s) \/ Update(s) \/ RecordAudit(s)
  \/ Crash(s)

Next ==
  \/ \E s \in Servers : Handler(s)
  \/ \E k \in Keys, approval \in {"none", "pending"}, text \in Texts :
        AppendRow(k, approval, text)

Spec == Init /\ [][Next]_vars

----------------------------------------------------------------------------
(* Properties.                                                             *)

\* Whatever the handlers of several processes, repeated appends and crashes do
\* between reading a row and writing it back, every text the API hands to a
\* provider is a text somebody approved for that row: merging a stale payload
\* never pairs an approval with a text it was not given to.
DeliveredWasApproved == delivered \subseteq approved

\* With a single API process, a send is backed by an approval that no
\* recorded send, reply, provider report or rejecting review has used up or
\* withdrawn since: approving once never permits two recorded sends.
SendIsLicensed ==
  \A s \in Servers : calls[s].pc = "send" => calls[s].key \in licensed

\* With a single API process, a row that reads "sent" shows the text that was
\* delivered, as long as the row has not been appended a second time
\* (LinkedIn rows may also be reported or marked sent from outside).
SentShowsDelivered ==
  \A k \in Keys \ LinkedIn :
    rows[k].status = "sent" /\ appends[k] <= 1 =>
      <<k, rows[k].message>> \in delivered

\* api.py, "Message must be approved before send": a message somebody
\* discarded after its approval is not sent.
DiscardedIsNotSent ==
  \A s \in Servers : calls[s].pc = "send" => calls[s].row.status # "discarded"

\* docs/saas-architecture.md: every side effect carries an idempotency key,
\* so one approval leads to one delivery at most.
OneDeliveryPerApproval ==
  [][\A s \in Servers :
       SendAccepted(s) \/ SendUnconfirmed(s) => calls[s].key \notin spent]_vars

\* README.md, "Idempotencia": retries and replays of the worker's append do
\* not duplicate an interaction: one already sent is not opened again.
ReplayKeepsSent ==
  [][\A k \in Keys : appends'[k] # appends[k] /\ rows[k].status = "sent"
                        => rows'[k].status = "sent"]_vars

----------------------------------------------------------------------------
(* Inductive strengthenings: what a row, or a row held in memory, says     *)
(* about the approvals given so far.                                       *)

\* A row in which either flag reads "approved" carries an approved text; so
\* does the copy a send works from, and so does a merged row that keeps an
\* approval it read (one it grants itself is recorded when it is written).
ApprovedInv ==
  /\ \A k \in Keys : MaySend(rows[k]) => <<k, rows[k].message>> \in approved
  /\ \A s \in Servers :
       /\ calls[s].pc = "send" =>
            <<calls[s].key, calls[s].row.message>> \in approved
       /\ calls[s].pc = "update" =>
            /\ calls[s].row.status = calls[s].status
            /\ calls[s].row.approval = "approved" /\ calls[s].status # "approved" =>
                 <<calls[s].key, calls[s].row.message>> \in approved

\* The same for a single process and approvals still in force.
LicensedInv ==
  /\ \A k \in Keys : MaySend(rows[k]) => k \in licensed
  /\ \A s \in Servers :
       /\ calls[s].pc = "send" => calls[s].key \in licensed
       /\ calls[s].pc = "update" =>
            /\ calls[s].row.status = calls[s].status
            /\ SetsApproval(calls[s]) => calls[s].row.approval = calls[s].status
            /\ ~SetsApproval(calls[s]) /\ calls[s].row.approval = "approved" =>
                 calls[s].key \in licensed

\* A row comes to be by an append, and handlers work on rows that are there.
RowsInv ==
  /\ \A k \in Keys : appends[k] = 0 => rows[k] = NoRow
  /\ \A s \in Servers : calls[s] # Idle => appends[calls[s].key] # 0

\* Of SentShowsDelivered, for a single process and an e-mail row appended once:
\* the copy a send works from shows the row's own text, which is delivered by
\* the time the handler is to select and to write "sent".
ShownInv ==
  \A s \in Servers :
    calls[s] # Idle /\ calls[s].key \notin LinkedIn /\ appends[calls[s].key] <= 1 =>
      LET c == calls[s] IN
      /\ c.pc = "send" => c.row.message = rows[c.key].message
      /\ c.status = "sent" => c.op # "review"
      /\ c.pc = "select" /\ c.status = "sent" =>
           <<c.key, rows[c.key].message>> \in delivered
      /\ c.pc = "update" =>
           /\ c.row.status = c.status
           /\ c.status = "sent" => <<c.key, c.row.message>> \in delivered
=============================================================================
