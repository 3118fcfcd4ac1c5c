-------------------------- MODULE InteractionStore --------------------------
(***************************************************************************)
(* The rows of the table `interactions`, as the API and the worker see     *)
(* them: one row per outreach message to a candidate (first contact or     *)
(* follow-up, by e-mail or LinkedIn).  A row is named by its               *)
(* idempotency_key: the unique index (tenant_id, idempotency_key) keeps at *)
(* most one row per key and rows are never deleted, so a key and the row's *)
(* generated id name the same thing.                                       *)
(*                                                                         *)
(* Of a row we keep the column `status` and, of payload_json, the field    *)
(* manual_approval_status and the text a send would use (message and       *)
(* message_sent, which every writer replaces together).  payload_json's    *)
(* own copy of the status is written with the column and left out.         *)
(***************************************************************************)
CONSTANTS Messages,   \* texts a row may carry
          NoMessage   \* a payload without any text

ASSUME MessagesAssumption == NoMessage \notin Messages

Statuses ==
  {"draft", "pending", "approved", "sent", "replied", "closed", "paused",
   "discarded", "failed"}

\* The statuses POST /v1/interactions/{id}/status accepts.
RouteStatuses == Statuses \ {"failed"}

\* The statuses POST /v1/interactions/{id}/review accepts.
ReviewStatuses == {"draft", "pending", "approved"}

\* What a LinkedIn provider report is normalised to.
ExpandiStatuses == {"sent", "replied", "failed", "paused"}

Texts == Messages \cup {NoMessage}

\* "absent": no row has this key yet; "none": no manual_approval_status.
Row == [status   : Statuses \cup {"absent"},
        approval : Statuses \cup {"none"},
        message  : Texts]

NoRow == [status |-> "absent", approval |-> "none", message |-> NoMessage]

\* append_interaction_row: whether it inserts or hits the unique index, the
\* status and the whole payload are the new ones.
AppendedRowWithoutDefault(approval, message) ==   \* mutant: no default status
  [status |-> "none", approval |-> approval, message |-> message]
AppendedRow(approval, message) ==
  [status |-> "pending", approval |-> approval, message |-> message]

\* The guard of the status route before a send.
MaySend(row) == row.status = "approved" \/ row.approval = "approved"
=============================================================================
