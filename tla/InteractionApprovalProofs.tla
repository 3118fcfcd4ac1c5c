---------------------- MODULE InteractionApprovalProofs ----------------------
(***************************************************************************)
(* Theorems about InteractionApproval, for every set of keys, texts and    *)
(* API processes and every bound on the worker's appends.                  *)
(***************************************************************************)
EXTENDS InteractionApproval, TLAPS

----------------------------------------------------------------------------
(* Every value stays in its type.                                          *)

\* The row a handler merges is a row of the table.
LEMMA MergedRowType ==
  ASSUME NEW c \in Call, NEW base \in Row
  PROVE  MergedRow(c, base) \in Row
BY DEF MergedRow, Call, Row

\* The first step of a handler leaves every value in its type.
LEMMA BeginType ==
  ASSUME TypeOK, NEW s \in Servers, NEW k \in Keys,
         NEW pc \in {"send", "select"}, NEW op \in {"status", "review", "expandi"},
         NEW status \in Statuses, NEW row \in Row,
         Begin(s, pc, op, k, status, row)
  PROVE  TypeOK'
<1>1. [pc |-> pc, op |-> op, key |-> k, status |-> status, row |-> row] \in Call
  BY DEF Call
<1>2. QED
  BY <1>1 DEF TypeOK, Begin, ghosts

LEMMA NextType ==
  ASSUME TypeOK, [Next]_vars
  PROVE  TypeOK'
<1> USE KeysAssumption, InputsAssumption, BoundAssumption
<1>1. ASSUME NEW s \in Servers, NEW k \in Keys, BeginSend(s, k)
      PROVE  TypeOK'
  BY <1>1, BeginType DEF BeginSend, TypeOK, Statuses
<1>2. ASSUME NEW s \in Servers, NEW k \in Keys, NEW status \in Requested,
             BeginStatus(s, k, status)
      PROVE  TypeOK'
  BY <1>2, BeginType DEF BeginStatus, TypeOK, Statuses, RouteStatuses
<1>3. ASSUME NEW s \in Servers, NEW k \in Keys, NEW status \in Reviews,
             NEW text \in Messages, BeginReview(s, k, status, text)
      PROVE  TypeOK'
  <2>1. [rows[k] EXCEPT !.message = text] \in Row
    BY DEF TypeOK, Row, Texts
  <2>2. QED
    BY <1>3, <2>1, BeginType DEF BeginReview, Statuses, ReviewStatuses
<1>4. ASSUME NEW s \in Servers, NEW k \in Keys, NEW status \in Reports,
             BeginExpandi(s, k, status)
      PROVE  TypeOK'
  <2>1. status \in Statuses /\ rows[k] \in Row
    BY DEF Statuses, ExpandiStatuses, TypeOK
  <2>2. QED
    BY <1>4, <2>1, BeginType DEF BeginExpandi
<1>5. ASSUME NEW s \in Servers, SendAccepted(s) \/ SendUnconfirmed(s)
      PROVE  TypeOK'
  <2>1. calls[s] \in Call /\ calls[s].pc = "send"
    BY <1>5 DEF TypeOK, Idle, SendAccepted, SendUnconfirmed, SendDelivered
  <2>2. [calls[s] EXCEPT !.pc = "select"] \in Call
    BY <2>1 DEF Call
  <2>3. PICK next \in Call \cup {Idle} : SendDelivered(s, next)
    BY <1>5, <2>2 DEF SendAccepted, SendUnconfirmed
  <2>4. <<calls[s].key, calls[s].row.message>> \in Keys \X Texts
    BY <2>1 DEF Call, Row
  <2>5. QED
    BY <2>1, <2>3, <2>4 DEF SendDelivered, Deliver, TypeOK, Call
<1>6. ASSUME NEW s \in Servers, SendRefused(s) \/ Crash(s)
      PROVE  TypeOK'
  BY <1>6 DEF SendRefused, Crash, TypeOK, ghosts
<1>7. ASSUME NEW s \in Servers, SendManual(s)
      PROVE  TypeOK'
  <2>1. calls[s] \in Call
    BY <1>7 DEF TypeOK, Idle, SendManual
  <2>2. [calls[s] EXCEPT !.pc = "select"] \in Call
    BY <2>1 DEF Call
  <2>3. QED
    BY <1>7, <2>2 DEF SendManual, TypeOK, ghosts
<1>8. ASSUME NEW s \in Servers, Select(s)
      PROVE  TypeOK'
  <2>1. calls[s] \in Call
    BY <1>8 DEF TypeOK, Idle, Select
  <2>2. MergedRow(calls[s], rows[calls[s].key]) \in Row
    BY <2>1, MergedRowType DEF TypeOK, Call
  <2>3. [calls[s] EXCEPT !.pc = "update",
                         !.row = MergedRow(calls[s], rows[calls[s].key])] \in Call
    BY <2>1, <2>2 DEF Call
  <2>4. QED
    BY <1>8, <2>3 DEF Select, TypeOK, ghosts
<1>9. ASSUME NEW s \in Servers, Update(s)
      PROVE  TypeOK'
  <2>1. calls[s] \in Call
    BY <1>9 DEF TypeOK, Idle, Update
  <2>2. calls[s].key \in Keys /\ calls[s].row \in Row
        /\ <<calls[s].key, calls[s].row.message>> \in Keys \X Texts
    BY <2>1 DEF Call, Row
  <2>3. [calls[s] EXCEPT !.pc = "audit"] \in Call
    BY <2>1 DEF Call
  <2>4. QED
    BY <1>9, <2>2, <2>3 DEF Update, TypeOK
<1>10. ASSUME NEW s \in Servers, RecordAudit(s)
       PROVE  TypeOK'
  BY <1>10 DEF RecordAudit, TypeOK, ghosts
<1>11. ASSUME NEW k \in Keys, NEW approval \in {"none", "pending"}, NEW text \in Texts,
             AppendRow(k, approval, text)
       PROVE  TypeOK'
  <2>1. AppendedRow(approval, text) \in Row
    BY DEF AppendedRow, Row, Statuses
  <2>2. QED
    BY <1>11, <2>1 DEF AppendRow, TypeOK, ghosts
<1>12. CASE UNCHANGED vars
  BY <1>12 DEF TypeOK, vars
<1>13. QED
  BY <1>1, <1>2, <1>3, <1>4, <1>5, <1>6, <1>7, <1>8, <1>9, <1>10, <1>11, <1>12
     DEF Next, Handler

\* Type correctness of the approval model.
THEOREM TypeCorrect == Spec => []TypeOK
<1>1. Init => TypeOK
  BY BoundAssumption DEF Init, TypeOK, NoRow, Row, Texts
<1>2. TypeOK /\ [Next]_vars => TypeOK'
  BY NextType
<1>3. QED
  BY <1>1, <1>2, PTL DEF Spec

----------------------------------------------------------------------------
(* Only approved texts are delivered, whatever overlaps.                   *)

\* ApprovedInv is inductive, one step of Next at a time.
LEMMA ApprovedStep ==
  ASSUME TypeOK, ApprovedInv, [Next]_vars
  PROVE  ApprovedInv'
<1> USE KeysAssumption
<1>1. ASSUME NEW s \in Servers, NEW k \in Keys, BeginSend(s, k)
      PROVE  ApprovedInv'
  BY <1>1 DEF BeginSend, Begin, TypeOK, ApprovedInv, MaySend, Idle, ghosts
<1>2. ASSUME NEW s \in Servers, NEW k \in Keys, NEW op, NEW status, NEW row,
             Begin(s, "select", op, k, status, row)
      PROVE  ApprovedInv'
  BY <1>2 DEF Begin, TypeOK, ApprovedInv, MaySend, Idle, ghosts
<1>3. ASSUME NEW s \in Servers, SendAccepted(s) \/ SendUnconfirmed(s)
      PROVE  ApprovedInv'
  <2>1. calls[s] \in Call /\ calls[s].pc = "send"
    BY <1>3 DEF TypeOK, Idle, SendAccepted, SendUnconfirmed, SendDelivered
  <2>2. PICK next : /\ SendDelivered(s, next)
                    /\ next.pc \notin {"send", "update"}
    BY <1>3, <2>1 DEF SendAccepted, SendUnconfirmed, Idle, Call
  <2>3. QED
    BY <2>2 DEF SendDelivered, TypeOK, ApprovedInv, MaySend
<1>4. ASSUME NEW s \in Servers,
             SendRefused(s) \/ Crash(s) \/ SendManual(s) \/ RecordAudit(s)
      PROVE  ApprovedInv'
  BY <1>4 DEF SendRefused, Crash, SendManual, RecordAudit, TypeOK, ApprovedInv,
              MaySend, Idle, Call, ghosts
<1>5. ASSUME NEW s \in Servers, Select(s)
      PROVE  ApprovedInv'
  <2> DEFINE c == calls[s]
             base == rows[c.key]
             next == [c EXCEPT !.pc = "update", !.row = MergedRow(c, base)]
  <2>1. c \in Call /\ c.pc = "select" /\ base \in Row
    BY <1>5 DEF TypeOK, Idle, Select, Call
  <2>2. /\ next.pc = "update" /\ next.key = c.key /\ next.status = c.status
        /\ next.row = MergedRow(c, base)
    BY <2>1 DEF Call
  <2>3. MergedRow(c, base).status = c.status
    BY DEF MergedRow
  <2>4. ASSUME MergedRow(c, base).approval = "approved", c.status # "approved"
        PROVE  <<c.key, MergedRow(c, base).message>> \in approved
    <3>1. ~SetsApproval(c) /\ base.approval = "approved"
      BY <2>4 DEF MergedRow
    <3>2. MergedRow(c, base).message = base.message
      BY <3>1 DEF MergedRow, SetsApproval
    <3>3. c.key \in Keys /\ MaySend(base)
      BY <2>1, <3>1 DEF Call, MaySend
    <3>4. QED
      BY <3>2, <3>3 DEF ApprovedInv
  <2>5. /\ calls' = [calls EXCEPT ![s] = next]
        /\ UNCHANGED <<rows, approved>>
    BY <1>5 DEF Select, ghosts
  <2>6. QED
    BY <2>2, <2>3, <2>4, <2>5 DEF TypeOK, ApprovedInv, MaySend
<1>6. ASSUME NEW s \in Servers, Update(s)
      PROVE  ApprovedInv'
  <2> DEFINE c == calls[s]
             next == IF Audits(c) THEN [c EXCEPT !.pc = "audit"] ELSE Idle
  <2>1. c \in Call /\ c.pc = "update" /\ c.key \in Keys
    BY <1>6 DEF TypeOK, Idle, Update, Call
  <2>2. /\ rows' = [rows EXCEPT ![c.key] = c.row]
        /\ approved \subseteq approved'
        /\ c.status = "approved" => <<c.key, c.row.message>> \in approved'
    BY <1>6 DEF Update
  <2>3. calls' = [calls EXCEPT ![s] = next] /\ next.pc \in {"audit", "idle"}
    BY <1>6, <2>1 DEF Update, Idle, Call
  <2>4. MaySend(c.row) => <<c.key, c.row.message>> \in approved'
    BY <2>1, <2>2 DEF MaySend, ApprovedInv
  <2>5. ASSUME NEW k \in Keys
        PROVE  MaySend(rows'[k]) => <<k, rows'[k].message>> \in approved'
    BY <2>2, <2>4, <2>1 DEF TypeOK, ApprovedInv, MaySend
  <2>6. QED
    <3> HIDE DEF next
    <3>1. QED
      BY <2>2, <2>3, <2>5 DEF TypeOK, ApprovedInv
<1>7. ASSUME NEW k \in Keys, NEW approval \in {"none", "pending"}, NEW text \in Texts,
             AppendRow(k, approval, text)
      PROVE  ApprovedInv'
  BY <1>7 DEF AppendRow, AppendedRow, TypeOK, ApprovedInv, MaySend, ghosts
<1>8. CASE UNCHANGED vars
  BY <1>8 DEF ApprovedInv, MaySend, vars
<1>9. QED
  BY <1>1, <1>2, <1>3, <1>4, <1>5, <1>6, <1>7, <1>8
     DEF Next, Handler, BeginStatus, BeginReview, BeginExpandi

\* DeliveredWasApproved, for any number of processes, rows and appends: the
\* texts handed to providers are among the approved ones.
THEOREM OnlyApprovedDelivered == Spec => []DeliveredWasApproved
<1> DEFINE IInv == TypeOK /\ ApprovedInv /\ DeliveredWasApproved
<1>1. Init => IInv
  <2>1. Init => TypeOK
    BY BoundAssumption DEF Init, TypeOK, NoRow, Row, Texts
  <2>2. QED
    BY <2>1 DEF Init, ApprovedInv, DeliveredWasApproved, MaySend, NoRow, Idle
<1>2. IInv /\ [Next]_vars => IInv'
  <2> SUFFICES ASSUME IInv, [Next]_vars
               PROVE  DeliveredWasApproved'
    BY NextType, ApprovedStep
  <2>1. approved \subseteq approved'
    BY DEF Next, Handler, BeginSend, BeginStatus, BeginReview, BeginExpandi,
           Begin, SendAccepted, SendUnconfirmed, SendDelivered, SendRefused,
           SendManual, Select, Update, RecordAudit, Crash, AppendRow, vars, ghosts
  <2>2. CASE \E s \in Servers : SendAccepted(s) \/ SendUnconfirmed(s)
    BY <2>2 DEF SendAccepted, SendUnconfirmed, SendDelivered, Deliver,
                ApprovedInv, DeliveredWasApproved
  <2>3. CASE UNCHANGED delivered
    BY <2>1, <2>3 DEF DeliveredWasApproved
  <2>4. QED
    BY <2>2, <2>3
    DEF Next, Handler, BeginSend, BeginStatus, BeginReview, BeginExpandi,
        Begin, SendRefused, SendManual, Select, Update, RecordAudit, Crash, AppendRow, vars, ghosts
<1>3. QED
  BY <1>1, <1>2, PTL DEF Spec

----------------------------------------------------------------------------
(* A single API process: an approval is used up by the send it permits.    *)

SingleServer == \A s, t \in Servers : s = t

\* LicensedInv is inductive when the API is one process.
LEMMA LicensedStep ==
  ASSUME SingleServer, TypeOK, LicensedInv, [Next]_vars
  PROVE  LicensedInv'
<1>1. ASSUME NEW s \in Servers, NEW k \in Keys, BeginSend(s, k)
      PROVE  LicensedInv'
  BY <1>1 DEF BeginSend, Begin, TypeOK, LicensedInv, MaySend, Idle, ghosts
<1>2. ASSUME NEW s \in Servers, NEW k \in Keys, NEW op, NEW status, NEW row,
             Begin(s, "select", op, k, status, row)
      PROVE  LicensedInv'
  BY <1>2 DEF Begin, TypeOK, LicensedInv, MaySend, Idle, ghosts
<1>3. ASSUME NEW s \in Servers, SendAccepted(s) \/ SendUnconfirmed(s)
      PROVE  LicensedInv'
  <2>1. calls[s] \in Call
    BY <1>3 DEF TypeOK, Idle, SendAccepted, SendUnconfirmed, SendDelivered
  <2>2. PICK next : /\ SendDelivered(s, next)
                    /\ next.pc \notin {"send", "update"}
    BY <1>3, <2>1 DEF SendAccepted, SendUnconfirmed, Idle, Call
  <2>3. QED
    BY <2>2 DEF SendDelivered, TypeOK, LicensedInv, MaySend
<1>4. ASSUME NEW s \in Servers,
             SendRefused(s) \/ Crash(s) \/ SendManual(s) \/ RecordAudit(s)
      PROVE  LicensedInv'
  BY <1>4 DEF SendRefused, Crash, SendManual, RecordAudit, TypeOK, LicensedInv,
              MaySend, Idle, Call, ghosts
<1>5. ASSUME NEW s \in Servers, Select(s)
      PROVE  LicensedInv'
  <2> DEFINE c == calls[s]
             base == rows[c.key]
             next == [c EXCEPT !.pc = "update", !.row = MergedRow(c, base)]
  <2>1. c \in Call /\ c.key \in Keys
    BY <1>5 DEF TypeOK, Idle, Select, Call
  <2>2. /\ next.pc = "update" /\ next.key = c.key /\ next.status = c.status
        /\ next.row = MergedRow(c, base)
        /\ SetsApproval(next) <=> SetsApproval(c)
    BY <2>1 DEF Call, SetsApproval
  <2>3. /\ MergedRow(c, base).status = c.status
        /\ SetsApproval(c) => MergedRow(c, base).approval = c.status
        /\ ~SetsApproval(c) => MergedRow(c, base).approval = base.approval
    BY DEF MergedRow
  <2>4. base.approval = "approved" => c.key \in licensed
    BY <2>1 DEF LicensedInv, MaySend
  <2>5. /\ calls' = [calls EXCEPT ![s] = next]
        /\ UNCHANGED <<rows, licensed>>
    BY <1>5 DEF Select, ghosts
  <2> HIDE DEF next, base, c
  <2>6. \A t \in Servers : calls'[t] = next
    BY <2>5 DEF SingleServer, TypeOK
  <2>7. QED
    BY <2>2, <2>3, <2>4, <2>5, <2>6 DEF LicensedInv
<1>6. ASSUME NEW s \in Servers, Update(s)
      PROVE  LicensedInv'
  <2> DEFINE c == calls[s]
             next == IF Audits(c) THEN [c EXCEPT !.pc = "audit"] ELSE Idle
  <2>1. c \in Call /\ c.pc = "update" /\ c.key \in Keys
    BY <1>6 DEF TypeOK, Idle, Update, Call
  <2>2. /\ rows' = [rows EXCEPT ![c.key] = c.row]
        /\ calls' = [calls EXCEPT ![s] = next]
        /\ licensed' = IF c.status = "approved" THEN licensed \cup {c.key}
                       ELSE IF SetsApproval(c) THEN licensed \ {c.key} ELSE licensed
    BY <1>6 DEF Update
  <2>3. MaySend(c.row) => c.key \in licensed'
    BY <2>1, <2>2 DEF MaySend, LicensedInv
  <2>4. \A k \in Keys : MaySend(rows'[k]) => k \in licensed'
    BY <2>1, <2>2, <2>3 DEF TypeOK, LicensedInv
  <2>5. next.pc \notin {"send", "update"}
    BY <2>1 DEF Idle, Call
  <2> HIDE DEF next, c
  <2>6. \A t \in Servers : calls'[t] = next
    BY <2>2 DEF SingleServer, TypeOK
  <2>7. QED
    BY <2>4, <2>5, <2>6 DEF LicensedInv
<1>7. ASSUME NEW k \in Keys, NEW approval \in {"none", "pending"}, NEW text \in Texts,
             AppendRow(k, approval, text)
      PROVE  LicensedInv'
  BY <1>7 DEF AppendRow, AppendedRow, TypeOK, LicensedInv, MaySend, SetsApproval, ghosts
<1>8. CASE UNCHANGED vars
  BY <1>8 DEF LicensedInv, MaySend, SetsApproval, vars
<1>9. QED
  BY <1>1, <1>2, <1>3, <1>4, <1>5, <1>6, <1>7, <1>8
     DEF Next, Handler, BeginStatus, BeginReview, BeginExpandi

\* SendIsLicensed, for a single API process and any number of rows, texts and
\* worker appends: no approval backs two recorded sends.
THEOREM SendsLicensed ==
  ASSUME SingleServer
  PROVE  Spec => []SendIsLicensed
<1>1. Init => LicensedInv
  BY DEF Init, LicensedInv, MaySend, NoRow, Idle
<1>2. TypeOK /\ LicensedInv /\ [Next]_vars => LicensedInv'
  BY LicensedStep
<1>3. LicensedInv => SendIsLicensed
  BY DEF LicensedInv, SendIsLicensed
<1>4. QED
  BY <1>1, <1>2, <1>3, TypeCorrect, PTL DEF Spec
----------------------------------------------------------------------------
(* Rows come from appends.                                                 *)

\* Handlers neither append nor touch a row that is not there.
LEMMA HandlerRows ==
  ASSUME TypeOK, RowsInv, NEW s \in Servers, Handler(s)
  PROVE  RowsInv' /\ UNCHANGED appends
<1>1. ASSUME NEW k \in Keys, NEW pc, NEW op, NEW status, NEW row,
             Begin(s, pc, op, k, status, row)
      PROVE  RowsInv' /\ UNCHANGED appends
  BY <1>1 DEF Begin, RowsInv, TypeOK, ghosts
<1>2. ASSUME SendAccepted(s) \/ SendUnconfirmed(s)
      PROVE  RowsInv' /\ UNCHANGED appends
  <2>1. calls[s] \in Call /\ calls[s] # Idle
    BY <1>2 DEF TypeOK, Idle, SendAccepted, SendUnconfirmed, SendDelivered
  <2>2. PICK next : /\ SendDelivered(s, next)
                    /\ next = Idle \/ next.key = calls[s].key
    BY <1>2, <2>1 DEF SendAccepted, SendUnconfirmed, Call
  <2>3. QED
    BY <2>1, <2>2 DEF SendDelivered, RowsInv, TypeOK
<1>3. ASSUME SendRefused(s) \/ SendManual(s) \/ RecordAudit(s) \/ Crash(s)
      PROVE  RowsInv' /\ UNCHANGED appends
  BY <1>3 DEF SendRefused, SendManual, RecordAudit, Crash, RowsInv, TypeOK, Call,
              Idle, ghosts
<1>4. ASSUME Select(s)
      PROVE  RowsInv' /\ UNCHANGED appends
  <2> DEFINE next == [calls[s] EXCEPT !.pc = "update",
                        !.row = MergedRow(calls[s], rows[calls[s].key])]
  <2>1. calls[s] \in Call /\ calls[s] # Idle
    BY <1>4 DEF TypeOK, Idle, Select
  <2>2. next.key = calls[s].key
    BY <2>1 DEF Call
  <2>3. /\ calls' = [calls EXCEPT ![s] = next]
        /\ UNCHANGED <<rows, appends>>
    BY <1>4 DEF Select
  <2> HIDE DEF next
  <2>4. QED
    BY <2>1, <2>2, <2>3 DEF RowsInv, TypeOK
<1>5. ASSUME Update(s)
      PROVE  RowsInv' /\ UNCHANGED appends
  <2> DEFINE next == IF Audits(calls[s]) THEN [calls[s] EXCEPT !.pc = "audit"] ELSE Idle
  <2>1. calls[s] \in Call /\ calls[s] # Idle /\ calls[s].key \in Keys
    BY <1>5 DEF TypeOK, Idle, Update, Call
  <2>2. next = Idle \/ next.key = calls[s].key
    BY <2>1 DEF Call
  <2>3. /\ calls' = [calls EXCEPT ![s] = next]
        /\ rows' = [rows EXCEPT ![calls[s].key] = calls[s].row]
        /\ UNCHANGED appends
    BY <1>5 DEF Update
  <2> HIDE DEF next
  <2>4. QED
    BY <2>1, <2>2, <2>3 DEF RowsInv, TypeOK
<1>6. QED
  BY <1>1, <1>2, <1>3, <1>4, <1>5
     DEF Handler, BeginSend, BeginStatus, BeginReview, BeginExpandi

LEMMA AppendRowRows ==
  ASSUME TypeOK, RowsInv, NEW k \in Keys, NEW approval, NEW text,
         AppendRow(k, approval, text)
  PROVE  RowsInv'
BY BoundAssumption DEF AppendRow, RowsInv, TypeOK

LEMMA RowsStep ==
  ASSUME TypeOK, RowsInv, [Next]_vars
  PROVE  RowsInv'
<1>1. CASE UNCHANGED vars
  BY <1>1 DEF vars, RowsInv
<1>2. QED
  BY <1>1, HandlerRows, AppendRowRows DEF Next

----------------------------------------------------------------------------
(* A single API process: the row that reads "sent" shows what was sent.    *)

\* ShownInv and the property itself are inductive together.
LEMMA ShownStep ==
  ASSUME SingleServer, TypeOK, RowsInv, ShownInv, SentShowsDelivered, [Next]_vars
  PROVE  ShownInv' /\ SentShowsDelivered'
<1> USE KeysAssumption
<1>1. ASSUME NEW s \in Servers, NEW k \in Keys, BeginSend(s, k)
      PROVE  ShownInv' /\ SentShowsDelivered'
  <2> DEFINE call == [pc |-> "send", op |-> "status", key |-> k,
                      status |-> "sent", row |-> rows[k]]
  <2>1. calls' = [calls EXCEPT ![s] = call] /\ UNCHANGED <<rows, appends, delivered>>
    BY <1>1 DEF BeginSend, Begin, ghosts
  <2>2. \A t \in Servers : calls'[t] = call
    BY <2>1 DEF SingleServer, TypeOK
  <2>3. QED
    BY <2>1, <2>2 DEF ShownInv, SentShowsDelivered
<1>2. ASSUME NEW s \in Servers, NEW k \in Keys, NEW op, NEW status, NEW row,
             Begin(s, "select", op, k, status, row),
             status = "sent" => k \in LinkedIn
      PROVE  ShownInv' /\ SentShowsDelivered'
  <2> DEFINE call == [pc |-> "select", op |-> op, key |-> k, status |-> status, row |-> row]
  <2>1. calls' = [calls EXCEPT ![s] = call] /\ UNCHANGED <<rows, appends, delivered>>
    BY <1>2 DEF Begin, ghosts
  <2>2. \A t \in Servers : calls'[t] = call
    BY <2>1 DEF SingleServer, TypeOK
  <2>3. QED
    BY <1>2, <2>1, <2>2 DEF ShownInv, SentShowsDelivered
<1>3. ASSUME NEW s \in Servers, SendAccepted(s) \/ SendUnconfirmed(s)
      PROVE  ShownInv' /\ SentShowsDelivered'
  <2> DEFINE c == calls[s]
  <2>1. c \in Call /\ c.pc = "send" /\ c # Idle
    BY <1>3 DEF TypeOK, Idle, SendAccepted, SendUnconfirmed, SendDelivered
  <2>2. PICK next : /\ SendDelivered(s, next)
                    /\ \/ next = Idle
                       \/ /\ next.pc = "select" /\ next.key = c.key
                          /\ next.status = c.status /\ next.op = c.op
    BY <1>3, <2>1 DEF SendAccepted, SendUnconfirmed, Call
  <2>3. /\ calls' = [calls EXCEPT ![s] = next]
        /\ delivered' = delivered \cup {<<c.key, c.row.message>>}
        /\ UNCHANGED <<rows, appends>>
    BY <2>2 DEF SendDelivered, Deliver
  <2> HIDE DEF c
  <2>4. \A t \in Servers : calls'[t] = next
    BY <2>3 DEF SingleServer, TypeOK
  <2>5. c.key \notin LinkedIn /\ appends[c.key] <= 1 =>
          /\ <<c.key, rows[c.key].message>> \in delivered'
          /\ c.status = "sent" => c.op # "review"
    BY <2>1, <2>3 DEF ShownInv, c
  <2>6. ShownInv'
    BY <2>2, <2>3, <2>4, <2>5 DEF ShownInv
  <2>7. QED
    BY <2>3, <2>6 DEF SentShowsDelivered
<1>4. ASSUME NEW s \in Servers, SendRefused(s) \/ Crash(s) \/ RecordAudit(s)
      PROVE  ShownInv' /\ SentShowsDelivered'
  <2>1. calls' = [calls EXCEPT ![s] = Idle] /\ UNCHANGED <<rows, appends, delivered>>
    BY <1>4 DEF SendRefused, Crash, RecordAudit, ghosts
  <2>2. \A t \in Servers : calls'[t] = Idle
    BY <2>1 DEF SingleServer, TypeOK
  <2>3. QED
    BY <2>1, <2>2 DEF ShownInv, SentShowsDelivered
<1>5. ASSUME NEW s \in Servers, SendManual(s)
      PROVE  ShownInv' /\ SentShowsDelivered'
  <2> DEFINE next == [calls[s] EXCEPT !.pc = "select"]
  <2>1. calls[s] \in Call
    BY <1>5 DEF TypeOK, Idle, SendManual
  <2>2. next.key \in LinkedIn
    BY <1>5, <2>1 DEF SendManual, Call
  <2>3. calls' = [calls EXCEPT ![s] = next] /\ UNCHANGED <<rows, appends, delivered>>
    BY <1>5 DEF SendManual, ghosts
  <2> HIDE DEF next
  <2>4. \A t \in Servers : calls'[t] = next
    BY <2>3 DEF SingleServer, TypeOK
  <2>5. QED
    BY <2>2, <2>3, <2>4 DEF ShownInv, SentShowsDelivered
<1>6. ASSUME NEW s \in Servers, Select(s)
      PROVE  ShownInv' /\ SentShowsDelivered'
  <2> DEFINE c == calls[s]
             merged == MergedRow(c, rows[c.key])
             next == [c EXCEPT !.pc = "update", !.row = merged]
  <2>1. c \in Call /\ c.pc = "select" /\ c # Idle
    BY <1>6 DEF TypeOK, Idle, Select
  <2>2. /\ next.pc = "update" /\ next.key = c.key /\ next.status = c.status
        /\ next.op = c.op /\ next.row = merged
    BY <2>1 DEF Call
  <2>3. /\ merged.status = c.status
        /\ c.op # "review" => merged.message = rows[c.key].message
    BY DEF MergedRow
  <2>4. calls' = [calls EXCEPT ![s] = next] /\ UNCHANGED <<rows, appends, delivered>>
    BY <1>6 DEF Select, ghosts
  <2>5. c.key \notin LinkedIn /\ appends[c.key] <= 1 /\ c.status = "sent" =>
          /\ <<c.key, rows[c.key].message>> \in delivered
          /\ c.op # "review"
    BY <2>1 DEF ShownInv
  <2> HIDE DEF next, merged, c
  <2>6. \A t \in Servers : calls'[t] = next
    BY <2>4 DEF SingleServer, TypeOK
  <2>7. QED
    BY <2>2, <2>3, <2>4, <2>5, <2>6 DEF ShownInv, SentShowsDelivered
<1>7. ASSUME NEW s \in Servers, Update(s)
      PROVE  ShownInv' /\ SentShowsDelivered'
  <2> DEFINE c == calls[s]
             next == IF Audits(c) THEN [c EXCEPT !.pc = "audit"] ELSE Idle
  <2>1. c \in Call /\ c.pc = "update" /\ c # Idle /\ c.key \in Keys
    BY <1>7 DEF TypeOK, Idle, Update, Call
  <2>2. /\ rows' = [rows EXCEPT ![c.key] = c.row]
        /\ calls' = [calls EXCEPT ![s] = next]
        /\ UNCHANGED <<appends, delivered>>
    BY <1>7 DEF Update
  <2>3. next = Idle \/ (next.pc = "audit" /\ next.key = c.key
                        /\ next.status = c.status /\ next.op = c.op)
    BY <2>1 DEF Call
  <2>4. c.key \notin LinkedIn /\ appends[c.key] <= 1 =>
          /\ c.row.status = "sent" => <<c.key, c.row.message>> \in delivered
          /\ c.status = "sent" => c.op # "review"
    BY <2>1 DEF ShownInv
  <2> HIDE DEF next, c
  <2>5. \A t \in Servers : calls'[t] = next
    BY <2>2 DEF SingleServer, TypeOK
  <2>6. ShownInv'
    BY <2>2, <2>3, <2>4, <2>5 DEF ShownInv
  <2>7. QED
    BY <2>1, <2>2, <2>4, <2>6 DEF SentShowsDelivered, TypeOK
<1>8. ASSUME NEW k \in Keys, NEW approval \in {"none", "pending"}, NEW text \in Texts,
             AppendRow(k, approval, text)
      PROVE  ShownInv' /\ SentShowsDelivered'
  <2>1. /\ rows' = [rows EXCEPT ![k] = AppendedRow(approval, text)]
        /\ appends' = [appends EXCEPT ![k] = @ + 1]
        /\ UNCHANGED <<calls, delivered>>
    BY <1>8 DEF AppendRow, ghosts
  <2>2. AppendedRow(approval, text).status # "sent"
    BY DEF AppendedRow
  <2>3. \A s \in Servers : calls[s] # Idle => calls[s].key \in Keys
    BY DEF TypeOK, Call
  <2>4. ASSUME NEW s \in Servers, calls[s] # Idle, appends'[calls[s].key] <= 1
        PROVE  /\ calls[s].key # k
               /\ appends'[calls[s].key] = appends[calls[s].key]
               /\ rows'[calls[s].key] = rows[calls[s].key]
    BY <2>1, <2>3, <2>4, BoundAssumption DEF TypeOK, RowsInv
  <2>5. ShownInv'
    BY <2>1, <2>4 DEF ShownInv
  <2>6. QED
    BY <2>1, <2>2, <2>5 DEF SentShowsDelivered, TypeOK
<1>9. CASE UNCHANGED vars
  BY <1>9 DEF ShownInv, SentShowsDelivered, vars
<1>10. ASSUME NEW s \in Servers, NEW k \in Keys, NEW status \in Reviews, NEW text \in Messages,
              BeginReview(s, k, status, text)
       PROVE  ShownInv' /\ SentShowsDelivered'
  BY <1>2, <1>10, InputsAssumption DEF BeginReview, ReviewStatuses
<1>11. QED
  BY <1>1, <1>2, <1>3, <1>4, <1>5, <1>6, <1>7, <1>8, <1>9, <1>10
     DEF Next, Handler, BeginStatus, BeginExpandi

\* SentShowsDelivered, for a single API process and any number of rows and
\* texts: an e-mail row appended once that reads "sent" shows what was sent.
THEOREM SentRowsShowDelivered ==
  ASSUME SingleServer
  PROVE  Spec => []SentShowsDelivered
<1>1. Init => RowsInv /\ ShownInv /\ SentShowsDelivered
  BY DEF Init, RowsInv, ShownInv, SentShowsDelivered, NoRow, Idle
<1>2. /\ TypeOK /\ RowsInv /\ ShownInv /\ SentShowsDelivered /\ [Next]_vars
      => RowsInv' /\ ShownInv' /\ SentShowsDelivered'
  BY RowsStep, ShownStep
<1>3. QED
  BY <1>1, <1>2, TypeCorrect, PTL DEF Spec
=============================================================================
