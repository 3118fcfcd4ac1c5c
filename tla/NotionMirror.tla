---------------------------- MODULE NotionMirror ----------------------------
(***************************************************************************)
(* The mirror of Postgres in Notion.  Each persistence activity of the     *)
(* worker commits its row and then, outside that transaction, looks in     *)
(* Notion for the page of the row, and writes it or creates one.           *)
(*                                                                         *)
(* Any of these calls can fail after it took effect; the activity is then  *)
(* performed again from the start, or the run fails.  An attempt that      *)
(* timed out leaves a thread behind which goes on.  Two runs may write the *)
(* same row.  So a mirroring is a thread, several may have one record, and *)
(* nothing orders them.  A request that takes effect only after its client *)
(* gave up on it (20 seconds) is a thread still at its last step.          *)
(*                                                                         *)
(* The columns of a row and the properties of a page are abstracted to a   *)
(* content; the 2000 characters a property may have are left out.          *)
(***************************************************************************)
EXTENDS Naturals, Sequences

CONSTANTS
  Records,     \* what pages are looked up by, each of a kind
  Contents,
  Mirrorings,  \* threads performing persistence activities
  MaxPages,    \* bound: pages a record may come to have
  NoContent

\* The records mirrored, and what the sync_* functions look their pages up by:
\* an id of the attempt's payload or the id of the row it has just written.
KeyOf == [tenant |-> "tenant_id", candidate |-> "candidate_id", workflow_run |-> "run_id",
          interaction |-> "row", audit_event |-> "row"]

ASSUME MirrorAssumption ==
  /\ Records \subseteq [kind : DOMAIN KeyOf, id : STRING]
  /\ MaxPages \in Nat /\ NoContent \notin Contents

VARIABLES
  rows,        \* record -> the content last committed to Postgres
  pages,       \* record -> its pages in Notion, in order of creation
  mirrorings,  \* what each thread is doing
  \* For the properties only:
  raced,       \* records two threads were at between a commit and its page
  stale        \* records whose last commit did not get as far as the page

mvars == <<rows, pages, mirrorings, raced, stale>>

Asleep == [pc |-> "asleep"]
Mirroring == [pc : {"commit", "find", "create", "update"}, record : Records,
              content : Contents, page : Nat]

MirrorTypeOK ==
  /\ rows \in [Records -> Contents \cup {NoContent}]
  /\ pages \in [Records -> Seq(Contents)]
  /\ mirrorings \in [Mirrorings -> Mirroring \cup {Asleep}]
  /\ raced \subseteq Records /\ stale \subseteq Records

MirrorInit ==
  /\ rows = [r \in Records |-> NoContent]
  /\ pages = [r \in Records |-> <<>>]
  /\ mirrorings = [t \in Mirrorings |-> Asleep]
  /\ raced = {} /\ stale = {}

----------------------------------------------------------------------------
\* Threads that have committed the record's row and not written its page.
Behind(r) == {t \in Mirrorings : /\ mirrorings[t].pc \in {"find", "create", "update"}
                                 /\ mirrorings[t].record = r}

\* An attempt of a persistence activity: the first, a retry, another run's.
Perform(t, r, c) ==
  /\ mirrorings[t] = Asleep
  /\ mirrorings' = [mirrorings EXCEPT ![t] =
       [pc |-> "commit", record |-> r, content |-> c, page |-> 0]]
  /\ UNCHANGED <<rows, pages, raced, stale>>

\* The other functions upsert; append_audit_event inserts another row each
\* time, and its id makes a record of its own.
InsertsAnew(record) == record.kind = "audit_event"

CommitRow(t) ==
  LET m == mirrorings[t] IN
  /\ m.pc = "commit"
  /\ InsertsAnew(m.record) => rows[m.record] = NoContent
  /\ rows' = [rows EXCEPT ![m.record] = m.content]
  /\ mirrorings' = [mirrorings EXCEPT ![t].pc = "find"]
  /\ raced' = IF Behind(m.record) = {} THEN raced ELSE raced \cup {m.record}
  /\ stale' = stale \cup {m.record}
  /\ UNCHANGED pages

\* _find_page_id: the first page of those with the key, in whatever order.
FindByTitle(t) ==   \* mutant: what it looks for is not the record's key
  /\ mirrorings[t].pc = "find"
  /\ mirrorings' = [mirrorings EXCEPT ![t].pc = "create"]
  /\ UNCHANGED <<rows, pages, raced, stale>>
FindPage(t) ==
  LET m == mirrorings[t] IN
  /\ m.pc = "find"
  /\ \/ \E p \in DOMAIN pages[m.record] :
          mirrorings' = [mirrorings EXCEPT ![t].pc = "update", ![t].page = p]
     \/ /\ pages[m.record] = <<>>
        /\ mirrorings' = [mirrorings EXCEPT ![t].pc = "create"]
  /\ UNCHANGED <<rows, pages, raced, stale>>

\* The write took effect; whether the answer was lost makes no difference here.
Written(t, r) ==
  /\ mirrorings' = [mirrorings EXCEPT ![t] = Asleep]
  /\ stale' = stale \ {r}
  /\ UNCHANGED <<rows, raced>>

CreatePage(t) ==
  LET m == mirrorings[t] IN
  /\ m.pc = "create" /\ Len(pages[m.record]) < MaxPages
  /\ pages' = [pages EXCEPT ![m.record] = Append(@, m.content)]
  /\ Written(t, m.record)

Left(page, content) == page   \* mutant: a page that exists is left as it is
Patched(page, content) == content

UpdatePage(t) ==
  LET m == mirrorings[t] IN
  /\ m.pc = "update"
  /\ pages' = [pages EXCEPT ![m.record][m.page] = Patched(@, m.content)]
  /\ Written(t, m.record)

\* A call that failed, or the worker stopped.
Break(t) ==
  /\ mirrorings[t] # Asleep
  /\ mirrorings' = [mirrorings EXCEPT ![t] = Asleep]
  /\ UNCHANGED <<rows, pages, raced, stale>>

Mirror(t) ==
  \/ \E r \in Records, c \in Contents : Perform(t, r, c)
  \/ CommitRow(t) \/ FindPage(t) \/ CreatePage(t) \/ UpdatePage(t) \/ Break(t)

MirrorNext == \E t \in Mirrorings : Mirror(t)

MirrorSpec == MirrorInit /\ [][MirrorNext]_mvars

----------------------------------------------------------------------------
(* Properties.                                                             *)

\* Failures, lost answers and retries never give a record a second page, nor
\* a page without a row; only threads that overlapped between their commits
\* and their pages can.
OnePage ==
  \A r \in Records :
    /\ r \notin raced => Len(pages[r]) <= 1
    /\ pages[r] # <<>> => rows[r] # NoContent

\* Once an attempt got through, the page shows the row as it is now; it keeps
\* doing so until the row is committed again.
PageShowsRow ==
  \A r \in Records :
    r \notin raced \cup stale /\ rows[r] # NoContent => pages[r] = <<rows[r]>>

----------------------------------------------------------------------------
(* Inductive strengthening.                                                *)

\* A thread behind its commit is alone with its record, and knows what is in
\* Notion and in Postgres, unless the record was raced for.
MirroringsInv ==
  \A t \in Mirrorings :
    LET m == mirrorings[t] IN
    m.pc \in {"find", "create", "update"} =>
      /\ rows[m.record] # NoContent
      /\ m.record \notin raced =>
           /\ rows[m.record] = m.content /\ m.record \in stale
           /\ \A u \in Behind(m.record) : u = t
           /\ m.pc = "create" => pages[m.record] = <<>>
      /\ m.pc = "update" => m.page \in DOMAIN pages[m.record]
=============================================================================
