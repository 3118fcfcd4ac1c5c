-------------------------- MODULE SchemaMigrations --------------------------
(***************************************************************************)
(* The migration runner, ticrm-migrate apply: it reads the ledger          *)
(* ticrm_schema_migrations once, then applies each file of its release     *)
(* that the ledger lacked, each with its ledger row in one transaction.    *)
(*                                                                         *)
(* Several runners may be at work, of several releases, and stop anywhere. *)
(* A release only adds files after those of the one before it, so that a   *)
(* file is known by its place; what the runner tells two texts of a file   *)
(* apart by is their checksum.  The statements of a file are abstracted to *)
(* "this text was executed".                                               *)
(***************************************************************************)
EXTENDS Naturals, Sequences

CONSTANTS
  Migrators,
  Checksums,
  Releases,     \* each the checksums of its files, in order of their names
  NotApplied

ASSUME ReleasesAssumption == Releases \subseteq Seq(Checksums) /\ NotApplied \notin Checksums

Files == UNION {DOMAIN release : release \in Releases}

VARIABLES
  ledger,      \* ticrm_schema_migrations: file -> checksum, NotApplied without a row
  schema,      \* the texts the database has executed, in order of commit
  migrators    \* what each runner is doing

svars == <<ledger, schema, migrators>>

Ledger == [Files -> Checksums \cup {NotApplied}]

\* `applied` is the runner's reading of the ledger, `next` the file it is at.
Stopped == [pc |-> "stopped"]
Runner == [pc : {"file", "transaction", "completed"}, release : Releases,
           applied : Ledger, next : Nat \ {0}]

SchemaTypeOK ==
  /\ ledger \in Ledger
  /\ schema \in Seq([file : Files, text : Checksums])
  /\ migrators \in [Migrators -> Runner \cup {Stopped}]

SchemaInit ==
  /\ ledger = [f \in Files |-> NotApplied]
  /\ schema = <<>>
  /\ migrators = [m \in Migrators |-> Stopped]

----------------------------------------------------------------------------
At(m, pc) == migrators[m].pc = pc

\* applied_migrations: one read, before the first file.
ReadLedger(m, release) ==
  /\ At(m, "stopped")
  /\ migrators' = [migrators EXCEPT ![m] =
       [pc |-> "file", release |-> release, applied |-> ledger, next |-> 1]]
  /\ UNCHANGED <<ledger, schema>>

\* The file's row in the runner's reading, and its text in the release.
Known(m) == migrators[m].applied[migrators[m].next]
Text(m)  == migrators[m].release[migrators[m].next]
MoreFiles(m) == At(m, "file") /\ migrators[m].next \in DOMAIN migrators[m].release

SameTextAssumed(m) == TRUE   \* mutant: the checksum of an applied file is not compared
SameText(m) == Known(m) = Text(m)

Skip(m) ==
  /\ MoreFiles(m)
  /\ Known(m) # NotApplied /\ SameText(m)
  /\ migrators' = [migrators EXCEPT ![m].next = @ + 1]
  /\ UNCHANGED <<ledger, schema>>

\* The file's statements run in a transaction nobody else sees.
Execute(m) ==
  /\ MoreFiles(m)
  /\ Known(m) = NotApplied
  /\ migrators' = [migrators EXCEPT ![m].pc = "transaction"]
  /\ UNCHANGED <<ledger, schema>>

\* The ledger's primary key lets the row in only while there is none; the
\* insert of a second runner waits for the first and then fails (Stop).
RowIsFreeAssumed(f) == TRUE   \* mutant: insert ... on conflict do update
RowIsFree(f) == ledger[f] = NotApplied

Commit(m) ==
  LET f == migrators[m].next IN
  /\ At(m, "transaction")
  /\ RowIsFree(f)
  /\ ledger' = [ledger EXCEPT ![f] = Text(m)]
  /\ schema' = Append(schema, [file |-> f, text |-> Text(m)])
  /\ migrators' = [migrators EXCEPT ![m].pc = "file", ![m].next = f + 1]

StopOfFile(m) ==   \* mutant: a failed file is logged and the next one is applied
  /\ At(m, "transaction")
  /\ migrators' = [migrators EXCEPT ![m].pc = "file", ![m].next = @ + 1]
  /\ UNCHANGED <<ledger, schema>>

\* A failed transaction is rolled back and its exception ends the runner: so
\* do a checksum that changed and a process that is stopped.
Stop(m) ==
  /\ ~ At(m, "stopped")
  /\ migrators' = [migrators EXCEPT ![m] = Stopped]
  /\ UNCHANGED <<ledger, schema>>

Finish(m) ==
  /\ At(m, "file") /\ ~ MoreFiles(m)
  /\ migrators' = [migrators EXCEPT ![m].pc = "completed"]
  /\ UNCHANGED <<ledger, schema>>

Migrate(m) ==
  \/ \E release \in Releases : ReadLedger(m, release)
  \/ Skip(m) \/ Execute(m) \/ Commit(m) \/ Stop(m) \/ Finish(m)

SchemaNext == \E m \in Migrators : Migrate(m)

SchemaSpec == SchemaInit /\ [][SchemaNext]_svars

----------------------------------------------------------------------------
(* Properties.                                                             *)

\* However many runners of whatever releases overlap, fail or are stopped,
\* the database has executed each file once, in the order of the files, in
\* the text whose checksum the ledger keeps, and the ledger has no other row.
SchemaIsLedger ==
  /\ \A i \in DOMAIN schema :
       /\ schema[i].file = i
       /\ ledger[i] = schema[i].text
  /\ \A f \in Files : ledger[f] # NotApplied => f \in DOMAIN schema

\* A runner that completes leaves its whole release applied, every file in
\* the release's own text, also where others applied it meanwhile.
CompletedIsApplied ==
  \A m \in Migrators :
    At(m, "completed") =>
      \A f \in DOMAIN migrators[m].release : ledger[f] = migrators[m].release[f]

----------------------------------------------------------------------------
(* Inductive strengthening.                                                *)

\* A runner's reading is out of date only in what it lacks, and the files
\* before the one it is at are applied in its release's text.
RunnersInv ==
  \A m \in Migrators : ~ At(m, "stopped") =>
    /\ \A f \in Files : migrators[m].applied[f] # NotApplied => ledger[f] = migrators[m].applied[f]
    /\ \A f \in DOMAIN migrators[m].release :
         f < migrators[m].next => ledger[f] = migrators[m].release[f]
    /\ At(m, "transaction") => migrators[m].next \in DOMAIN migrators[m].release
    /\ At(m, "completed") => migrators[m].next \notin DOMAIN migrators[m].release
=============================================================================
