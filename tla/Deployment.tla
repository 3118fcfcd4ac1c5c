----------------------------- MODULE Deployment -----------------------------
(***************************************************************************)
(* Migration runners and workers of a deployment on one database: workers  *)
(* may start before the migrations are through, and a row is committed     *)
(* only where its table's migration has been; the attempt fails otherwise  *)
(* and is repeated.                                                        *)
(***************************************************************************)
EXTENDS SchemaMigrations, NotionMirror

\* The file that created what the insert needs: append_interaction_row names
\* the column and the index of 0003, the other tables are those of 0001.
Needs(record) == IF record.kind = "interaction" THEN 3 ELSE 1

Supported(record) == Needs(record) \in Files /\ ledger[Needs(record)] # NotApplied

DeploymentInit == SchemaInit /\ MirrorInit

MigrationStep == SchemaNext /\ UNCHANGED mvars

WorkerStep ==
  /\ MirrorNext
  /\ \A r \in Records : rows'[r] # rows[r] => Supported(r)
  /\ UNCHANGED svars

DeploymentNext == MigrationStep \/ WorkerStep

DeploymentSpec == DeploymentInit /\ [][DeploymentNext]_<<svars, mvars>>

----------------------------------------------------------------------------
\* Workers that start while runners are at work, fail or are stopped leave no
\* row, and no page of one, before the database has executed every file up to
\* the one the row needs: nothing is written into half a release.
WrittenAfterMigrations ==
  \A r \in Records :
    rows[r] # NoContent \/ pages[r] # <<>> =>
      \A f \in 1..Needs(r) : \E i \in DOMAIN schema : schema[i].file = f

\* Its inductive strengthening: what let a row in stays in the ledger.
RowsSupported == \A r \in Records : rows[r] # NoContent => Supported(r)
=============================================================================
