\* Two migration runners of two releases, two threads mirroring.
SPECIFICATION DeploymentSpec
CONSTANTS
  Migrators = {g1, g2}
  Checksums = {"a", "b", "c", "x"}
  Releases <- MCReleases
  NotApplied = NotApplied
  Records <- MCRecords
  Contents = {c1, c2}
  Mirrorings = {t1, t2}
  MaxPages = 2
  NoContent = NoContent
SYMMETRY Symmetry
INVARIANTS
  SchemaIsLedger
  CompletedIsApplied
  OnePage
  PageShowsRow
  WrittenAfterMigrations
