-------------------------- MODULE DeploymentProofs --------------------------
(***************************************************************************)
(* Theorems about SchemaMigrations and NotionMirror, and about both in a   *)
(* Deployment, for every set of runners, releases, records and threads.    *)
(***************************************************************************)
EXTENDS Deployment, TLAPS

----------------------------------------------------------------------------
(* Migrations.                                                             *)

\* The files of a release are numbered from one, without gaps.
LEMMA ReleaseFiles ==
  ASSUME NEW release \in Releases
  PROVE  /\ Len(release) \in Nat /\ DOMAIN release = 1..Len(release)
         /\ DOMAIN release \subseteq Files
         /\ \A f \in DOMAIN release : release[f] \in Checksums
  BY ReleasesAssumption DEF Files

LEMMA FilesAreNumbers ==
  ASSUME NEW f \in Files
  PROVE  f \in Nat \ {0}
  BY ReleaseFiles DEF Files

\* What a runner holds while it is at work.
LEMMA RunnerKinds ==
  ASSUME SchemaTypeOK, NEW m \in Migrators, ~ At(m, "stopped")
  PROVE  /\ migrators[m] \in Runner
         /\ migrators[m].release \in Releases
         /\ migrators[m].applied \in Ledger
         /\ migrators[m].next \in Nat \ {0}
  BY DEF SchemaTypeOK, At, Runner, Stopped

\* The file a runner is at is one of its release.
LEMMA CurrentFile ==
  ASSUME SchemaTypeOK, NEW m \in Migrators, ~ At(m, "stopped"),
         migrators[m].next \in DOMAIN migrators[m].release
  PROVE  migrators[m].next \in Files /\ Text(m) \in Checksums
  BY RunnerKinds, ReleaseFiles DEF Text

LEMMA SchemaTypeStep ==
  ASSUME SchemaTypeOK, RunnersInv, [SchemaNext]_svars
  PROVE  SchemaTypeOK'
<1>1. ASSUME NEW m \in Migrators, NEW release \in Releases, ReadLedger(m, release)
      PROVE  SchemaTypeOK'
  <2>1. [pc |-> "file", release |-> release, applied |-> ledger, next |-> 1] \in Runner
    BY DEF SchemaTypeOK, Runner
  <2>2. QED
    BY <1>1, <2>1 DEF SchemaTypeOK, ReadLedger
<1>2. ASSUME NEW m \in Migrators, NEW r \in Runner,
             ~ At(m, "stopped"), migrators' = [migrators EXCEPT ![m] = r],
             UNCHANGED <<ledger, schema>>
      PROVE  SchemaTypeOK'
  BY <1>2 DEF SchemaTypeOK
<1>3. ASSUME NEW m \in Migrators, Skip(m)
      PROVE  SchemaTypeOK'
  <2>1. migrators[m] \in Runner /\ ~ At(m, "stopped")
    BY <1>3, RunnerKinds DEF Skip, MoreFiles, At
  <2>2. [migrators[m] EXCEPT !.next = @ + 1] \in Runner
    BY <2>1 DEF Runner
  <2>3. QED
    BY <1>2, <1>3, <2>1, <2>2 DEF Skip
<1>4. ASSUME NEW m \in Migrators, Execute(m)
      PROVE  SchemaTypeOK'
  <2>1. migrators[m] \in Runner /\ ~ At(m, "stopped")
    BY <1>4, RunnerKinds DEF Execute, MoreFiles, At
  <2>2. [migrators[m] EXCEPT !.pc = "transaction"] \in Runner
    BY <2>1 DEF Runner
  <2>3. QED
    BY <1>2, <1>4, <2>1, <2>2 DEF Execute
<1>5. ASSUME NEW m \in Migrators, Commit(m)
      PROVE  SchemaTypeOK'
  <2>1. migrators[m] \in Runner /\ ~ At(m, "stopped")
    BY <1>5, RunnerKinds DEF Commit, At
  <2>2. migrators[m].next \in Files /\ Text(m) \in Checksums /\ migrators[m].next \in Nat
    BY <1>5, <2>1, CurrentFile, FilesAreNumbers DEF Commit, RunnersInv
  <2>3. [migrators[m] EXCEPT !.pc = "file", !.next = migrators[m].next + 1] \in Runner
    <3>1. PICK n \in Nat \ {0} : n = migrators[m].next + 1
      BY <2>2
    <3>2. [migrators[m] EXCEPT !.pc = "file", !.next = n] \in Runner
      BY <2>1, <3>1 DEF Runner
    <3>3. QED
      BY <3>1, <3>2
  <2>4. migrators' \in [Migrators -> Runner \cup {Stopped}]
    BY <1>5, <2>3 DEF Commit, SchemaTypeOK
  <2>5. ledger' \in Ledger
    BY <1>5, <2>2 DEF Commit, SchemaTypeOK, Ledger
  <2>6. schema' \in Seq([file : Files, text : Checksums])
    BY <1>5, <2>2 DEF Commit, SchemaTypeOK
  <2>7. QED
    BY <2>4, <2>5, <2>6 DEF SchemaTypeOK
<1>6. ASSUME NEW m \in Migrators, Stop(m)
      PROVE  SchemaTypeOK'
  BY <1>6 DEF SchemaTypeOK, Stop
<1>7. ASSUME NEW m \in Migrators, Finish(m)
      PROVE  SchemaTypeOK'
  <2>1. migrators[m] \in Runner /\ ~ At(m, "stopped")
    BY <1>7, RunnerKinds DEF Finish, At
  <2>2. [migrators[m] EXCEPT !.pc = "completed"] \in Runner
    BY <2>1 DEF Runner
  <2>3. QED
    BY <1>2, <1>7, <2>1, <2>2 DEF Finish
<1>8. CASE UNCHANGED svars
  BY <1>8 DEF SchemaTypeOK, svars
<1>9. QED
  BY <1>1, <1>3, <1>4, <1>5, <1>6, <1>7, <1>8 DEF SchemaNext, Migrate

\* What is true of a runner in a state.
RunnerInv(m) ==
  ~ At(m, "stopped") =>
    /\ \A f \in Files : migrators[m].applied[f] # NotApplied => ledger[f] = migrators[m].applied[f]
    /\ \A f \in DOMAIN migrators[m].release :
         f < migrators[m].next => ledger[f] = migrators[m].release[f]
    /\ At(m, "transaction") => migrators[m].next \in DOMAIN migrators[m].release
    /\ At(m, "completed") => migrators[m].next \notin DOMAIN migrators[m].release

LEMMA RunnersStep ==
  ASSUME SchemaTypeOK, RunnersInv, [SchemaNext]_svars
  PROVE  RunnersInv'
<1> SUFFICES ASSUME NEW q \in Migrators PROVE RunnerInv(q)'
  BY DEF RunnersInv, RunnerInv
<1>0. RunnerInv(q)
  BY DEF RunnersInv, RunnerInv
<1>1. ASSUME UNCHANGED <<ledger, migrators[q]>>
      PROVE  RunnerInv(q)'
  BY <1>0, <1>1 DEF RunnerInv, At
<1>2. ASSUME NEW m \in Migrators, NEW release \in Releases, ReadLedger(m, release)
      PROVE  RunnerInv(q)'
  <2>1. CASE q # m
    BY <1>1, <1>2, <2>1 DEF ReadLedger, SchemaTypeOK
  <2>2. CASE q = m
    <3>1. /\ migrators'[q] = [pc |-> "file", release |-> release, applied |-> ledger, next |-> 1]
          /\ ledger' = ledger
      BY <1>2, <2>2 DEF ReadLedger, SchemaTypeOK
    <3>2. \A f \in DOMAIN release : ~ (f < 1)
      BY ReleaseFiles
    <3>3. QED
      BY <3>1, <3>2 DEF RunnerInv, At
  <2>3. QED
    BY <2>1, <2>2
<1>3. ASSUME NEW m \in Migrators, Skip(m)
      PROVE  RunnerInv(q)'
  <2>1. CASE q # m
    BY <1>1, <1>3, <2>1 DEF Skip, SchemaTypeOK
  <2>2. CASE q = m
    <3>1. /\ ~ At(q, "stopped") /\ migrators[q].next \in DOMAIN migrators[q].release
          /\ Known(q) # NotApplied /\ Known(q) = Text(q) /\ ledger' = ledger
      BY <1>3, <2>2 DEF Skip, SameText, MoreFiles, At
    <3>2. migrators[q] \in Runner /\ migrators[q].next \in Files
      BY <3>1, RunnerKinds, CurrentFile
    <3>3. ledger[migrators[q].next] = migrators[q].release[migrators[q].next]
      BY <1>0, <3>1, <3>2 DEF RunnerInv, Known, Text
    <3>4. migrators'[q] = [migrators[q] EXCEPT !.next = @ + 1] /\ migrators[q].pc = "file"
      BY <1>3, <2>2 DEF Skip, MoreFiles, At, SchemaTypeOK
    <3>5. /\ migrators'[q].pc = "file" /\ migrators'[q].next = migrators[q].next + 1
          /\ migrators'[q].applied = migrators[q].applied
          /\ migrators'[q].release = migrators[q].release
      BY <3>2, <3>4 DEF Runner
    <3>6. \A f \in DOMAIN migrators[q].release :
            f < migrators[q].next + 1 => f < migrators[q].next \/ f = migrators[q].next
      BY <3>1, RunnerKinds, ReleaseFiles
    <3>7. QED
      BY <1>0, <3>1, <3>3, <3>5, <3>6 DEF RunnerInv, At
  <2>3. QED
    BY <2>1, <2>2
<1>4. ASSUME NEW m \in Migrators, Execute(m) \/ Finish(m)
      PROVE  RunnerInv(q)'
  <2>1. CASE q # m
    BY <1>1, <1>4, <2>1 DEF Execute, Finish, SchemaTypeOK
  <2>2. CASE q = m
    <3>1. migrators[q] \in Runner /\ ~ At(q, "stopped")
      BY <1>4, <2>2, RunnerKinds DEF Execute, Finish, MoreFiles, At
    <3>2. PICK pc \in {"transaction", "completed"} :
            /\ migrators'[q] = [migrators[q] EXCEPT !.pc = pc] /\ ledger' = ledger
            /\ pc = "transaction" => migrators[q].next \in DOMAIN migrators[q].release
            /\ pc = "completed" => migrators[q].next \notin DOMAIN migrators[q].release
      BY <1>4, <2>2 DEF Execute, Finish, MoreFiles, At, SchemaTypeOK
    <3>3. /\ migrators'[q].pc = pc /\ migrators'[q].next = migrators[q].next
          /\ migrators'[q].applied = migrators[q].applied
          /\ migrators'[q].release = migrators[q].release
      BY <3>1, <3>2 DEF Runner
    <3>4. QED
      BY <1>0, <3>1, <3>2, <3>3 DEF RunnerInv, At
  <2>3. QED
    BY <2>1, <2>2
<1>5. ASSUME NEW m \in Migrators, Commit(m)
      PROVE  RunnerInv(q)'
  <2> DEFINE F == migrators[m].next
  <2>1. migrators[m] \in Runner /\ ~ At(m, "stopped") /\ F \in DOMAIN migrators[m].release
    BY <1>5, RunnerKinds DEF Commit, RunnersInv, At
  <2>2. F \in Files /\ Text(m) \in Checksums
    BY <2>1, CurrentFile
  <2>3. /\ ledger[F] = NotApplied /\ ledger'[F] = migrators[m].release[F]
        /\ \A f \in Files : f # F => ledger'[f] = ledger[f]
    BY <1>5, <2>2 DEF Commit, RowIsFree, Text, SchemaTypeOK, Ledger
  <2>4. \A f \in Files : ledger[f] # NotApplied => ledger'[f] = ledger[f]
    BY <2>3
  <2>5. CASE q # m
    <3>1. migrators'[q] = migrators[q]
      BY <1>5, <2>5 DEF Commit, SchemaTypeOK
    <3>2. ~ At(q, "stopped") => \A f \in DOMAIN migrators[q].release :
             f \in Files /\ migrators[q].release[f] # NotApplied
      BY RunnerKinds, ReleaseFiles, ReleasesAssumption
    <3>3. QED
      BY <1>0, <2>4, <3>1, <3>2 DEF RunnerInv, At
  <2>6. CASE q = m
    <3>1. migrators'[q] = [migrators[q] EXCEPT !.pc = "file", !.next = F + 1]
      BY <1>5, <2>6 DEF Commit, SchemaTypeOK
    <3>2. /\ migrators'[q].pc = "file" /\ migrators'[q].next = F + 1
          /\ migrators'[q].applied = migrators[q].applied
          /\ migrators'[q].release = migrators[q].release
      BY <2>1, <2>6, <3>1 DEF Runner
    <3>3. \A f \in DOMAIN migrators[q].release :
            /\ f \in Files /\ migrators[q].release[f] # NotApplied
            /\ f < F + 1 => f < F \/ f = F
      BY <2>1, <2>2, <2>6, RunnerKinds, ReleaseFiles, FilesAreNumbers, ReleasesAssumption
    <3>4. QED
      BY <1>0, <2>1, <2>3, <2>4, <2>6, <3>2, <3>3 DEF RunnerInv, At
  <2>7. QED
    BY <2>5, <2>6
<1>6. ASSUME NEW m \in Migrators, Stop(m)
      PROVE  RunnerInv(q)'
  <2>1. CASE q # m
    BY <1>1, <1>6, <2>1 DEF Stop, SchemaTypeOK
  <2>2. CASE q = m
    BY <1>6, <2>2 DEF Stop, SchemaTypeOK, RunnerInv, At, Stopped
  <2>3. QED
    BY <2>1, <2>2
<1>7. CASE UNCHANGED svars
  BY <1>1, <1>7 DEF svars
<1>8. QED
  BY <1>2, <1>3, <1>4, <1>5, <1>6, <1>7 DEF SchemaNext, Migrate

\* What the executed texts are made of.
LEMMA SchemaElements ==
  ASSUME SchemaTypeOK
  PROVE  /\ Len(schema) \in Nat /\ DOMAIN schema = 1..Len(schema)
         /\ \A i \in DOMAIN schema : schema[i] \in [file : Files, text : Checksums]
<1>1. \A S : \A s \in Seq(S) : /\ Len(s) \in Nat /\ DOMAIN s = 1..Len(s)
                              /\ \A i \in DOMAIN s : s[i] \in S
  OBVIOUS
<1>2. QED
  BY <1>1 DEF SchemaTypeOK

LEMMA LedgerStep ==
  ASSUME SchemaTypeOK, RunnersInv, SchemaIsLedger, [SchemaNext]_svars
  PROVE  SchemaIsLedger'
<1>1. CASE UNCHANGED <<ledger, schema>>
  BY <1>1 DEF SchemaIsLedger
<1>2. ASSUME NEW m \in Migrators, Commit(m)
      PROVE  SchemaIsLedger'
  <2>1. PICK F \in Nat : F = migrators[m].next
    BY <1>2, RunnerKinds DEF Commit, At
  <2>2. /\ migrators[m].release \in Releases /\ F \in DOMAIN migrators[m].release
        /\ F \in Files /\ Text(m) \in Checksums
    BY <1>2, <2>1, RunnerKinds, CurrentFile DEF Commit, RunnersInv, At
  <2>3. ledger[F] = NotApplied /\ \A i \in DOMAIN schema : schema[i].text # NotApplied
    BY <1>2, <2>1, SchemaElements, ReleasesAssumption DEF Commit, RowIsFree
  <2>4. F \notin DOMAIN schema
    BY <2>3 DEF SchemaIsLedger
  <2>5. \A f \in 1..(F - 1) : f \in DOMAIN schema
    <3>1. TAKE f \in 1..(F - 1)
    <3>2. f \in DOMAIN migrators[m].release /\ f < F
      BY <2>1, <2>2, ReleaseFiles
    <3>3. ledger[f] = migrators[m].release[f]
      BY <1>2, <2>1, <3>2 DEF RunnersInv, Commit, At
    <3>4. f \in Files /\ ledger[f] # NotApplied
      BY <2>2, <3>2, <3>3, ReleaseFiles, ReleasesAssumption
    <3>5. QED
      BY <3>4 DEF SchemaIsLedger
  <2>6. Len(schema) \in Nat /\ DOMAIN schema = 1..Len(schema)
    BY DEF SchemaTypeOK
  <2>7. F = Len(schema) + 1
    <3>1. F >= 1
      BY <2>2, FilesAreNumbers
    <3>2. ~ (F <= Len(schema))
      BY <2>4, <2>6, <3>1
    <3>3. F - 1 <= Len(schema)
      BY <2>5, <2>6, <3>1
    <3>4. QED
      BY <2>6, <3>2, <3>3
  <2>8. schema' = Append(schema, [file |-> F, text |-> Text(m)]) /\ ledger' = [ledger EXCEPT ![F] = Text(m)]
    BY <1>2, <2>1 DEF Commit
  <2>9. /\ DOMAIN schema' = 1..F
        /\ schema'[F] = [file |-> F, text |-> Text(m)]
        /\ \A i \in DOMAIN schema : schema'[i] = schema[i]
    BY <2>6, <2>7, <2>8 DEF SchemaTypeOK
  <2>10. /\ ledger'[F] = Text(m)
         /\ \A f \in Files : f # F => ledger'[f] = ledger[f]
    BY <2>2, <2>8 DEF SchemaTypeOK, Ledger
  <2>11. \A i \in DOMAIN schema : i \in Files /\ i # F
    BY <2>4, SchemaElements DEF SchemaIsLedger
  <2>12. \A i \in 1..F : i = F \/ i \in DOMAIN schema
    BY <2>6, <2>7
  <2>13. ASSUME NEW i \in DOMAIN schema'
         PROVE  schema'[i].file = i /\ ledger'[i] = schema'[i].text
    BY <2>9, <2>10, <2>11, <2>12, <2>13 DEF SchemaIsLedger
  <2>14. ASSUME NEW f \in Files, ledger'[f] # NotApplied
         PROVE  f \in DOMAIN schema'
    BY <2>6, <2>7, <2>9, <2>10, <2>14 DEF SchemaIsLedger
  <2>15. QED
    BY <2>13, <2>14 DEF SchemaIsLedger
<1>3. QED
  BY <1>1, <1>2 DEF SchemaNext, Migrate, svars, ReadLedger, Skip, Execute, Stop, Finish

LEMMA SchemaInitial == SchemaInit => SchemaTypeOK /\ RunnersInv /\ SchemaIsLedger
<1> SUFFICES ASSUME SchemaInit PROVE SchemaTypeOK /\ RunnersInv /\ SchemaIsLedger
  OBVIOUS
<1>1. SchemaTypeOK
  BY DEF SchemaInit, SchemaTypeOK, Ledger
<1>2. RunnersInv
  BY DEF SchemaInit, RunnersInv, At, Stopped
<1>3. SchemaIsLedger
  BY DEF SchemaInit, SchemaIsLedger
<1>4. QED
  BY <1>1, <1>2, <1>3

\* The runners' invariants hold together.
LEMMA MigrationsInvariant == SchemaSpec => [](SchemaTypeOK /\ RunnersInv /\ SchemaIsLedger)
<1>1. SchemaTypeOK /\ RunnersInv /\ SchemaIsLedger /\ [SchemaNext]_svars
        => (SchemaTypeOK /\ RunnersInv /\ SchemaIsLedger)'
  BY SchemaTypeStep, RunnersStep, LedgerStep
<1>2. QED
  BY <1>1, SchemaInitial, PTL DEF SchemaSpec

\* Each file is executed once, in order, in the text the ledger vouches for.
THEOREM SchemaMatchesLedger == SchemaSpec => []SchemaIsLedger
  BY MigrationsInvariant, PTL

\* A runner that completes leaves its whole release applied.
THEOREM CompletedRunnersApplied == SchemaSpec => []CompletedIsApplied
<1>1. SchemaTypeOK /\ RunnersInv => CompletedIsApplied
  <2> SUFFICES ASSUME SchemaTypeOK, RunnersInv, NEW m \in Migrators, At(m, "completed"),
                      NEW f \in DOMAIN migrators[m].release
               PROVE  ledger[f] = migrators[m].release[f]
    BY DEF CompletedIsApplied
  <2>1. ~ At(m, "stopped") /\ migrators[m].next \notin DOMAIN migrators[m].release
    BY DEF RunnersInv, At
  <2>2. migrators[m].release \in Releases /\ migrators[m].next \in Nat \ {0}
    BY <2>1, RunnerKinds
  <2>3. f < migrators[m].next
    BY <2>1, <2>2, ReleaseFiles
  <2>4. QED
    BY <2>1, <2>3 DEF RunnersInv
<1>2. QED
  BY <1>1, MigrationsInvariant, PTL

----------------------------------------------------------------------------
(* The mirror.                                                             *)

\* What a thread holds while it is at work.
LEMMA MirroringKinds ==
  ASSUME MirrorTypeOK, NEW t \in Mirrorings, mirrorings[t] # Asleep
  PROVE  /\ mirrorings[t] \in Mirroring
         /\ mirrorings[t].record \in Records /\ mirrorings[t].content \in Contents
         /\ mirrorings[t].content # NoContent
  BY MirrorAssumption DEF MirrorTypeOK, Mirroring, Asleep

\* How a thread moves on.
LEMMA MirroringMoves ==
  ASSUME MirrorTypeOK, NEW t \in Mirrorings, mirrorings[t] # Asleep,
         NEW pc \in {"commit", "find", "create", "update"}
  PROVE  /\ [mirrorings[t] EXCEPT !.pc = pc] \in Mirroring
         /\ [mirrorings[t] EXCEPT !.pc = pc].pc = pc
         /\ [mirrorings[t] EXCEPT !.pc = pc].record = mirrorings[t].record
         /\ [mirrorings[t] EXCEPT !.pc = pc].content = mirrorings[t].content
  BY MirroringKinds DEF Mirroring

\* The facts of a sequence of pages that the steps use.
LEMMA PageSequences ==
  ASSUME NEW s \in Seq(Contents), NEW c \in Contents
  PROVE  /\ Len(s) \in Nat /\ DOMAIN s = 1..Len(s)
         /\ Append(s, c) \in Seq(Contents) /\ Append(s, c) # <<>>
         /\ Len(Append(s, c)) = Len(s) + 1
         /\ DOMAIN s \subseteq DOMAIN Append(s, c)
         /\ s = <<>> => Append(s, c) = <<c>>
         /\ \A p \in DOMAIN s :
              /\ [s EXCEPT ![p] = c] \in Seq(Contents)
              /\ Len([s EXCEPT ![p] = c]) = Len(s)
              /\ DOMAIN [s EXCEPT ![p] = c] = DOMAIN s
              /\ s # <<>>
<1>1. /\ Len(s) \in Nat /\ DOMAIN s = 1..Len(s)
      /\ Append(s, c) \in Seq(Contents) /\ Append(s, c) # <<>>
      /\ Len(Append(s, c)) = Len(s) + 1
  OBVIOUS
<1>2. DOMAIN s \subseteq DOMAIN Append(s, c)
  BY <1>1
<1>3. s = <<>> => Append(s, c) = <<c>>
  OBVIOUS
<1>4. ASSUME NEW p \in DOMAIN s
      PROVE  /\ [s EXCEPT ![p] = c] \in Seq(Contents)
             /\ Len([s EXCEPT ![p] = c]) = Len(s)
             /\ DOMAIN [s EXCEPT ![p] = c] = DOMAIN s
             /\ s # <<>>
  OBVIOUS
<1>5. QED
  BY <1>1, <1>2, <1>3, <1>4

\* The one page a record has shows what is written to it.
LEMMA OnlyPage ==
  ASSUME NEW s \in Seq(Contents), NEW c \in Contents, NEW p \in DOMAIN s, Len(s) <= 1
  PROVE  [s EXCEPT ![p] = c] = <<c>>
<1>1. Len(s) = 1 /\ p = 1 /\ DOMAIN s = {1}
  <2>1. Len(s) \in Nat /\ DOMAIN s = 1..Len(s)
    OBVIOUS
  <2>2. Len(s) = 1
    BY <2>1
  <2>3. QED
    BY <2>1, <2>2
<1>2. QED
  BY <1>1

LEMMA MirrorTypeStep ==
  ASSUME MirrorTypeOK, MirroringsInv, [MirrorNext]_mvars
  PROVE  MirrorTypeOK'
<1>1. ASSUME NEW t \in Mirrorings, NEW r \in Records, NEW c \in Contents, Perform(t, r, c)
      PROVE  MirrorTypeOK'
  <2>1. [pc |-> "commit", record |-> r, content |-> c, page |-> 0] \in Mirroring
    BY DEF Mirroring
  <2>2. QED
    BY <1>1, <2>1 DEF MirrorTypeOK, Perform
<1>2. ASSUME NEW t \in Mirrorings, CommitRow(t)
      PROVE  MirrorTypeOK'
  <2>1. mirrorings[t] # Asleep
    BY <1>2 DEF CommitRow, Asleep
  <2>2. QED
    BY <1>2, <2>1, MirroringKinds, MirroringMoves DEF MirrorTypeOK, CommitRow
<1>3. ASSUME NEW t \in Mirrorings, FindPage(t)
      PROVE  MirrorTypeOK'
  <2>1. mirrorings[t] # Asleep
    BY <1>3 DEF FindPage, Asleep
  <2>2. CASE mirrorings' = [mirrorings EXCEPT ![t].pc = "create"]
    BY <1>3, <2>1, <2>2, MirroringMoves DEF MirrorTypeOK, FindPage
  <2>3. ASSUME NEW p \in DOMAIN pages[mirrorings[t].record],
               mirrorings' = [mirrorings EXCEPT ![t].pc = "update", ![t].page = p]
        PROVE  MirrorTypeOK'
    <3>1. p \in Nat
      BY <2>1, MirroringKinds DEF MirrorTypeOK
    <3>2. [mirrorings[t] EXCEPT !.pc = "update", !.page = p] \in Mirroring
      BY <2>1, <3>1, MirroringKinds DEF Mirroring
    <3>3. QED
      BY <1>3, <2>3, <3>2 DEF MirrorTypeOK, FindPage
  <2>4. QED
    BY <1>3, <2>2, <2>3 DEF FindPage
<1>4. ASSUME NEW t \in Mirrorings, CreatePage(t)
      PROVE  MirrorTypeOK'
  <2>1. mirrorings[t] # Asleep
    BY <1>4 DEF CreatePage, Asleep
  <2>2. pages' \in [Records -> Seq(Contents)]
    BY <1>4, <2>1, MirroringKinds, PageSequences DEF MirrorTypeOK, CreatePage
  <2>3. QED
    BY <1>4, <2>2 DEF MirrorTypeOK, CreatePage, Written
<1>5. ASSUME NEW t \in Mirrorings, UpdatePage(t)
      PROVE  MirrorTypeOK'
  <2> DEFINE m == mirrorings[t]
  <2>1. m \in Mirroring /\ m.record \in Records /\ m.content \in Contents
    BY <1>5, MirroringKinds DEF UpdatePage, Asleep
  <2>2. m.page \in DOMAIN pages[m.record] /\ pages[m.record] \in Seq(Contents)
    BY <1>5, <2>1 DEF UpdatePage, MirroringsInv, MirrorTypeOK
  <2>3. pages' = [pages EXCEPT ![m.record] = [pages[m.record] EXCEPT ![m.page] = m.content]]
    BY <1>5, <2>1 DEF UpdatePage, Patched, MirrorTypeOK
  <2>4. pages' \in [Records -> Seq(Contents)]
    BY <2>1, <2>2, <2>3, PageSequences DEF MirrorTypeOK
  <2>5. QED
    BY <1>5, <2>4 DEF MirrorTypeOK, UpdatePage, Written
<1>6. ASSUME NEW t \in Mirrorings, Break(t)
      PROVE  MirrorTypeOK'
  BY <1>6 DEF MirrorTypeOK, Break
<1>7. CASE UNCHANGED mvars
  BY <1>7 DEF MirrorTypeOK, mvars
<1>8. QED
  BY <1>1, <1>2, <1>3, <1>4, <1>5, <1>6, <1>7 DEF MirrorNext, Mirror

\* What MirroringsInv says of one thread.
Settled(t, m) ==
  m.pc \in {"find", "create", "update"} =>
    /\ rows[m.record] # NoContent
    /\ m.record \notin raced =>
         /\ rows[m.record] = m.content /\ m.record \in stale
         /\ \A u \in Behind(m.record) : u = t
         /\ m.pc = "create" => pages[m.record] = <<>>
    /\ m.pc = "update" => m.page \in DOMAIN pages[m.record]

LEMMA SettledThreads == MirroringsInv <=> \A t \in Mirrorings : Settled(t, mirrorings[t])
  BY DEF MirroringsInv, Settled

\* A thread that a step leaves alone stays settled while its record is not
\* committed, its pages only grow and nobody joins it.
LEMMA StillSettled ==
  ASSUME MirrorTypeOK, MirroringsInv, NEW u \in Mirrorings, mirrorings'[u] = mirrorings[u],
         raced' = raced, NEW r \in Records,
         \A q \in Records : rows'[q] = rows[q],
         \A q \in Records : q # r => pages'[q] = pages[q] /\ (q \in stale' <=> q \in stale),
         \A q \in Records : Behind(q)' \subseteq Behind(q),
         DOMAIN pages[r] \subseteq DOMAIN pages'[r],
         \/ r \in raced \/ Behind(r) = {} \/ u \notin Behind(r)
         \/ pages'[r] = pages[r] /\ (r \in stale' <=> r \in stale)
  PROVE  Settled(u, mirrorings[u])'
<1>1. CASE mirrorings[u] = Asleep
  BY <1>1 DEF Settled, Asleep
<1>2. CASE mirrorings[u] # Asleep
  <2>1. mirrorings[u].record \in Records
    BY <1>2, MirroringKinds
  <2>2. Settled(u, mirrorings[u])
    BY SettledThreads
  <2>3. mirrorings[u].pc \in {"find", "create", "update"} => u \in Behind(mirrorings[u].record)
    BY DEF Behind
  <2>4. QED
    BY <2>1, <2>2, <2>3 DEF Settled
<1>3. QED
  BY <1>1, <1>2

LEMMA MirroringsStep ==
  ASSUME MirrorTypeOK, MirroringsInv, OnePage, [MirrorNext]_mvars
  PROVE  MirroringsInv'
<1> SUFFICES ASSUME NEW u \in Mirrorings PROVE Settled(u, mirrorings[u])'
  BY DEF MirroringsInv, Settled
<1>0. Settled(u, mirrorings[u])
  BY SettledThreads
<1>1. ASSUME NEW t \in Mirrorings, UNCHANGED <<rows, pages, raced, stale>>,
             \A q \in Mirrorings : q # t => mirrorings'[q] = mirrorings[q],
             mirrorings'[t].pc \in {"asleep", "commit"}
      PROVE  Settled(u, mirrorings[u])'
  <2>1. \A q \in Records : Behind(q)' \subseteq Behind(q)
    BY <1>1 DEF Behind
  <2>2. CASE u = t
    BY <1>1, <2>2 DEF Settled
  <2>3. CASE u # t
    <3>1. mirrorings[u] = Asleep \/ mirrorings[u].record \in Records
      BY MirroringKinds
    <3>2. QED
      BY <1>0, <1>1, <2>1, <2>3, <3>1 DEF Settled, Asleep
  <2>4. QED
    BY <2>2, <2>3
<1>2. ASSUME NEW t \in Mirrorings, NEW r \in Records, NEW c \in Contents, Perform(t, r, c)
      PROVE  Settled(u, mirrorings[u])'
  BY <1>1, <1>2 DEF Perform, MirrorTypeOK
<1>3. ASSUME NEW t \in Mirrorings, Break(t)
      PROVE  Settled(u, mirrorings[u])'
  BY <1>1, <1>3 DEF Break, MirrorTypeOK, Asleep
<1>4. ASSUME NEW t \in Mirrorings, CommitRow(t)
      PROVE  Settled(u, mirrorings[u])'
  <2>1. PICK r \in Records : r = mirrorings[t].record
    BY <1>4, MirroringKinds DEF CommitRow, Asleep
  <2>2. mirrorings[t] # Asleep /\ mirrorings[t].content # NoContent
    BY <1>4, MirroringKinds DEF CommitRow, Asleep
  <2>3. /\ mirrorings'[t].pc = "find" /\ mirrorings'[t].record = r
        /\ mirrorings'[t].content = mirrorings[t].content
        /\ \A q \in Mirrorings : q # t => mirrorings'[q] = mirrorings[q]
    BY <1>4, <2>1, <2>2, MirroringMoves DEF CommitRow, MirrorTypeOK
  <2>4. /\ rows'[r] = mirrorings[t].content
        /\ \A q \in Records : q # r => rows'[q] = rows[q]
        /\ pages' = pages /\ stale' = stale \cup {r}
        /\ raced' = IF Behind(r) = {} THEN raced ELSE raced \cup {r}
    BY <1>4, <2>1 DEF CommitRow, MirrorTypeOK
  <2>5. \A q \in Records : Behind(q)' = IF q = r THEN Behind(q) \cup {t} ELSE Behind(q)
    BY <1>4, <2>1, <2>3 DEF Behind, CommitRow
  <2>6. CASE u = t
    BY <2>1, <2>2, <2>3, <2>4, <2>5, <2>6 DEF Settled
  <2>7. CASE u # t
    <3>1. mirrorings[u] = Asleep \/ mirrorings[u].record \in Records
      BY MirroringKinds
    <3>2. CASE mirrorings[u].record = r /\ mirrorings[u].pc \in {"find", "create", "update"}
      <4>1. r \in raced'
        BY <2>4, <3>2 DEF Behind
      <4>2. QED
        BY <1>0, <2>2, <2>3, <2>4, <2>7, <3>2, <4>1 DEF Settled
    <3>3. CASE mirrorings[u].record # r \/ mirrorings[u].pc \notin {"find", "create", "update"}
      BY <1>0, <2>3, <2>4, <2>5, <2>7, <3>1, <3>3 DEF Settled, Asleep
    <3>4. QED
      BY <3>2, <3>3
  <2>8. QED
    BY <2>6, <2>7
<1>5. ASSUME NEW t \in Mirrorings, FindPage(t)
      PROVE  Settled(u, mirrorings[u])'
  <2>1. PICK r \in Records : r = mirrorings[t].record
    BY <1>5, MirroringKinds DEF FindPage, Asleep
  <2>2. mirrorings[t] \in Mirroring /\ mirrorings[t].pc = "find"
    BY <1>5, MirroringKinds DEF FindPage, Asleep
  <2>3. /\ mirrorings'[t].pc \in {"create", "update"} /\ mirrorings'[t].record = r
        /\ mirrorings'[t].content = mirrorings[t].content
        /\ mirrorings'[t].pc = "create" => pages[r] = <<>>
        /\ mirrorings'[t].pc = "update" => mirrorings'[t].page \in DOMAIN pages[r]
        /\ \A q \in Mirrorings : q # t => mirrorings'[q] = mirrorings[q]
    BY <1>5, <2>1, <2>2 DEF FindPage, MirrorTypeOK, Mirroring
  <2>4. UNCHANGED <<rows, pages, raced, stale>>
    BY <1>5 DEF FindPage
  <2>5. \A q \in Records : Behind(q)' = Behind(q)
    BY <2>1, <2>2, <2>3 DEF Behind
  <2>6. CASE u = t
    BY <1>0, <2>1, <2>2, <2>3, <2>4, <2>5, <2>6 DEF Settled
  <2>7. CASE u # t
    <3>1. mirrorings[u] = Asleep \/ mirrorings[u].record \in Records
      BY MirroringKinds
    <3>2. QED
      BY <1>0, <2>3, <2>4, <2>5, <2>7, <3>1 DEF Settled, Asleep
  <2>8. QED
    BY <2>6, <2>7
<1>6. ASSUME NEW t \in Mirrorings, CreatePage(t) \/ UpdatePage(t)
      PROVE  Settled(u, mirrorings[u])'
  <2>1. PICK r \in Records : r = mirrorings[t].record
    BY <1>6, MirroringKinds DEF CreatePage, UpdatePage, Asleep
  <2>2. mirrorings[t].content \in Contents /\ t \in Behind(r)
    BY <1>6, <2>1, MirroringKinds DEF CreatePage, UpdatePage, Asleep, Behind
  <2>3. /\ mirrorings' = [mirrorings EXCEPT ![t] = Asleep]
        /\ UNCHANGED <<rows, raced>> /\ stale' = stale \ {r}
        /\ \A q \in Records : q # r => pages'[q] = pages[q]
    BY <1>6, <2>1 DEF CreatePage, UpdatePage, Written, MirrorTypeOK
  <2>4. DOMAIN pages[r] \subseteq DOMAIN pages'[r]
    <3>1. CASE CreatePage(t)
      BY <2>1, <2>2, <3>1, PageSequences DEF CreatePage, MirrorTypeOK
    <3>2. CASE UpdatePage(t)
      BY <2>1, <2>2, <3>2 DEF UpdatePage, MirrorTypeOK
    <3>3. QED
      BY <1>6, <3>1, <3>2
  <2>5. \A q \in Records : Behind(q)' \subseteq Behind(q)
    BY <2>3 DEF Behind, Asleep, MirrorTypeOK
  <2>6. CASE u = t
    BY <2>3, <2>6 DEF Settled, Asleep, MirrorTypeOK
  <2>7. CASE u # t
    <3>1. r \in raced \/ u \notin Behind(r)
      <4>1. Settled(t, mirrorings[t])
        BY SettledThreads
      <4>2. mirrorings[t].pc \in {"find", "create", "update"}
        BY <2>2 DEF Behind
      <4>3. QED
        BY <2>1, <2>7, <4>1, <4>2 DEF Settled
    <3>2. mirrorings'[u] = mirrorings[u]
      BY <2>3, <2>7 DEF MirrorTypeOK
    <3>3. QED
      BY <2>3, <2>4, <2>5, <3>1, <3>2, StillSettled
  <2>8. QED
    BY <2>6, <2>7
<1>7. CASE UNCHANGED mvars
  BY <1>0, <1>7 DEF mvars, Settled, Behind
<1>8. QED
  BY <1>2, <1>3, <1>4, <1>5, <1>6, <1>7 DEF MirrorNext, Mirror

LEMMA PagesStep ==
  ASSUME MirrorTypeOK, MirroringsInv, OnePage, PageShowsRow, [MirrorNext]_mvars
  PROVE  OnePage' /\ PageShowsRow'
<1>1. CASE UNCHANGED <<rows, pages, raced, stale>>
  BY <1>1 DEF OnePage, PageShowsRow
<1>2. ASSUME NEW t \in Mirrorings, CommitRow(t)
      PROVE  OnePage' /\ PageShowsRow'
  <2>1. PICK r \in Records : r = mirrorings[t].record
    BY <1>2, MirroringKinds DEF CommitRow, Asleep
  <2>2. rows'[r] # NoContent
    BY <1>2, <2>1, MirroringKinds DEF CommitRow, Asleep, MirrorTypeOK
  <2>3. /\ \A q \in Records : q # r => rows'[q] = rows[q]
        /\ pages' = pages /\ stale' = stale \cup {r} /\ raced \subseteq raced'
    BY <1>2, <2>1 DEF CommitRow, MirrorTypeOK
  <2>4. QED
    BY <2>2, <2>3 DEF OnePage, PageShowsRow
<1>3. ASSUME NEW t \in Mirrorings, CreatePage(t) \/ UpdatePage(t)
      PROVE  OnePage' /\ PageShowsRow'
  <2>1. PICK r \in Records : r = mirrorings[t].record
    BY <1>3, MirroringKinds DEF CreatePage, UpdatePage, Asleep
  <2>2. PICK c \in Contents : c = mirrorings[t].content
    BY <1>3, MirroringKinds DEF CreatePage, UpdatePage, Asleep
  <2>3. /\ rows[r] # NoContent
        /\ r \notin raced => rows[r] = c
        /\ mirrorings[t].pc = "create" /\ r \notin raced => pages[r] = <<>>
        /\ mirrorings[t].pc = "update" => mirrorings[t].page \in DOMAIN pages[r]
    BY <1>3, <2>1, <2>2 DEF MirroringsInv, CreatePage, UpdatePage
  <2>4. /\ UNCHANGED <<rows, raced>> /\ stale' = stale \ {r}
        /\ \A q \in Records : q # r => pages'[q] = pages[q]
    BY <1>3, <2>1 DEF CreatePage, UpdatePage, Written, MirrorTypeOK
  <2>5. r \notin raced => pages'[r] = <<c>>
    <3>1. CASE CreatePage(t)
      BY <2>1, <2>2, <2>3, <3>1, PageSequences DEF CreatePage, MirrorTypeOK
    <3>2. CASE UpdatePage(t)
      <4>1. pages'[r] = [pages[r] EXCEPT ![mirrorings[t].page] = c]
        BY <2>1, <2>2, <3>2 DEF UpdatePage, Patched, MirrorTypeOK
      <4>2. pages[r] \in Seq(Contents) /\ mirrorings[t].page \in DOMAIN pages[r]
        BY <2>1, <2>3, <3>2 DEF UpdatePage, MirrorTypeOK
      <4>3. r \notin raced => Len(pages[r]) <= 1
        BY DEF OnePage
      <4>4. QED
        BY <4>1, <4>2, <4>3, OnlyPage
    <3>3. QED
      BY <1>3, <3>1, <3>2
  <2>6. Len(<<c>>) = 1
    OBVIOUS
  <2>7. OnePage'
    <3>1. ASSUME NEW q \in Records
          PROVE  /\ q \notin raced' => Len(pages'[q]) <= 1
                 /\ pages'[q] # <<>> => rows'[q] # NoContent
      <4>1. CASE q = r
        <5>1. rows'[q] # NoContent /\ (q \notin raced' => pages'[q] = <<c>>)
          BY <2>3, <2>4, <2>5, <4>1
        <5>2. q \notin raced' => Len(pages'[q]) = 1
          BY <2>6, <5>1, Zenon
        <5>3. 1 <= 1
          OBVIOUS
        <5>4. QED
          BY <5>1, <5>2, <5>3
      <4>2. CASE q # r
        BY <2>4, <4>2 DEF OnePage
      <4>3. QED
        BY <4>1, <4>2
    <3>2. QED
      BY <3>1 DEF OnePage
  <2>8. PageShowsRow'
    <3>1. ASSUME NEW q \in Records, q \notin raced' \cup stale', rows'[q] # NoContent
          PROVE  pages'[q] = <<rows'[q]>>
      <4>1. CASE q = r
        BY <2>3, <2>4, <2>5, <3>1, <4>1
      <4>2. CASE q # r
        BY <2>4, <3>1, <4>2 DEF PageShowsRow
      <4>3. QED
        BY <4>1, <4>2
    <3>2. QED
      BY <3>1 DEF PageShowsRow
  <2>9. QED
    BY <2>7, <2>8
<1>4. QED
  BY <1>1, <1>2, <1>3 DEF MirrorNext, Mirror, mvars, Perform, FindPage, Break

LEMMA MirrorInitial == MirrorInit => MirrorTypeOK /\ MirroringsInv /\ OnePage /\ PageShowsRow
<1> SUFFICES ASSUME MirrorInit PROVE MirrorTypeOK /\ MirroringsInv /\ OnePage /\ PageShowsRow
  OBVIOUS
<1>1. MirrorTypeOK
  BY DEF MirrorInit, MirrorTypeOK
<1>2. MirroringsInv
  BY DEF MirrorInit, MirroringsInv, Asleep
<1>3. OnePage
  BY DEF MirrorInit, OnePage
<1>4. PageShowsRow
  BY DEF MirrorInit, PageShowsRow
<1>5. QED
  BY <1>1, <1>2, <1>3, <1>4

LEMMA MirrorInvariant == MirrorSpec => [](MirrorTypeOK /\ MirroringsInv /\ OnePage /\ PageShowsRow)
<1>1. MirrorTypeOK /\ MirroringsInv /\ OnePage /\ PageShowsRow /\ [MirrorNext]_mvars
        => (MirrorTypeOK /\ MirroringsInv /\ OnePage /\ PageShowsRow)'
  BY MirrorTypeStep, MirroringsStep, PagesStep
<1>2. QED
  BY <1>1, MirrorInitial, PTL DEF MirrorSpec

\* Only threads that overlap on a record can give it a second page.
THEOREM RecordsHaveOnePage == MirrorSpec => []OnePage
  BY MirrorInvariant, PTL

\* An attempt that got through leaves the page showing the row.
THEOREM PagesShowRows == MirrorSpec => []PageShowsRow
  BY MirrorInvariant, PTL

----------------------------------------------------------------------------
(* The deployment.                                                         *)

\* Put together, runners and threads do only what they do on their own, so
\* that the theorems above hold of a deployment.
THEOREM DeploymentImplementsParts == DeploymentSpec => SchemaSpec /\ MirrorSpec
<1>1. DeploymentInit => SchemaInit /\ MirrorInit
  BY DEF DeploymentInit
<1>2. [DeploymentNext]_<<svars, mvars>> => [SchemaNext]_svars /\ [MirrorNext]_mvars
  BY DEF DeploymentNext, MigrationStep, WorkerStep, svars, mvars
<1>3. QED
  BY <1>1, <1>2, PTL DEF DeploymentSpec, SchemaSpec, MirrorSpec

\* What the runs check of a deployment follows from its parts.
THEOREM DeploymentKeepsParts ==
  DeploymentSpec => [](SchemaIsLedger /\ CompletedIsApplied /\ OnePage /\ PageShowsRow)
  BY DeploymentImplementsParts, SchemaMatchesLedger, CompletedRunnersApplied,
     RecordsHaveOnePage, PagesShowRows, PTL

\* A file that was applied stays so: a commit only fills a row that is free.
LEMMA LedgerGrows ==
  ASSUME SchemaTypeOK, RunnersInv, [SchemaNext]_svars
  PROVE  \A f \in Files : ledger[f] # NotApplied => ledger'[f] # NotApplied
<1>1. CASE UNCHANGED ledger
  BY <1>1
<1>2. ASSUME NEW m \in Migrators, Commit(m)
      PROVE  \A f \in Files : ledger[f] # NotApplied => ledger'[f] # NotApplied
  BY <1>2 DEF Commit, RowIsFree, SchemaTypeOK, Ledger
<1>3. QED
  BY <1>1, <1>2 DEF SchemaNext, Migrate, svars, ReadLedger, Skip, Execute, Stop, Finish

LEMMA SupportedStep ==
  ASSUME SchemaTypeOK, RunnersInv, MirrorTypeOK, RowsSupported,
         [DeploymentNext]_<<svars, mvars>>
  PROVE  RowsSupported'
<1>1. \A r \in Records : Supported(r) => Supported(r)'
  <2>1. [SchemaNext]_svars
    BY DEF DeploymentNext, MigrationStep, WorkerStep
  <2>2. QED
    BY <2>1, LedgerGrows DEF Supported, Needs
<1>2. \A r \in Records : rows'[r] # rows[r] => Supported(r)
  BY DEF DeploymentNext, MigrationStep, WorkerStep, mvars
<1>3. QED
  BY <1>1, <1>2 DEF RowsSupported

\* Nothing is written into half a release, whichever runners and workers
\* overlap, fail or stop: the row of a file in the ledger vouches for every
\* file before it.
THEOREM WritesFollowMigrations == DeploymentSpec => []WrittenAfterMigrations
<1>1. DeploymentInit => RowsSupported
  BY DEF DeploymentInit, MirrorInit, RowsSupported
<1>2. ASSUME SchemaTypeOK, SchemaIsLedger, OnePage, RowsSupported
      PROVE  WrittenAfterMigrations
  <2> SUFFICES ASSUME NEW r \in Records, rows[r] # NoContent \/ pages[r] # <<>>,
                      NEW f \in 1..Needs(r)
               PROVE  \E i \in DOMAIN schema : schema[i].file = f
    BY DEF WrittenAfterMigrations
  <2>1. rows[r] # NoContent
    BY <1>2 DEF OnePage
  <2>2. Needs(r) \in DOMAIN schema
    BY <1>2, <2>1 DEF RowsSupported, Supported, SchemaIsLedger
  <2>3. f \in DOMAIN schema
    BY <1>2, <2>2, SchemaElements DEF Needs
  <2>4. QED
    BY <1>2, <2>3 DEF SchemaIsLedger
<1>3. SchemaTypeOK /\ RunnersInv /\ MirrorTypeOK /\ RowsSupported
        /\ [DeploymentNext]_<<svars, mvars>> => RowsSupported'
  BY SupportedStep
<1>4. QED
  BY <1>1, <1>2, <1>3, DeploymentImplementsParts, MigrationsInvariant, MirrorInvariant,
     PTL DEF DeploymentSpec
=============================================================================
