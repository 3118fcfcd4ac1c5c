----------------------- MODULE CandidateSourcingProofs -----------------------
(***************************************************************************)
(* Theorems about CandidateSourcing, for every set of candidates and calls *)
(* and everything the providers, the forms and the people may give.        *)
(***************************************************************************)
EXTENDS CandidateSourcing, TLAPS

----------------------------------------------------------------------------
(* Types.                                                                  *)

\* A call under way and the candidate it serves.
LEMMA CallKinds ==
  ASSUME TypeOK, NEW s \in Calls, calls[s] # Idle
  PROVE  /\ calls[s] \in Serving
         /\ calls[s].pc \in {"stage", "upsert", "start", "select", "select missing", "update"}
         /\ calls[s].candidate \in Candidates /\ calls[s].stage \in Stages
         /\ calls[s].contact \in Contact /\ calls[s].decision \in BOOLEAN
  BY DEF TypeOK, Serving

\* A candidate that is there.
LEMMA RowKinds ==
  ASSUME TypeOK, NEW c \in Candidates, rows[c] # NoRow
  PROVE  rows[c] \in Row /\ rows[c].stage \in Stages /\ rows[c].contact \in Contact
  BY DEF TypeOK, Row

LEMMA BlankIsContact == Blank \in Contact
  BY DEF Blank, Contact, Origins

\* What the routes put together are contacts.
LEMMA DiscoveredIsContact ==
  ASSUME NEW profile \in Profiles
  PROVE  Discovered(profile) \in Contact
<1>1. profile.linkedin \in BOOLEAN /\ profile.origin \in Origins
  BY InputsAssumption DEF Origins
<1>2. Stored(profile) \in BOOLEAN /\ (~ HasChannel(profile)) \in BOOLEAN
  BY DEF Stored, HasChannel
<1>3. QED
  BY <1>1, <1>2 DEF Discovered, Contact

LEMMA FormIsContact ==
  ASSUME NEW form \in Forms
  PROVE  [email |-> form.email, linkedin |-> form.linkedin,
          needs |-> FALSE, origin |-> "form"] \in Contact
  BY InputsAssumption DEF Contact, Origins

LEMMA AnswersAreContacts ==
  ASSUME NEW contact \in Contact
  PROVE  /\ \A match \in Matches : ApolloContact(contact, match) \in Contact
         /\ \A linkedin \in Handles : HunterContact(contact, linkedin) \in Contact
<1>1. ASSUME NEW match \in Matches
      PROVE  ApolloContact(contact, match) \in Contact
  <2>1. match.linkedin \in BOOLEAN
    BY InputsAssumption
  <2> DEFINE e == match.email = "given" \/ (match.email = "none" /\ contact.email)
             l == match.linkedin \/ contact.linkedin
  <2>2. e \in BOOLEAN /\ l \in BOOLEAN /\ (~ (e \/ l)) \in BOOLEAN
    OBVIOUS
  <2> HIDE DEF e, l
  <2>3. [contact EXCEPT !.email = e, !.linkedin = l, !.needs = ~ (e \/ l)] \in Contact
    BY <2>2 DEF Contact
  <2>4. QED
    BY <2>3 DEF ApolloContact, e, l
<1>2. ASSUME NEW linkedin \in Handles
      PROVE  HunterContact(contact, linkedin) \in Contact
  <2>1. (linkedin \/ contact.linkedin) \in BOOLEAN
    OBVIOUS
  <2>2. QED
    BY <2>1 DEF HunterContact, Contact
<1>3. QED
  BY <1>1, <1>2

LEMMA MergesAreContacts ==
  ASSUME NEW contact \in Contact, NEW row \in Row, NEW needs \in BOOLEAN
  PROVE  /\ Metadata(row, needs) \in Contact
         /\ [contact EXCEPT !.email = row.contact.email,
                            !.linkedin = row.contact.linkedin] \in Contact
  BY BlankIsContact DEF Row, Contact, Metadata, Blank

\* A run writes rows.
LEMMA RunRowsAreRows ==
  ASSUME TypeOK, NEW c \in Candidates, runs[c] # NoRun
  PROVE  RunRows(c) \subseteq Row
  BY InputsAssumption DEF TypeOK, RunRows, Row

\* Starting a lifecycle.
LEMMA StartTypes ==
  ASSUME TypeOK, NEW c \in Candidates, NEW contact \in Contact, Start(c, contact)
  PROVE  /\ runs' \in [Candidates -> Contact \cup {NoRun}]
         /\ served' \subseteq Candidates
         /\ decided' \in [Candidates -> Stages \cup {"none"}]
  BY DEF TypeOK, Start

\* What a served call turns into.
LEMMA BecomeTypes ==
  ASSUME TypeOK, NEW s \in Calls, NEW call \in Serving \cup {Idle}, Become(s, call)
  PROVE  calls' \in [Calls -> Serving \cup {Idle}]
  BY DEF TypeOK, Become

\* Routes that only read, and what they take with them.
Beginning(s, c, call) ==
  /\ calls[s] = Idle
  /\ Become(s, call)
  /\ call.candidate = c
  /\ call.pc \notin {"stage", "start"} => rows[c] # NoRow
  /\ UNCHANGED <<rows, runs, late, served, decided>>

LEMMA BeginTypes ==
  ASSUME TypeOK, KnownInv, NEW s \in Calls, NEW c \in Candidates,
         NEW call \in Serving, Beginning(s, c, call)
  PROVE  TypeOK' /\ KnownInv'
<1>1. calls' = [calls EXCEPT ![s] = call]
  BY DEF Beginning, Become
<1>2. TypeOK'
  BY <1>1 DEF TypeOK, Beginning
<1>3. KnownInv'
  BY <1>1 DEF KnownInv, Beginning, TypeOK
<1>4. QED
  BY <1>2, <1>3

\* A write of a row takes nobody's row away.
LEMMA RowsStay ==
  ASSUME TypeOK, KnownInv, NEW c \in Candidates, NEW row, row # NoRow,
         rows' = [rows EXCEPT ![c] = row], UNCHANGED calls
  PROVE  KnownInv'
<1> SUFFICES ASSUME NEW s \in Calls, calls[s] # Idle, calls[s].pc \notin {"stage", "start"}
             PROVE  rows'[calls[s].candidate] # NoRow
  BY DEF KnownInv
<1>1. rows[calls[s].candidate] # NoRow /\ calls[s].candidate \in Candidates
  BY CallKinds DEF KnownInv
<1>2. QED
  BY <1>1 DEF TypeOK

\* An update records a decision of somebody's, or none.
LEMMA DecidedTypes ==
  ASSUME TypeOK, NEW s \in Calls, Update(s)
  PROVE  decided' \in [Candidates -> Stages \cup {"none"}]
  BY CallKinds DEF TypeOK, Update, At

LEMMA TypeStep ==
  ASSUME TypeOK, KnownInv, [Next]_svars
  PROVE  TypeOK' /\ KnownInv'
<1>1. ASSUME NEW s \in Calls, NEW c \in Candidates, NEW profile \in Profiles,
             SearchStarts(s, c, profile)
      PROVE  TypeOK' /\ KnownInv'
  BY <1>1, DiscoveredIsContact, StartTypes DEF SearchStarts, TypeOK, KnownInv
<1>2. ASSUME NEW s \in Calls, NEW c \in Candidates, NEW profile \in Profiles,
             SearchFindsNone(s, c, profile)
      PROVE  TypeOK' /\ KnownInv'
  <2> DEFINE call == [pc |-> "stage", candidate |-> c, stage |-> "ingested",
                      contact |-> Discovered(profile), decision |-> FALSE]
  <2>1. call \in Serving /\ Beginning(s, c, call)
    BY <1>2, DiscoveredIsContact DEF SearchFindsNone, Serving, Beginning, Stages
  <2>2. QED
    BY <2>1, BeginTypes
<1>3. ASSUME NEW s \in Calls, NEW c \in Candidates, ApolloCannotAsk(s, c)
      PROVE  TypeOK' /\ KnownInv'
  <2> DEFINE call == [pc |-> "select", candidate |-> c, stage |-> rows[c].stage,
                      contact |-> Blank, decision |-> FALSE]
  <2>1. call \in Serving /\ Beginning(s, c, call)
    BY <1>3, RowKinds, BlankIsContact DEF ApolloCannotAsk, Read, Serving, Beginning
  <2>2. QED
    BY <2>1, BeginTypes
<1>4. ASSUME NEW s \in Calls, NEW c \in Candidates, NotFound(s, c)
      PROVE  TypeOK' /\ KnownInv'
  <2> DEFINE call == [pc |-> "select missing", candidate |-> c, stage |-> rows[c].stage,
                      contact |-> Blank, decision |-> FALSE]
  <2>1. call \in Serving /\ Beginning(s, c, call)
    BY <1>4, RowKinds, BlankIsContact DEF NotFound, Read, Serving, Beginning
  <2>2. QED
    BY <2>1, BeginTypes
<1>5. ASSUME NEW s \in Calls, NEW c \in Candidates, NEW match \in Matches,
             ApolloFound(s, c, match)
      PROVE  TypeOK' /\ KnownInv'
  <2> DEFINE call == [pc |-> "upsert", candidate |-> c, stage |-> rows[c].stage,
                      contact |-> ApolloContact(rows[c].contact, match),
                      decision |-> FALSE]
  <2>1. call \in Serving /\ Beginning(s, c, call)
    BY <1>5, RowKinds, AnswersAreContacts DEF ApolloFound, Read, Serving, Beginning
  <2>2. QED
    BY <2>1, BeginTypes
<1>6. ASSUME NEW s \in Calls, NEW c \in Candidates, NEW linkedin \in Handles,
             HunterFound(s, c, linkedin)
      PROVE  TypeOK' /\ KnownInv'
  <2> DEFINE call == [pc |-> "upsert", candidate |-> c, stage |-> rows[c].stage,
                      contact |-> HunterContact(rows[c].contact, linkedin),
                      decision |-> FALSE]
  <2>1. call \in Serving /\ Beginning(s, c, call)
    BY <1>6, RowKinds, AnswersAreContacts DEF HunterFound, Read, Serving, Beginning
  <2>2. QED
    BY <2>1, BeginTypes
<1>7. ASSUME NEW s \in Calls, Upsert(s)
      PROVE  TypeOK' /\ KnownInv'
  <2>1. calls[s] # Idle /\ calls[s] \in Serving
    BY <1>7, CallKinds DEF Upsert, At
  <2>2. Written(calls[s]) \in Row /\ Written(calls[s]) # NoRow
    BY <2>1 DEF Written, Row, Serving, NoRow, Stages
  <2>3. AfterUpsert(calls[s]) \in Serving \cup {Idle}
    BY <2>1 DEF AfterUpsert, ForRun, Serving, Stages
  <2>4. AfterUpsert(calls[s]) = Idle \/ AfterUpsert(calls[s]).pc = "start"
    BY <2>1 DEF AfterUpsert, ForRun, Serving
  <2>5. rows' = [rows EXCEPT ![calls[s].candidate] = Written(calls[s])]
        /\ calls' = [calls EXCEPT ![s] = AfterUpsert(calls[s])]
    BY <1>7 DEF Upsert, Become
  <2>6. TypeOK'
    BY <1>7, <2>2, <2>3, <2>5 DEF Upsert, TypeOK
  <2>7. KnownInv'
    <3> SUFFICES ASSUME NEW t \in Calls, (calls[t] # Idle)',
                        (calls[t].pc \notin {"stage", "start"})'
                 PROVE  (rows[calls[t].candidate] # NoRow)'
      BY DEF KnownInv
    <3>1. t # s
      BY <2>4, <2>5 DEF TypeOK
    <3>2. calls'[t] = calls[t]
      BY <2>5, <3>1 DEF TypeOK
    <3>3. rows[calls[t].candidate] # NoRow /\ calls[t].candidate \in Candidates
      BY <3>2, CallKinds DEF KnownInv
    <3>4. QED
      BY <2>2, <2>5, <3>2, <3>3 DEF TypeOK
  <2>8. QED
    BY <2>6, <2>7
<1>8. ASSUME NEW s \in Calls, StartFound(s)
      PROVE  TypeOK' /\ KnownInv'
  <2>1. calls[s].candidate \in Candidates /\ calls[s].contact \in Contact
    BY <1>8, CallKinds DEF StartFound, At
  <2>2. Start(calls[s].candidate, calls[s].contact) /\ calls' = [calls EXCEPT ![s] = Idle]
        /\ UNCHANGED <<rows, late>>
    BY <1>8 DEF StartFound, Become
  <2>3. TypeOK'
    BY <2>1, <2>2, StartTypes DEF TypeOK
  <2>4. KnownInv'
    BY <2>2 DEF KnownInv, TypeOK
  <2>5. QED
    BY <2>3, <2>4
<1>9. ASSUME NEW s \in Calls, Select(s)
      PROVE  TypeOK' /\ KnownInv'
  <2> DEFINE needs == rows[calls[s].candidate].contact.needs \/ At(s, "select missing")
             call == [calls[s] EXCEPT !.pc = "update",
                        !.contact = Metadata(rows[calls[s].candidate], needs)]
  <2>1. calls[s] # Idle /\ calls[s] \in Serving /\ rows[calls[s].candidate] # NoRow
    BY <1>9, CallKinds DEF Select, At, KnownInv
  <2>2. rows[calls[s].candidate] \in Row
    BY <2>1, RowKinds DEF Serving
  <2>3. needs \in BOOLEAN
    OBVIOUS
  <2>4. Metadata(rows[calls[s].candidate], needs) \in Contact
    BY <2>2, <2>3, MergesAreContacts, BlankIsContact
  <2>5. call \in Serving /\ call.candidate = calls[s].candidate
    BY <2>1, <2>4 DEF Serving
  <2>6. calls' = [calls EXCEPT ![s] = call] /\ UNCHANGED <<rows, runs, late, served, decided>>
    BY <1>9 DEF Select, Become
  <2> HIDE DEF call
  <2>7. TypeOK'
    BY <2>5, <2>6 DEF TypeOK
  <2>8. KnownInv'
    BY <2>1, <2>5, <2>6 DEF KnownInv, TypeOK
  <2>9. QED
    BY <2>7, <2>8
<1>10. ASSUME NEW s \in Calls, Update(s)
       PROVE  TypeOK' /\ KnownInv'
  <2> DEFINE c == calls[s].candidate
             row == Merged(rows[c], calls[s])
  <2>1. calls[s] # Idle /\ calls[s] \in Serving /\ c \in Candidates /\ rows[c] # NoRow
    BY <1>10, CallKinds DEF Update, At, KnownInv, Serving
  <2>2. rows[c] \in Row
    BY <2>1, RowKinds
  <2>3. row \in Row /\ row # NoRow
    BY <2>1, <2>2, MergesAreContacts DEF Merged, Row, NoRow, Serving, Stages
  <2>4. rows' = [rows EXCEPT ![c] = row] /\ calls' = [calls EXCEPT ![s] = Idle]
        /\ UNCHANGED <<runs, late, served>>
    BY <1>10 DEF Update, Become
  <2>5. decided' \in [Candidates -> Stages \cup {"none"}]
    BY <1>10, <2>1, DecidedTypes
  <2> HIDE DEF row
  <2>6. TypeOK'
    BY <2>3, <2>4, <2>5 DEF TypeOK
  <2>7. KnownInv'
    <3> SUFFICES ASSUME NEW t \in Calls, (calls[t] # Idle)',
                        (calls[t].pc \notin {"stage", "start"})'
                 PROVE  (rows[calls[t].candidate] # NoRow)'
      BY DEF KnownInv
    <3>1. calls'[t] = calls[t]
      BY <2>4 DEF TypeOK
    <3>2. rows[calls[t].candidate] # NoRow /\ calls[t].candidate \in Candidates
      BY <3>1, CallKinds DEF KnownInv
    <3>3. QED
      BY <2>3, <2>4, <3>1, <3>2 DEF TypeOK
  <2>8. QED
    BY <2>6, <2>7
<1>11. ASSUME NEW s \in Calls, NEW c \in Candidates, NEW form \in Forms, Create(s, c, form)
       PROVE  TypeOK' /\ KnownInv'
  BY <1>11, FormIsContact, StartTypes DEF Create, TypeOK, KnownInv
<1>12. ASSUME NEW s \in Calls, NEW c \in Candidates, NEW stage \in Decisions,
              Decide(s, c, stage)
       PROVE  TypeOK' /\ KnownInv'
  <2> DEFINE call == [pc |-> "select", candidate |-> c, stage |-> stage,
                      contact |-> Blank, decision |-> TRUE]
  <2>1. call \in Serving /\ Beginning(s, c, call)
    BY <1>12, InputsAssumption, BlankIsContact DEF Decide, Serving, Beginning, Stages
  <2>2. QED
    BY <2>1, BeginTypes
<1>13. ASSUME NEW s \in Calls, Interrupt(s)
       PROVE  TypeOK' /\ KnownInv'
  <2>1. calls[s].candidate \in Candidates
    BY <1>13, CallKinds DEF Interrupt
  <2>2. QED
    BY <1>13, <2>1 DEF Interrupt, Become, TypeOK, KnownInv
<1>14. ASSUME NEW c \in Candidates, RunWrite(c)
       PROVE  TypeOK' /\ KnownInv'
  <2>1. PICK row \in RunRows(c) : rows' = [rows EXCEPT ![c] = row]
    BY <1>14 DEF RunWrite
  <2>2. row \in Row /\ row # NoRow
    BY <1>14, RunRowsAreRows, <2>1 DEF RunWrite, Row, NoRow, Stages
  <2>3. QED
    BY <1>14, <2>1, <2>2, RowsStay DEF RunWrite, TypeOK
<1>15. ASSUME NEW c \in Candidates, RunEnd(c)
       PROVE  TypeOK' /\ KnownInv'
  BY <1>15, RunRowsAreRows DEF RunEnd, TypeOK, KnownInv
<1>16. ASSUME NEW c \in Candidates, LateWrite(c)
       PROVE  TypeOK' /\ KnownInv'
  <2>1. PICK l \in late : rows' = [rows EXCEPT ![c] = l[2]] /\ late' = late \ {l}
    BY <1>16 DEF LateWrite
  <2>2. l[2] \in Row /\ l[2] # NoRow
    BY <2>1 DEF TypeOK, Row, NoRow, Stages
  <2>3. QED
    BY <1>16, <2>1, <2>2, RowsStay DEF LateWrite, TypeOK
<1>17. ASSUME NEW c \in Candidates, LateLost(c)
       PROVE  TypeOK' /\ KnownInv'
  BY <1>17 DEF LateLost, TypeOK, KnownInv
<1>18. CASE UNCHANGED svars
  BY <1>18 DEF svars, TypeOK, KnownInv
<1>19. QED
  BY <1>1, <1>2, <1>3, <1>4, <1>5, <1>6, <1>7, <1>8, <1>9, <1>10, <1>11, <1>12, <1>13,
     <1>14, <1>15, <1>16, <1>17, <1>18 DEF Next, Serve

\* The tables, the calls and the runs keep their types, and a call that is
\* about to write a candidate back still finds it.
THEOREM SourcingTypeCorrect == Spec => [](TypeOK /\ KnownInv)
<1>1. Init => TypeOK /\ KnownInv
  BY DEF Init, TypeOK, KnownInv
<1>2. TypeOK /\ KnownInv /\ [Next]_svars => (TypeOK /\ KnownInv)'
  BY TypeStep
<1>3. QED
  BY <1>1, <1>2, PTL DEF Spec

----------------------------------------------------------------------------
(* Nobody is forgotten.                                                    *)

\* Marked candidates and contacts.
LEMMA Marks ==
  /\ \A contact \in Contact, match \in Matches :
       Reachable(ApolloContact(contact, match)) \/ ApolloContact(contact, match).needs
  /\ \A contact \in Contact, linkedin \in Handles : Reachable(HunterContact(contact, linkedin))
  /\ \A profile \in Profiles : ~ HasChannel(profile) => Discovered(profile).needs
  BY DEF Contact, ApolloContact, HunterContact, Reachable, Discovered, HasChannel

\* Served once is served for good: the call that was about to start a
\* lifecycle starts it, finds one open, or is cut off.
LEMMA ServedStays ==
  ASSUME TypeOK, UnmarkedInv, [Next]_svars, NEW c \in Candidates, Served(c)
  PROVE  Served(c)'
<1>1. served \subseteq served'
  BY DEF Next, Serve, svars, SearchStarts, Start, SearchFindsNone, ApolloCannotAsk,
         NotFound, ApolloFound, HunterFound, Upsert, StartFound, Select, Update, Create,
         Decide, Interrupt, RunWrite, RunEnd, LateWrite, LateLost
<1>2. CASE c \in served
  BY <1>1, <1>2 DEF Served
<1>3. ASSUME NEW s \in Calls, At(s, "start"), calls[s].candidate = c
      PROVE  Served(c)'
  <2>1. CASE calls'[s] = calls[s]
    BY <1>3, <2>1 DEF Served, At
  <2>2. CASE StartFound(s)
    BY <1>3, <2>2 DEF StartFound, Start, UnmarkedInv, Served, TypeOK
  <2>3. CASE Interrupt(s)
    BY <1>3, <2>3 DEF Interrupt, Served
  <2>4. ASSUME calls'[s] # calls[s], ~ StartFound(s), ~ Interrupt(s)
        PROVE  FALSE
    <3>1. calls[s] # Idle /\ ~ At(s, "stage") /\ ~ At(s, "upsert") /\ ~ At(s, "select")
          /\ ~ At(s, "select missing") /\ ~ At(s, "update")
      BY <1>3 DEF At
    <3>2. ASSUME NEW t \in Calls, NEW call, Become(t, call), t # s
          PROVE  calls'[s] = calls[s]
      BY <3>2 DEF Become, TypeOK
    <3>3. ASSUME NEW t \in Calls, Serve(t)
          PROVE  FALSE
      BY <3>1, <3>2, <3>3, <2>4 DEF Serve, SearchStarts, SearchFindsNone, ApolloCannotAsk,
         NotFound, ApolloFound, HunterFound, Upsert, StartFound, Select, Update, Create,
         Decide, Interrupt, Read
    <3>4. QED
      BY <3>3, <2>4 DEF Next, svars, RunWrite, RunEnd, LateWrite, LateLost
  <2>5. QED
    BY <2>1, <2>2, <2>3, <2>4
<1>4. QED
  BY <1>2, <1>3 DEF Served

\* UnmarkedInv of one call, of the table, and of the worker.
CallMarks(s) ==
  /\ At(s, "stage") => calls[s].contact.needs
  /\ At(s, "upsert") /\ ~ Reachable(calls[s].contact) => calls[s].contact.needs
  /\ At(s, "update") /\ ~ calls[s].contact.needs => Served(calls[s].candidate)

RunMarks ==
  /\ \A c \in Candidates : runs[c] # NoRun => c \in served
  /\ \A l \in late : l[1] \in served

\* A call that is not touched keeps its marks.
LEMMA OtherCalls ==
  ASSUME TypeOK, UnmarkedInv, [Next]_svars, NEW t \in Calls, calls'[t] = calls[t]
  PROVE  CallMarks(t)'
<1>1. At(t, "update") => calls[t].candidate \in Candidates
  BY CallKinds DEF At
<1>2. CASE At(t, "update") /\ ~ calls[t].contact.needs
  <2>1. Served(calls[t].candidate)'
    BY <1>1, <1>2, ServedStays DEF UnmarkedInv
  <2>2. QED
    BY <1>2, <2>1 DEF CallMarks, At, Served, UnmarkedInv
<1>3. CASE ~ (At(t, "update") /\ ~ calls[t].contact.needs)
  BY <1>3 DEF CallMarks, At, UnmarkedInv
<1>4. QED
  BY <1>2, <1>3

\* A step that leaves the table alone and one call with its marks.
LEMMA OneCall ==
  ASSUME TypeOK, UnmarkedInv, [Next]_svars, NEW s \in Calls, NEW call,
         Become(s, call), CallMarks(s)', rows' = rows, RunMarks'
  PROVE  UnmarkedInv'
<1>1. \A t \in Calls : CallMarks(t)'
  <2>1. ASSUME NEW t \in Calls, t # s
        PROVE  CallMarks(t)'
    BY <2>1, OtherCalls DEF Become, TypeOK
  <2>2. QED
    BY <2>1
<1>2. UnmarkedIsStarted'
  BY ServedStays DEF UnmarkedInv, UnmarkedIsStarted
<1>3. QED
  BY <1>1, <1>2 DEF UnmarkedInv, CallMarks, RunMarks

\* A step of the worker that writes the row of a served candidate.
LEMMA OneRow ==
  ASSUME TypeOK, UnmarkedInv, [Next]_svars, NEW c \in Candidates, NEW row,
         rows' = [rows EXCEPT ![c] = row], c \in served, UNCHANGED calls, RunMarks'
  PROVE  UnmarkedInv'
<1>1. \A t \in Calls : CallMarks(t)'
  BY OtherCalls
<1>2. UnmarkedIsStarted'
  <2> SUFFICES ASSUME NEW d \in Candidates, (rows[d] # NoRow /\ ~ rows[d].contact.needs)'
               PROVE  Served(d)'
    BY DEF UnmarkedIsStarted
  <2>1. CASE d = c
    BY <2>1, ServedStays DEF Served
  <2>2. CASE d # c
    BY <2>2, ServedStays DEF TypeOK, UnmarkedInv, UnmarkedIsStarted
  <2>3. QED
    BY <2>1, <2>2
<1>3. QED
  BY <1>1, <1>2 DEF UnmarkedInv, CallMarks, RunMarks

LEMMA UnmarkedStep ==
  ASSUME TypeOK, KnownInv, UnmarkedInv, [Next]_svars
  PROVE  UnmarkedInv'
<1>0. RunMarks
  BY DEF RunMarks, UnmarkedInv
<1>1. ASSUME NEW s \in Calls, NEW c \in Candidates, NEW profile \in Profiles,
             SearchStarts(s, c, profile)
      PROVE  UnmarkedInv'
  <2>1. RunMarks'
    BY <1>0, <1>1 DEF SearchStarts, Start, RunMarks, TypeOK
  <2>2. \A t \in Calls : CallMarks(t)'
    BY <1>1, OtherCalls DEF SearchStarts
  <2>3. UnmarkedIsStarted'
    BY <1>1, ServedStays DEF SearchStarts, UnmarkedInv, UnmarkedIsStarted
  <2>4. QED
    BY <2>1, <2>2, <2>3 DEF UnmarkedInv, CallMarks, RunMarks
<1>2. ASSUME NEW s \in Calls, NEW c \in Candidates, NEW profile \in Profiles,
             SearchFindsNone(s, c, profile)
      PROVE  UnmarkedInv'
  BY <1>0, <1>2, OneCall, Marks DEF SearchFindsNone, Become, CallMarks, At, RunMarks, TypeOK
<1>3. ASSUME NEW s \in Calls, NEW c \in Candidates, ApolloCannotAsk(s, c)
      PROVE  UnmarkedInv'
  BY <1>0, <1>3, OneCall DEF ApolloCannotAsk, Become, CallMarks, At, RunMarks, TypeOK
<1>4. ASSUME NEW s \in Calls, NEW c \in Candidates, NotFound(s, c)
      PROVE  UnmarkedInv'
  BY <1>0, <1>4, OneCall DEF NotFound, Become, CallMarks, At, RunMarks, TypeOK
<1>5. ASSUME NEW s \in Calls, NEW c \in Candidates, NEW match \in Matches,
             ApolloFound(s, c, match)
      PROVE  UnmarkedInv'
  <2>1. rows[c].contact \in Contact
    BY <1>5, RowKinds DEF ApolloFound, Read
  <2>2. QED
    BY <1>0, <1>5, <2>1, OneCall, Marks DEF ApolloFound, Become, CallMarks, At, RunMarks, TypeOK
<1>6. ASSUME NEW s \in Calls, NEW c \in Candidates, NEW linkedin \in Handles,
             HunterFound(s, c, linkedin)
      PROVE  UnmarkedInv'
  <2>1. rows[c].contact \in Contact
    BY <1>6, RowKinds DEF HunterFound, Read
  <2>2. QED
    BY <1>0, <1>6, <2>1, OneCall, Marks DEF HunterFound, Become, CallMarks, At, RunMarks, TypeOK
<1>7. ASSUME NEW s \in Calls, Upsert(s)
      PROVE  UnmarkedInv'
  <2> DEFINE c == calls[s].candidate
  <2>1. calls[s] # Idle /\ calls[s] \in Serving /\ c \in Candidates
    BY <1>7, CallKinds DEF Upsert, At
  <2>2. rows' = [rows EXCEPT ![c] = Written(calls[s])]
        /\ calls' = [calls EXCEPT ![s] = AfterUpsert(calls[s])]
        /\ UNCHANGED <<runs, late, served, decided>>
    BY <1>7 DEF Upsert, Become
  <2>3. AfterUpsert(calls[s]) = Idle \/ AfterUpsert(calls[s]).pc = "start"
    BY <2>1 DEF AfterUpsert, ForRun, Serving
  <2>4. \A t \in Calls : CallMarks(t)'
    <3>1. CallMarks(s)'
      BY <2>2, <2>3 DEF CallMarks, At, TypeOK
    <3>2. ASSUME NEW t \in Calls, t # s
          PROVE  CallMarks(t)'
      BY <2>2, <3>2, OtherCalls DEF TypeOK
    <3>3. QED
      BY <3>1, <3>2
  <2>5. UnmarkedIsStarted'
    <3> SUFFICES ASSUME NEW d \in Candidates, (rows[d] # NoRow /\ ~ rows[d].contact.needs)'
                 PROVE  Served(d)'
      BY DEF UnmarkedIsStarted
    <3>1. CASE d = c
      <4>1. ~ calls[s].contact.needs
        BY <2>2, <3>1 DEF TypeOK, Written
      <4>2. At(s, "upsert") /\ Reachable(calls[s].contact)
        BY <1>7, <4>1 DEF Upsert, UnmarkedInv
      <4>3. calls'[s] = ForRun(calls[s])
        BY <2>2, <4>2 DEF AfterUpsert, At, TypeOK
      <4>4. ForRun(calls[s]) # Idle /\ ForRun(calls[s]).pc = "start"
            /\ ForRun(calls[s]).candidate = c
        BY <2>1 DEF ForRun, Idle, Serving
      <4>5. QED
        BY <3>1, <4>3, <4>4 DEF Served, At
    <3>2. CASE d # c
      BY <2>2, <3>2, ServedStays DEF TypeOK, UnmarkedInv, UnmarkedIsStarted
    <3>3. QED
      BY <3>1, <3>2
  <2>6. QED
    BY <1>0, <2>2, <2>4, <2>5 DEF UnmarkedInv, CallMarks, RunMarks
<1>8. ASSUME NEW s \in Calls, StartFound(s)
      PROVE  UnmarkedInv'
  <2>1. calls[s].candidate \in Candidates
    BY <1>8, CallKinds DEF StartFound, At
  <2>2. RunMarks'
    BY <1>0, <1>8, <2>1 DEF StartFound, Start, RunMarks, TypeOK
  <2>3. QED
    BY <1>8, <2>2, OneCall DEF StartFound, Become, CallMarks, At, TypeOK
<1>9. ASSUME NEW s \in Calls, Select(s)
      PROVE  UnmarkedInv'
  <2> DEFINE c == calls[s].candidate
             needs == rows[c].contact.needs \/ At(s, "select missing")
             call == [calls[s] EXCEPT !.pc = "update", !.contact = Metadata(rows[c], needs)]
  <2>1. calls[s] # Idle /\ calls[s] \in Serving /\ c \in Candidates /\ rows[c] # NoRow
    BY <1>9, CallKinds DEF Select, At, KnownInv
  <2>2. Become(s, call) /\ UNCHANGED <<rows, runs, late, served, decided>>
    BY <1>9 DEF Select
  <2>3. Metadata(rows[c], needs).needs = needs
    BY DEF Metadata, Blank
  <2>4. call.pc = "update" /\ call.candidate = c /\ call.contact.needs = needs
    BY <2>1, <2>3 DEF Serving
  <2>5. \A d \in Candidates : d = c /\ ~ needs => Served(d)'
    BY <2>1, ServedStays DEF UnmarkedInv, UnmarkedIsStarted
  <2>6. calls'[s] = call
    BY <2>2 DEF Become, TypeOK
  <2> HIDE DEF call, needs
  <2>7. CallMarks(s)'
    BY <2>1, <2>4, <2>5, <2>6 DEF CallMarks, At
  <2>8. QED
    BY <1>0, <2>2, <2>7, OneCall DEF RunMarks
<1>10. ASSUME NEW s \in Calls, Update(s)
       PROVE  UnmarkedInv'
  <2> DEFINE c == calls[s].candidate
  <2>1. calls[s] # Idle /\ calls[s] \in Serving /\ c \in Candidates
    BY <1>10, CallKinds DEF Update, At
  <2>2. rows' = [rows EXCEPT ![c] = Merged(rows[c], calls[s])]
        /\ calls' = [calls EXCEPT ![s] = Idle] /\ UNCHANGED <<runs, late, served>>
    BY <1>10 DEF Update, Become
  <2>3. \A t \in Calls : CallMarks(t)'
    <3>1. CallMarks(s)'
      BY <2>2 DEF CallMarks, At, TypeOK
    <3>2. ASSUME NEW t \in Calls, t # s
          PROVE  CallMarks(t)'
      BY <2>2, <3>2, OtherCalls DEF TypeOK
    <3>3. QED
      BY <3>1, <3>2
  <2>4. UnmarkedIsStarted'
    <3> SUFFICES ASSUME NEW d \in Candidates, (rows[d] # NoRow /\ ~ rows[d].contact.needs)'
                 PROVE  Served(d)'
      BY DEF UnmarkedIsStarted
    <3>1. CASE d = c
      <4>1. Merged(rows[c], calls[s]).contact.needs = calls[s].contact.needs
        BY <2>1 DEF Merged, Serving, Contact
      <4>2. Served(c)
        BY <1>10, <2>2, <3>1, <4>1 DEF Update, UnmarkedInv, TypeOK
      <4>3. QED
        BY <2>1, <3>1, <4>2, ServedStays
    <3>2. CASE d # c
      BY <2>2, <3>2, ServedStays DEF TypeOK, UnmarkedInv, UnmarkedIsStarted
    <3>3. QED
      BY <3>1, <3>2
  <2>5. QED
    BY <1>0, <2>2, <2>3, <2>4 DEF UnmarkedInv, CallMarks, RunMarks
<1>11. ASSUME NEW s \in Calls, NEW c \in Candidates, NEW form \in Forms, Create(s, c, form)
       PROVE  UnmarkedInv'
  <2>1. RunMarks'
    BY <1>0, <1>11 DEF Create, Start, RunMarks, TypeOK
  <2>2. \A t \in Calls : CallMarks(t)'
    BY <1>11, OtherCalls DEF Create
  <2>3. UnmarkedIsStarted'
    BY <1>11, ServedStays DEF Create, UnmarkedInv, UnmarkedIsStarted
  <2>4. QED
    BY <2>1, <2>2, <2>3 DEF UnmarkedInv, CallMarks, RunMarks
<1>12. ASSUME NEW s \in Calls, NEW c \in Candidates, NEW stage \in Decisions,
              Decide(s, c, stage)
       PROVE  UnmarkedInv'
  BY <1>0, <1>12, OneCall DEF Decide, Become, CallMarks, At, RunMarks, TypeOK
<1>13. ASSUME NEW s \in Calls, Interrupt(s)
       PROVE  UnmarkedInv'
  BY <1>0, <1>13, OneCall DEF Interrupt, Become, CallMarks, At, RunMarks, TypeOK
<1>14. ASSUME NEW c \in Candidates, RunWrite(c)
       PROVE  UnmarkedInv'
  BY <1>0, <1>14, OneRow DEF RunWrite, RunMarks
<1>15. ASSUME NEW c \in Candidates, RunEnd(c)
       PROVE  UnmarkedInv'
  <2>1. RunMarks'
    BY <1>0, <1>15 DEF RunEnd, RunMarks, TypeOK
  <2>2. \A t \in Calls : CallMarks(t)'
    BY <1>15, OtherCalls DEF RunEnd
  <2>3. UnmarkedIsStarted'
    BY <1>15, ServedStays DEF RunEnd, UnmarkedInv, UnmarkedIsStarted
  <2>4. QED
    BY <2>1, <2>2, <2>3 DEF UnmarkedInv, CallMarks, RunMarks
<1>16. ASSUME NEW c \in Candidates, LateWrite(c)
       PROVE  UnmarkedInv'
  BY <1>0, <1>16, OneRow DEF LateWrite, RunMarks
<1>17. ASSUME NEW c \in Candidates, LateLost(c)
       PROVE  UnmarkedInv'
  <2>1. RunMarks'
    BY <1>0, <1>17 DEF LateLost, RunMarks
  <2>2. \A t \in Calls : CallMarks(t)'
    BY <1>17, OtherCalls DEF LateLost
  <2>3. UnmarkedIsStarted'
    BY <1>17, ServedStays DEF LateLost, UnmarkedInv, UnmarkedIsStarted
  <2>4. QED
    BY <2>1, <2>2, <2>3 DEF UnmarkedInv, CallMarks, RunMarks
<1>18. CASE UNCHANGED svars
  BY <1>18 DEF svars, UnmarkedInv, UnmarkedIsStarted, Served, At
<1>19. QED
  BY <1>1, <1>2, <1>3, <1>4, <1>5, <1>6, <1>7, <1>8, <1>9, <1>10, <1>11, <1>12, <1>13,
     <1>14, <1>15, <1>16, <1>17, <1>18 DEF Next, Serve

\* Nobody is forgotten: a candidate not marked as needing contact data has had
\* a lifecycle started, or a call is about to or was cut off.
THEOREM UnmarkedAreStarted == Spec => []UnmarkedIsStarted
<1>1. Init => UnmarkedInv
  BY DEF Init, UnmarkedInv, UnmarkedIsStarted, At
<1>2. TypeOK /\ KnownInv /\ UnmarkedInv /\ [Next]_svars => UnmarkedInv'
  BY UnmarkedStep
<1>3. UnmarkedInv => UnmarkedIsStarted
  BY DEF UnmarkedInv
<1>4. QED
  BY <1>1, <1>2, <1>3, SourcingTypeCorrect, PTL DEF Spec

----------------------------------------------------------------------------
(* Decisions stand.                                                        *)

\* DecisionInv of one candidate.
Stands(c) ==
  decided[c] # "none" =>
    /\ rows[c] # NoRow
    /\ rows[c].stage = decided[c]
    /\ runs[c] = NoRun
    /\ \A l \in late : l[1] # c
    /\ \A s \in Calls :
         calls[s] # Idle /\ calls[s].candidate = c /\ calls[s].pc # "start" =>
           /\ calls[s].pc # "stage"
           /\ (calls[s].decision /\ calls[s].pc # "upsert") \/ calls[s].stage = decided[c]

LEMMA StandsSuffices ==
  /\ DecisionInv <=> \A c \in Candidates : Stands(c)
  /\ DecisionInv' <=> \A c \in Candidates : Stands(c)'
  BY DEF DecisionInv, DecisionStands, Stands

\* A call that starts on a candidate with the stage it finds there, or with a
\* person's.
LEMMA BeginStands ==
  ASSUME TypeOK, DecisionInv, NEW s \in Calls, NEW c \in Candidates, NEW call,
         rows[c] # NoRow, Become(s, call), call.candidate = c, call.pc # "stage",
         (call.decision /\ call.pc # "upsert") \/ call.stage = rows[c].stage,
         UNCHANGED <<rows, runs, late, served, decided>>
  PROVE  DecisionInv'
<1> SUFFICES ASSUME NEW d \in Candidates
             PROVE  Stands(d)'
  BY StandsSuffices
<1>1. Stands(d)
  BY StandsSuffices
<1>2. QED
  BY <1>1 DEF Stands, Become, TypeOK

\* A call that ends or turns to starting a lifecycle.
LEMMA EndStands ==
  ASSUME TypeOK, DecisionInv, NEW s \in Calls, NEW call,
         Become(s, call), call = Idle \/ call.pc = "start",
         UNCHANGED <<rows, runs, late, decided>>
  PROVE  DecisionInv'
<1> SUFFICES ASSUME NEW d \in Candidates
             PROVE  Stands(d)'
  BY StandsSuffices
<1>1. Stands(d)
  BY StandsSuffices
<1>2. QED
  BY <1>1 DEF Stands, Become, TypeOK

\* Starting a lifecycle: no decision stands any more.
LEMMA StartStands ==
  ASSUME TypeOK, DecisionInv, NEW c \in Candidates, NEW contact,
         Start(c, contact), UNCHANGED <<rows, late>>,
         \A t \in Calls : calls'[t] = calls[t] \/ calls'[t] = Idle
  PROVE  DecisionInv'
<1> SUFFICES ASSUME NEW d \in Candidates
             PROVE  Stands(d)'
  BY StandsSuffices
<1>1. Stands(d)
  BY StandsSuffices
<1>2. QED
  BY <1>1 DEF Stands, Start, TypeOK

\* The worker touches only candidates whose decision does not stand.
LEMMA WorkerStands ==
  ASSUME TypeOK, DecisionInv, NEW c \in Candidates, decided[c] = "none",
         \A d \in Candidates : d # c =>
           /\ rows'[d] = rows[d] /\ runs'[d] = runs[d]
           /\ \A l \in late' : l[1] = d => l \in late,
         UNCHANGED <<calls, decided>>
  PROVE  DecisionInv'
<1> SUFFICES ASSUME NEW d \in Candidates
             PROVE  Stands(d)'
  BY StandsSuffices
<1>1. Stands(d)
  BY StandsSuffices
<1>2. QED
  BY <1>1 DEF Stands

LEMMA DecisionStep ==
  ASSUME TypeOK, KnownInv, DecisionInv, [Next]_svars
  PROVE  DecisionInv'
<1>1. ASSUME NEW s \in Calls, NEW c \in Candidates, NEW profile \in Profiles,
             SearchStarts(s, c, profile)
      PROVE  DecisionInv'
  BY <1>1, StartStands DEF SearchStarts
<1>2. ASSUME NEW s \in Calls, NEW c \in Candidates, NEW profile \in Profiles,
             SearchFindsNone(s, c, profile)
      PROVE  DecisionInv'
  <2> SUFFICES ASSUME NEW d \in Candidates
               PROVE  Stands(d)'
    BY StandsSuffices
  <2>1. Stands(d) /\ Stands(c)
    BY StandsSuffices
  <2>2. decided[c] = "none"
    BY <1>2, <2>1 DEF SearchFindsNone, Stands
  <2>3. QED
    BY <1>2, <2>1, <2>2 DEF SearchFindsNone, Stands, Become, TypeOK
<1>3. ASSUME NEW s \in Calls, NEW c \in Candidates, ApolloCannotAsk(s, c)
      PROVE  DecisionInv'
  BY <1>3, BeginStands DEF ApolloCannotAsk, Read
<1>4. ASSUME NEW s \in Calls, NEW c \in Candidates, NotFound(s, c)
      PROVE  DecisionInv'
  BY <1>4, BeginStands DEF NotFound, Read
<1>5. ASSUME NEW s \in Calls, NEW c \in Candidates, NEW match \in Matches,
             ApolloFound(s, c, match)
      PROVE  DecisionInv'
  BY <1>5, BeginStands DEF ApolloFound, Read
<1>6. ASSUME NEW s \in Calls, NEW c \in Candidates, NEW linkedin \in Handles,
             HunterFound(s, c, linkedin)
      PROVE  DecisionInv'
  BY <1>6, BeginStands DEF HunterFound, Read
<1>7. ASSUME NEW s \in Calls, Upsert(s)
      PROVE  DecisionInv'
  <2> DEFINE c == calls[s].candidate
  <2>1. calls[s] # Idle /\ calls[s] \in Serving /\ c \in Candidates
        /\ calls[s].pc \in {"stage", "upsert"}
    BY <1>7, CallKinds DEF Upsert, At
  <2>2. rows' = [rows EXCEPT ![c] = Written(calls[s])]
        /\ calls' = [calls EXCEPT ![s] = AfterUpsert(calls[s])]
        /\ UNCHANGED <<runs, late, served, decided>>
    BY <1>7 DEF Upsert, Become
  <2>3. AfterUpsert(calls[s]) = Idle \/ AfterUpsert(calls[s]).pc = "start"
    BY <2>1 DEF AfterUpsert, ForRun, Serving
  <2>4. Written(calls[s]) # NoRow /\ Written(calls[s]).stage = calls[s].stage
    BY <2>1 DEF Written, NoRow, Serving, Stages
  <2> SUFFICES ASSUME NEW d \in Candidates
               PROVE  Stands(d)'
    BY StandsSuffices
  <2>5. Stands(d)
    BY StandsSuffices
  <2>6. CASE d = c
    <3>1. decided[c] # "none" => calls[s].stage = decided[c]
      BY <2>1, <2>5, <2>6 DEF Stands
    <3>2. QED
      BY <2>2, <2>3, <2>4, <2>5, <2>6, <3>1 DEF Stands, TypeOK
  <2>7. CASE d # c
    BY <2>2, <2>3, <2>5, <2>7 DEF Stands, TypeOK
  <2>8. QED
    BY <2>6, <2>7
<1>8. ASSUME NEW s \in Calls, StartFound(s)
      PROVE  DecisionInv'
  <2>1. calls[s].candidate \in Candidates
    BY <1>8, CallKinds DEF StartFound, At
  <2>2. QED
    BY <1>8, <2>1, StartStands DEF StartFound, Become, TypeOK
<1>9. ASSUME NEW s \in Calls, Select(s)
      PROVE  DecisionInv'
  <2> DEFINE c == calls[s].candidate
             needs == rows[c].contact.needs \/ At(s, "select missing")
             call == [calls[s] EXCEPT !.pc = "update", !.contact = Metadata(rows[c], needs)]
  <2>1. calls[s] # Idle /\ calls[s] \in Serving /\ calls[s].pc \in {"select", "select missing"}
    BY <1>9, CallKinds DEF Select, At
  <2>2. calls' = [calls EXCEPT ![s] = call] /\ UNCHANGED <<rows, runs, late, served, decided>>
    BY <1>9 DEF Select, Become
  <2>3. call.candidate = c /\ call.pc = "update" /\ call.stage = calls[s].stage
        /\ call.decision = calls[s].decision
    BY <2>1 DEF Serving
  <2> HIDE DEF call
  <2> SUFFICES ASSUME NEW d \in Candidates
               PROVE  Stands(d)'
    BY StandsSuffices
  <2>4. Stands(d)
    BY StandsSuffices
  <2>5. QED
    BY <2>1, <2>2, <2>3, <2>4 DEF Stands, TypeOK
<1>10. ASSUME NEW s \in Calls, Update(s)
       PROVE  DecisionInv'
  <2> DEFINE c == calls[s].candidate
  <2>1. calls[s] # Idle /\ calls[s] \in Serving /\ c \in Candidates
        /\ calls[s].pc = "update" /\ rows[c] # NoRow
    BY <1>10, CallKinds DEF Update, At, KnownInv
  <2>2. rows' = [rows EXCEPT ![c] = Merged(rows[c], calls[s])]
        /\ calls' = [calls EXCEPT ![s] = Idle] /\ UNCHANGED <<runs, late, served>>
        /\ decided' = IF calls[s].decision
             THEN [decided EXCEPT ![c] = IF Alone(s, c) THEN calls[s].stage ELSE "none"]
             ELSE decided
    BY <1>10 DEF Update, Become
  <2>3. Merged(rows[c], calls[s]) # NoRow
        /\ Merged(rows[c], calls[s]).stage = calls[s].stage
    BY <2>1 DEF Merged, NoRow, Serving, Stages
  <2> SUFFICES ASSUME NEW d \in Candidates
               PROVE  Stands(d)'
    BY StandsSuffices
  <2>4. Stands(d)
    BY StandsSuffices
  <2>5. CASE d # c
    BY <2>2, <2>4, <2>5 DEF Stands, TypeOK
  <2>6. CASE d = c /\ calls[s].decision /\ Alone(s, c)
    <3>1. decided'[c] = calls[s].stage /\ rows'[c].stage = calls[s].stage /\ rows'[c] # NoRow
      BY <2>1, <2>2, <2>3, <2>6 DEF TypeOK
    <3>2. \A t \in Calls : calls'[t] = Idle \/ calls'[t].candidate # c
      BY <2>2, <2>6 DEF Alone, TypeOK
    <3>3. runs'[c] = NoRun /\ \A l \in late' : l[1] # c
      BY <2>2, <2>6 DEF Alone
    <3>4. QED
      BY <2>6, <3>1, <3>2, <3>3 DEF Stands
  <2>7. CASE d = c /\ calls[s].decision /\ ~ Alone(s, c)
    BY <2>1, <2>2, <2>7 DEF Stands, TypeOK
  <2>8. CASE d = c /\ ~ calls[s].decision
    BY <2>1, <2>2, <2>3, <2>4, <2>8 DEF Stands, TypeOK
  <2>9. QED
    BY <2>5, <2>6, <2>7, <2>8
<1>11. ASSUME NEW s \in Calls, NEW c \in Candidates, NEW form \in Forms, Create(s, c, form)
       PROVE  DecisionInv'
  BY <1>11, StartStands DEF Create
<1>12. ASSUME NEW s \in Calls, NEW c \in Candidates, NEW stage \in Decisions,
              Decide(s, c, stage)
       PROVE  DecisionInv'
  BY <1>12, BeginStands DEF Decide
<1>13. ASSUME NEW s \in Calls, Interrupt(s)
       PROVE  DecisionInv'
  BY <1>13, EndStands DEF Interrupt
<1>14. ASSUME NEW c \in Candidates, RunWrite(c)
       PROVE  DecisionInv'
  <2>1. decided[c] = "none"
    BY <1>14, StandsSuffices DEF RunWrite, Stands
  <2>2. QED
    BY <1>14, <2>1, WorkerStands DEF RunWrite, TypeOK
<1>15. ASSUME NEW c \in Candidates, RunEnd(c)
       PROVE  DecisionInv'
  <2>1. decided[c] = "none"
    BY <1>15, StandsSuffices DEF RunEnd, Stands
  <2>2. QED
    BY <1>15, <2>1, WorkerStands DEF RunEnd, TypeOK
<1>16. ASSUME NEW c \in Candidates, LateWrite(c)
       PROVE  DecisionInv'
  <2>1. decided[c] = "none"
    BY <1>16, StandsSuffices DEF LateWrite, Stands
  <2>2. QED
    BY <1>16, <2>1, WorkerStands DEF LateWrite, TypeOK
<1>17. ASSUME NEW c \in Candidates, LateLost(c)
       PROVE  DecisionInv'
  <2>1. decided[c] = "none"
    BY <1>17, StandsSuffices DEF LateLost, Stands
  <2>2. QED
    BY <1>17, <2>1, WorkerStands DEF LateLost, TypeOK
<1>18. CASE UNCHANGED svars
  BY <1>18, StandsSuffices DEF svars, Stands
<1>19. QED
  BY <1>1, <1>2, <1>3, <1>4, <1>5, <1>6, <1>7, <1>8, <1>9, <1>10, <1>11, <1>12, <1>13,
     <1>14, <1>15, <1>16, <1>17, <1>18 DEF Next, Serve

\* A decision that nothing overlapped stands: searches, enrichments and other
\* calls keep its stage until a lifecycle starts or a person decides anew.
THEOREM DecisionsStand == Spec => []DecisionStands
<1>1. Init => DecisionInv
  BY DEF Init, DecisionInv, DecisionStands
<1>2. TypeOK /\ KnownInv /\ DecisionInv /\ [Next]_svars => DecisionInv'
  BY DecisionStep
<1>3. DecisionInv => DecisionStands
  BY DEF DecisionInv
<1>4. QED
  BY <1>1, <1>2, <1>3, SourcingTypeCorrect, PTL DEF Spec
=============================================================================
