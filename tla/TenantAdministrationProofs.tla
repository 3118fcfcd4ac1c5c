--------------------- MODULE TenantAdministrationProofs ---------------------
(***************************************************************************)
(* Theorems about TenantAdministration, for every set of requests, keys,   *)
(* users, roles and contents.                                              *)
(***************************************************************************)
EXTENDS TenantAdministration, TLAPS

\* What a request carries at each point of its handler.
LEMMA RequestKinds ==
  ASSUME TypeOK, NEW r \in Requests
  PROVE  /\ requests[r].pc = "begun" => requests[r] \in Begun
         /\ requests[r].pc = "update" => requests[r] \in Saving
         /\ requests[r].pc = "insert" => requests[r] \in Rotating
         /\ requests[r] # Idle => requests[r].pc \in {"begun", "update", "insert", "audit"}
  BY DEF TypeOK, Begun, Saving, Rotating, Auditing, Idle

\* The key or user a request names fits its route.
LEMMA TargetKinds ==
  ASSUME TypeOK, NEW r \in Requests
  PROVE  /\ At(r, "revoke") \/ At(r, "rotate") => requests[r].target \in KeyIds
         /\ At(r, "grant") \/ At(r, "remove") => requests[r].target \in Users
  BY RequestKinds DEF At, Begun, Targets

\* The settings an onboarding writes are settings; the sections are told apart.
LEMMA SettingsFacts ==
  /\ AllUnset \in Settings
  /\ AllUnset \in [Sections -> Values \cup {Unset, Unsure}]
  /\ NoTenant \notin Settings
  BY ConstantsAssumption DEF AllUnset, Settings

\* Telling a save of a write keeps it a save.
LEMMA MissEffect ==
  ASSUME TypeOK, NEW q \in Requests, NEW sections \in SUBSET Sections
  PROVE  /\ Miss(sections, q) \in Begun \cup Saving \cup Rotating \cup Auditing \cup {Idle}
         /\ Miss(sections, q).pc = requests[q].pc
         /\ requests[q].pc = "update" =>
              /\ Miss(sections, q).op = requests[q].op
              /\ Miss(sections, q).copy = requests[q].copy
              /\ Miss(sections, q).missed = requests[q].missed \cup sections
         /\ requests[q].pc # "update" => Miss(sections, q) = requests[q]
<1>1. CASE requests[q].pc = "update"
  <2>1. requests[q] \in Saving
    BY <1>1, RequestKinds
  <2>2. Miss(sections, q) = [requests[q] EXCEPT !.missed = @ \cup sections]
    BY <1>1 DEF Miss
  <2>3. QED
    BY <1>1, <2>1, <2>2 DEF Saving
<1>2. CASE requests[q].pc # "update"
  BY <1>2 DEF Miss, TypeOK
<1>3. QED
  BY <1>1, <1>2

\* Begin puts a request of a known kind at the start of a handler.
LEMMA BegunCall ==
  ASSUME NEW op \in Operations, NEW target \in Targets(op)
  PROVE  [pc |-> "begun", op |-> op, target |-> target] \in Begun
  BY DEF Begun, Targets

----------------------------------------------------------------------------
LEMMA TypeInit == Init => TypeOK
<1> SUFFICES ASSUME Init PROVE TypeOK
  OBVIOUS
<1>2. settings \in Settings \cup {NoTenant} /\ expected \in [Sections -> Values \cup {Unset, Unsure}]
  BY SettingsFacts DEF Init
<1>3. keys \in [KeyIds -> Key \cup {Unused}] /\ requests \in [Requests -> {Idle}]
  BY DEF Init
<1>4. members \in [Users -> Roles \cup {"none"}]
  BY DEF Init
<1>5. QED
  BY <1>2, <1>3, <1>4 DEF Init, TypeOK

\* Moving a request on keeps the requests well typed.
LEMMA BecomeTyped ==
  ASSUME TypeOK, NEW r \in Requests,
         NEW next \in Begun \cup Saving \cup Rotating \cup Auditing \cup {Idle}, Become(r, next)
  PROVE  requests' \in [Requests -> Begun \cup Saving \cup Rotating \cup Auditing \cup {Idle}]
  BY DEF TypeOK, Become

\* The line a rotation goes on with.
LEMMA RotatedLine ==
  ASSUME TypeOK, LinesInv, NEW r \in Requests, requests[r].pc = "insert"
  PROVE  /\ requests[r].target \in KeyIds
         /\ keys[requests[r].target] \in Key
         /\ keys[requests[r].target].line \in KeyIds
<1>1. requests[r].target \in KeyIds
  BY RequestKinds DEF Rotating
<1>2. keys[requests[r].target] # Unused
  BY DEF LinesInv
<1>3. keys[requests[r].target] \in Key
  BY <1>1, <1>2 DEF TypeOK
<1>4. QED
  BY <1>1, <1>3 DEF Key

\* A key the guarded update finds is one that was inserted.
LEMMA ActiveKey ==
  ASSUME TypeOK, NEW k \in KeyIds, Active(k)
  PROVE  keys[k] # Unused /\ keys[k] \in Key /\ keys[k].line \in KeyIds
  BY DEF TypeOK, Active, Unused, Key

LEMMA TypeStep ==
  ASSUME TypeOK, LinesInv, [Next]_tvars
  PROVE  TypeOK'
<1> DEFINE Calls == Begun \cup Saving \cup Rotating \cup Auditing \cup {Idle}
<1>0. [pc |-> "audit"] \in Calls /\ Idle \in Calls
  BY DEF Auditing
<1>1. ASSUME NEW r \in Requests, NEW role \in PrincipalRoles, NEW op \in Operations,
             NEW target \in Targets(op), Begin(r, role, op, target)
      PROVE  TypeOK'
  <2>1. requests' \in [Requests -> Calls]
    BY <1>1, BegunCall DEF TypeOK, Begin
  <2>2. QED
    BY <1>1, <2>1 DEF TypeOK, Begin
<1>2. ASSUME NEW r \in Requests, SelectSettings(r)
      PROVE  TypeOK'
  <2>1. settings \in Settings
    BY <1>2 DEF TypeOK, SelectSettings, TenantExists
  <2>2. [pc |-> "update", op |-> requests[r].op, copy |-> settings, missed |-> {}] \in Saving
    BY <1>2, <2>1 DEF SelectSettings, Saving
  <2>3. requests' \in [Requests -> Calls]
    BY <1>2, <2>2, BecomeTyped DEF SelectSettings
  <2>4. QED
    BY <1>2, <2>3 DEF TypeOK, SelectSettings
<1>3. ASSUME NEW r \in Requests, NEW value \in Values, UpdateSettings(r, value)
      PROVE  TypeOK'
  <2>1. requests[r] \in Saving
    BY <1>3, RequestKinds DEF UpdateSettings
  <2>2. settings' \in Settings
    BY <1>3, <2>1 DEF UpdateSettings, Merged, Saving, Settings
  <2>3. expected' \in [Sections -> Values \cup {Unset, Unsure}]
    BY <1>3 DEF UpdateSettings, TypeOK
  <2>4. requests' \in [Requests -> Calls]
    <3>1. {requests[r].op} \cup requests[r].missed \in SUBSET Sections
      BY <2>1 DEF Saving
    <3>2. QED
      BY <1>0, <1>3, <3>1, MissEffect DEF UpdateSettings
  <2>5. QED
    BY <1>3, <2>2, <2>3, <2>4 DEF UpdateSettings, TypeOK
<1>4. ASSUME NEW r \in Requests, NEW role \in Roles, GrantMembership(r, role)
      PROVE  TypeOK'
  <2>1. requests' \in [Requests -> Calls]
    BY <1>0, <1>4, BecomeTyped DEF GrantMembership, ToAudit
  <2>2. QED
    BY <1>4, <2>1 DEF TypeOK, GrantMembership
<1>5. ASSUME NEW r \in Requests, RemoveMembership(r)
      PROVE  TypeOK'
  <2>1. requests' \in [Requests -> Calls]
    BY <1>0, <1>5, BecomeTyped DEF RemoveMembership, ToAudit
  <2>2. QED
    BY <1>5, <2>1 DEF TypeOK, RemoveMembership
<1>6. ASSUME NEW r \in Requests, NEW k \in KeyIds, CreateKey(r, k)
      PROVE  TypeOK'
  <2>1. requests' \in [Requests -> Calls]
    BY <1>0, <1>6, BecomeTyped DEF CreateKey, ToAudit
  <2>2. keys' \in [KeyIds -> Key \cup {Unused}]
    BY <1>6 DEF TypeOK, CreateKey, Insert, Key
  <2>3. QED
    BY <1>6, <2>1, <2>2 DEF TypeOK, CreateKey
<1>7. ASSUME NEW r \in Requests, NEW k \in KeyIds, RotateInsert(r, k)
      PROVE  TypeOK'
  <2>1. requests' \in [Requests -> Calls]
    BY <1>0, <1>7, BecomeTyped DEF RotateInsert, ToAudit
  <2>2. keys[requests[r].target].line \in KeyIds
    BY <1>7, RotatedLine DEF RotateInsert
  <2>3. keys' \in [KeyIds -> Key \cup {Unused}]
    BY <1>7, <2>2 DEF TypeOK, RotateInsert, Insert, Key
  <2>4. QED
    BY <1>7, <2>1, <2>3 DEF TypeOK, RotateInsert
<1>8. ASSUME NEW r \in Requests, RevokeKey(r)
      PROVE  TypeOK'
  <2>1. requests' \in [Requests -> Calls]
    BY <1>0, <1>8, BecomeTyped DEF RevokeKey, ToAudit
  <2>2. requests[r].target \in KeyIds /\ Active(requests[r].target)
    BY <1>8, TargetKinds DEF RevokeKey, Revoke
  <2>3. keys[requests[r].target] \in Key /\ keys[requests[r].target].line \in KeyIds
    BY <2>2, ActiveKey
  <2>4. keys' \in [KeyIds -> Key \cup {Unused}]
    BY <1>8, <2>2, <2>3 DEF TypeOK, RevokeKey, Revoke, Key
  <2>5. QED
    BY <1>8, <2>1, <2>3, <2>4 DEF TypeOK, RevokeKey
<1>9. ASSUME NEW r \in Requests, RotateRevoke(r)
      PROVE  TypeOK'
  <2>1. requests[r].target \in KeyIds /\ Active(requests[r].target)
    BY <1>9, TargetKinds DEF RotateRevoke, Revoke
  <2>2. requests' \in [Requests -> Calls]
    <3>1. [pc |-> "insert", target |-> requests[r].target] \in Calls
      BY <2>1 DEF Rotating
    <3>2. QED
      BY <1>9, <3>1, BecomeTyped DEF RotateRevoke
  <2>3. keys[requests[r].target] \in Key
    BY <2>1, ActiveKey
  <2>4. keys' \in [KeyIds -> Key \cup {Unused}]
    BY <1>9, <2>1, <2>3 DEF TypeOK, RotateRevoke, Revoke, Key
  <2>5. QED
    BY <1>9, <2>2, <2>4 DEF TypeOK, RotateRevoke
<1>10. ASSUME NEW r \in Requests, StartOnboarding(r)
       PROVE  TypeOK'
  <2>1. requests' \in [Requests -> Calls]
    BY <1>0, <1>10, BecomeTyped DEF StartOnboarding, ToAudit
  <2>2. QED
    BY <1>10, <2>1 DEF TypeOK, StartOnboarding
<1>11. ASSUME NEW r \in Requests, RecordEvent(r)
       PROVE  TypeOK'
  <2>1. requests' \in [Requests -> Calls]
    BY <1>0, <1>11, BecomeTyped DEF RecordEvent
  <2>2. QED
    BY <1>11, <2>1 DEF TypeOK, RecordEvent
<1>12. ASSUME NEW r \in Requests, Abandon(r)
       PROVE  TypeOK'
  <2>1. requests' \in [Requests -> Calls]
    BY <1>0, <1>12, BecomeTyped DEF Abandon
  <2>2. ended' \subseteq KeyIds
    BY <1>12, RotatedLine DEF TypeOK, Abandon
  <2>3. QED
    BY <1>12, <2>1, <2>2 DEF TypeOK, Abandon
<1>13. ASSUME NEW u \in Users, NEW role \in Roles, BootstrapMember(u, role)
       PROVE  TypeOK'
  BY <1>13 DEF TypeOK, BootstrapMember
<1>14. CASE UpsertTenant
  <2>1. requests' \in [Requests -> Calls]
    BY <1>14, MissEffect DEF UpsertTenant
  <2>2. late' \in BOOLEAN
    BY <1>14 DEF UpsertTenant, TypeOK
  <2>3. QED
    BY <1>14, <2>1, <2>2, SettingsFacts DEF TypeOK, UpsertTenant
<1>15. CASE OnboardingGoesOn \/ OnboardingEnds \/ LateUpsertLost
  BY <1>15 DEF TypeOK, OnboardingGoesOn, OnboardingEnds, LateUpsertLost
<1>16. CASE UNCHANGED tvars
  BY <1>16 DEF TypeOK, tvars
<1>17. QED
  BY <1>1, <1>2, <1>3, <1>4, <1>5, <1>6, <1>7, <1>8, <1>9, <1>10, <1>11, <1>12,
     <1>13, <1>14, <1>15, <1>16 DEF Next, Serve

----------------------------------------------------------------------------
(* Lines of keys.                                                          *)

LEMMA LinesInit == Init => LinesInv
  BY DEF Init, LinesInv, Unused, Idle

\* What inserting a key on a known line leaves true.
LEMMA LinesInsert ==
  ASSUME TypeOK, LinesInv, NEW k \in KeyIds, NEW line \in KeyIds, Insert(k, line),
         line # k => keys[line] # Unused /\ keys[line].line = line
  PROVE  /\ keys'[k] = [state |-> "active", line |-> line] /\ keys'[k] # Unused
         /\ \A j \in KeyIds : j # k => keys'[j] = keys[j]
         /\ \A j \in KeyIds : keys'[j] # Unused =>
              keys'[keys'[j].line] # Unused /\ keys'[keys'[j].line].line = keys'[j].line
<1>1. /\ keys'[k] = [state |-> "active", line |-> line]
      /\ \A j \in KeyIds : j # k => keys'[j] = keys[j]
      /\ keys[k] = Unused
  BY DEF Insert, TypeOK
<1>2. keys'[k] # Unused /\ keys'[k].line = line
  BY <1>1 DEF Unused
<1>3. \A j \in KeyIds : keys[j] # Unused => keys[j].line \in KeyIds /\ keys[j].line # k
  <2>1. TAKE j \in KeyIds
  <2>2. HAVE keys[j] # Unused
  <2>3. keys[j].line \in KeyIds
    BY <2>2 DEF TypeOK, Key
  <2>4. keys[keys[j].line] # Unused
    BY <2>2 DEF LinesInv
  <2>5. QED
    BY <1>1, <2>3, <2>4
<1>4. QED
  BY <1>1, <1>2, <1>3 DEF LinesInv

\* What revoking a key leaves true.
LEMMA LinesRevoke ==
  ASSUME TypeOK, LinesInv, NEW k \in KeyIds, Revoke(k)
  PROVE  /\ keys' \in [KeyIds -> Key \cup {Unused}]
         /\ \A j \in KeyIds :
              /\ keys'[j] # Unused <=> keys[j] # Unused
              /\ keys'[j].line = keys[j].line
              /\ keys'[j].state = IF j = k THEN "revoked" ELSE keys[j].state
<1>1. Active(k) /\ keys' = [keys EXCEPT ![k].state = "revoked"]
  BY DEF Revoke
<1>2. keys[k] # Unused /\ keys[k] \in Key
  BY <1>1, ActiveKey
<1>3. keys'[k] \in Key /\ keys'[k].line = keys[k].line /\ keys'[k].state = "revoked"
  BY <1>1, <1>2 DEF TypeOK, Key
<1>4. \A j \in KeyIds : j # k => keys'[j] = keys[j]
  BY <1>1 DEF TypeOK
<1>5. keys'[k] # Unused
  BY <1>3 DEF Key, Unused
<1>6. QED
  BY <1>1, <1>2, <1>3, <1>4, <1>5 DEF TypeOK

LEMMA LinesStep ==
  ASSUME TypeOK, LinesInv, TypeOK', [Next]_tvars
  PROVE  LinesInv'
<1>1. ASSUME UNCHANGED <<keys, ended>>,
             \A r \in Requests : requests'[r].pc = "insert" =>
               requests[r].pc = "insert" /\ requests'[r].target = requests[r].target
      PROVE  LinesInv'
  BY <1>1 DEF LinesInv
<1>2. ASSUME NEW r \in Requests, NEW k \in KeyIds, CreateKey(r, k)
      PROVE  LinesInv'
  <2>1. Insert(k, k)
    BY <1>2 DEF CreateKey
  <2>2. \A q \in Requests : requests'[q].pc = "insert" => requests'[q] = requests[q]
    BY <1>2 DEF CreateKey, ToAudit, Become, TypeOK
  <2>3. \A q \in Requests : requests[q].pc = "insert" => requests[q].target \in KeyIds
    BY RotatedLine
  <2>4. keys'[k] # Unused /\ \A j \in KeyIds : keys[j] # Unused => keys'[j] # Unused
    BY <2>1, LinesInsert
  <2>5. ended' = ended /\ ended \subseteq KeyIds
    BY <1>2 DEF CreateKey, TypeOK
  <2>6. QED
    BY <2>1, <2>2, <2>3, <2>4, <2>5, LinesInsert DEF LinesInv
<1>3. ASSUME NEW r \in Requests, NEW k \in KeyIds, RotateInsert(r, k)
      PROVE  LinesInv'
  <2> DEFINE L == keys[requests[r].target].line
  <2>1. Insert(k, L) /\ L \in KeyIds
    BY <1>3, RotatedLine DEF RotateInsert
  <2>2. keys[L] # Unused /\ keys[L].line = L
    BY <1>3, RotatedLine DEF RotateInsert, LinesInv
  <2> HIDE DEF L
  <2>3. \A q \in Requests : requests'[q].pc = "insert" => requests'[q] = requests[q]
    BY <1>3 DEF RotateInsert, ToAudit, Become, TypeOK
  <2>4. \A q \in Requests : requests[q].pc = "insert" => requests[q].target \in KeyIds
    BY RotatedLine
  <2>5. keys'[k] # Unused /\ \A j \in KeyIds : keys[j] # Unused => keys'[j] # Unused
    BY <2>1, <2>2, LinesInsert
  <2>6. ended' = ended /\ ended \subseteq KeyIds
    BY <1>3 DEF RotateInsert, TypeOK
  <2>7. QED
    BY <2>1, <2>2, <2>3, <2>4, <2>5, <2>6, LinesInsert DEF LinesInv
<1>4. ASSUME NEW r \in Requests, RevokeKey(r)
      PROVE  LinesInv'
  <2>1. requests[r].target \in KeyIds /\ Revoke(requests[r].target)
    BY <1>4, TargetKinds DEF RevokeKey
  <2>2. keys[requests[r].target] # Unused /\ keys[requests[r].target].line \in KeyIds
    BY <2>1, ActiveKey DEF Revoke
  <2>3. \A q \in Requests : requests'[q].pc = "insert" => requests'[q] = requests[q]
    BY <1>4 DEF RevokeKey, ToAudit, Become, TypeOK
  <2>4. \A q \in Requests : requests[q].pc = "insert" => requests[q].target \in KeyIds
    BY RotatedLine
  <2>5. \A j \in KeyIds : keys[j] # Unused => keys[j].line \in KeyIds
    BY DEF TypeOK, Key
  <2>6. ended' = ended \cup {keys[requests[r].target].line} /\ ended \subseteq KeyIds
    BY <1>4 DEF RevokeKey, TypeOK
  <2>7. QED
    BY <2>1, <2>2, <2>3, <2>4, <2>5, <2>6, LinesRevoke DEF LinesInv
<1>5. ASSUME NEW r \in Requests, RotateRevoke(r)
      PROVE  LinesInv'
  <2>1. requests[r].target \in KeyIds /\ Revoke(requests[r].target)
    BY <1>5, TargetKinds DEF RotateRevoke
  <2>2. keys[requests[r].target] # Unused
    BY <2>1, ActiveKey DEF Revoke
  <2>3. \A q \in Requests : requests'[q].pc = "insert" =>
          IF q = r THEN requests'[q].target = requests[r].target ELSE requests'[q] = requests[q]
    BY <1>5 DEF RotateRevoke, Become, TypeOK
  <2>4. \A q \in Requests : requests[q].pc = "insert" => requests[q].target \in KeyIds
    BY RotatedLine
  <2>5. \A j \in KeyIds : keys[j] # Unused => keys[j].line \in KeyIds
    BY DEF TypeOK, Key
  <2>6. ended' = ended /\ ended \subseteq KeyIds
    BY <1>5 DEF RotateRevoke, TypeOK
  <2>7. QED
    BY <2>1, <2>2, <2>3, <2>4, <2>5, <2>6, LinesRevoke DEF LinesInv
<1>6. ASSUME NEW r \in Requests, Abandon(r)
      PROVE  LinesInv'
  <2>1. \A q \in Requests : requests'[q].pc = "insert" => requests'[q] = requests[q]
    BY <1>6 DEF Abandon, Become, TypeOK, Idle
  <2>2. \A line \in ended' : keys[line] # Unused
    BY <1>6, RotatedLine DEF Abandon, LinesInv
  <2>3. keys' = keys
    BY <1>6 DEF Abandon
  <2>4. QED
    BY <2>1, <2>2, <2>3 DEF LinesInv
<1>7. ASSUME NEW r \in Requests, NEW value \in Values, UpdateSettings(r, value)
      PROVE  LinesInv'
  <2>1. requests[r] \in Saving
    BY <1>7, RequestKinds DEF UpdateSettings
  <2>2. {requests[r].op} \cup requests[r].missed \in SUBSET Sections
    BY <2>1 DEF Saving
  <2>3. \A q \in Requests : requests'[q].pc = "insert" => requests'[q] = requests[q]
    BY <1>7, <2>2, MissEffect DEF UpdateSettings
  <2>4. QED
    BY <1>1, <1>7, <2>3 DEF UpdateSettings
<1>8. CASE UpsertTenant
  <2>1. \A q \in Requests : requests'[q].pc = "insert" => requests'[q] = requests[q]
    BY <1>8, MissEffect DEF UpsertTenant
  <2>2. QED
    BY <1>1, <1>8, <2>1 DEF UpsertTenant
<1>9. ASSUME NEW r \in Requests,
             \/ \E role \in PrincipalRoles, op \in Operations :
                  \E target \in Targets(op) : Begin(r, role, op, target)
             \/ SelectSettings(r)
             \/ \E role \in Roles : GrantMembership(r, role)
             \/ RemoveMembership(r)
             \/ StartOnboarding(r)
             \/ RecordEvent(r)
      PROVE  LinesInv'
  <2>1. PICK next : next.pc # "insert" /\ Become(r, next)
    BY <1>9 DEF Begin, SelectSettings, GrantMembership, RemoveMembership, StartOnboarding,
                RecordEvent, ToAudit, Become, Idle
  <2>2. \A q \in Requests : requests'[q].pc = "insert" => requests'[q] = requests[q]
    BY <2>1 DEF Become, TypeOK
  <2>3. UNCHANGED <<keys, ended>>
    BY <1>9 DEF Begin, SelectSettings, GrantMembership, RemoveMembership, StartOnboarding, RecordEvent
  <2>4. QED
    BY <1>1, <2>2, <2>3
<1>10. CASE \/ \E u \in Users, role \in Roles : BootstrapMember(u, role)
            \/ OnboardingGoesOn \/ OnboardingEnds \/ LateUpsertLost \/ UNCHANGED tvars
  <2>1. UNCHANGED <<keys, ended, requests>>
    BY <1>10 DEF BootstrapMember, OnboardingGoesOn, OnboardingEnds, LateUpsertLost, tvars
  <2>2. QED
    BY <1>1, <2>1
<1>11. QED
  BY <1>2, <1>3, <1>4, <1>5, <1>6, <1>7, <1>8, <1>9, <1>10 DEF Next, Serve

\* The variables always have their types.
THEOREM TypeCorrect == Spec => [](TypeOK /\ LinesInv)
<1>1. Init => TypeOK /\ LinesInv
  BY TypeInit, LinesInit
<1>2. TypeOK /\ LinesInv /\ [Next]_tvars => (TypeOK /\ LinesInv)'
  BY TypeStep, LinesStep
<1>3. QED
  BY <1>1, <1>2, PTL DEF Spec

----------------------------------------------------------------------------
(* A key has one heir.                                                     *)

(* What a step can do to the lines of keys; the rest of the state does not *)
(* matter for them.                                                        *)

LinesUnchanged ==
  UNCHANGED <<keys, ended>> /\ \A line \in KeyIds : Rotations(line)' = Rotations(line)

OthersUnchanged(L) ==
  \A line \in KeyIds \ {L} : Holders(line)' = Holders(line) /\ Rotations(line)' = Rotations(line)

\* A fresh key k begins a line or goes on with L.
Issued(k, L) ==
  /\ keys[k] = Unused /\ keys'[k] = [state |-> "active", line |-> L]
  /\ \A j \in KeyIds \ {k} : keys'[j] = keys[j]
  /\ L = k \/ (Begins(L) /\ \E r \in Requests : Rotations(L) = {r})
  /\ L \notin ended /\ ended' = ended
  /\ Holders(L) = {} /\ Holders(L)' = {k} /\ Rotations(L)' = {}
  /\ OthersUnchanged(L)

\* Key k of line L is revoked, for good or by a rotation.
Withdrawn(k, L) ==
  /\ Begins(L) /\ L = keys[k].line
  /\ \A j \in KeyIds :
       /\ keys'[j] # Unused <=> keys[j] # Unused
       /\ keys'[j].line = keys[j].line
       /\ keys'[j].state = IF j = k THEN "revoked" ELSE keys[j].state
  /\ L \notin ended
  /\ \/ ended' = ended /\ \E r \in Requests : Rotations(L)' = {r}
     \/ ended' = ended \cup {L} /\ Rotations(L)' = {}
  /\ Holders(L) = {k} /\ Rotations(L) = {} /\ Holders(L)' = {}
  /\ OthersUnchanged(L)

\* A rotation in line L ends between its two transactions.
BrokenOff(L) ==
  /\ keys' = keys /\ Begins(L)
  /\ L \notin ended /\ ended' = ended \cup {L}
  /\ Rotations(L) # {} /\ Rotations(L)' = {}
  /\ Holders(L) = {} /\ OthersUnchanged(L)

LineStep ==
  \/ LinesUnchanged
  \/ \E k, L \in KeyIds : Issued(k, L)
  \/ \E k, L \in KeyIds : Withdrawn(k, L)
  \/ \E L \in KeyIds : BrokenOff(L)

LEMMA HeirInit == Init => OneHeir
  BY DEF Init, OneHeir, Begins, Unused

\* A step that leaves the keys alone and starts or ends no rotation.
LEMMA LinesLeftAlone ==
  ASSUME UNCHANGED <<keys, ended>>,
         \A r \in Requests :
           /\ requests'[r].pc = "insert" <=> requests[r].pc = "insert"
           /\ requests[r].pc = "insert" => requests'[r].target = requests[r].target
  PROVE  LinesUnchanged
  BY DEF LinesUnchanged, Rotations

\* Where a line has one heir, creating a key begins a line.
LEMMA CreateIssues ==
  ASSUME TypeOK, LinesInv, OneHeir, NEW r \in Requests, NEW k \in KeyIds, CreateKey(r, k)
  PROVE  Issued(k, k)
<1>1. Insert(k, k) /\ keys[k] = Unused
  BY DEF CreateKey, Insert
<1>2. /\ keys'[k] = [state |-> "active", line |-> k]
      /\ \A j \in KeyIds \ {k} : keys'[j] = keys[j]
  BY <1>1 DEF Insert, TypeOK
<1>3. \A q \in Requests :
        /\ requests'[q].pc = "insert" <=> requests[q].pc = "insert"
        /\ requests[q].pc = "insert" => requests'[q] = requests[q]
  BY DEF CreateKey, At, ToAudit, Become, TypeOK
<1>4. \A q \in Requests : requests[q].pc = "insert" =>
        /\ requests[q].target \in KeyIds /\ requests[q].target # k
        /\ keys[requests[q].target].line # k
  BY <1>1, RotatedLine DEF LinesInv
<1>5. \A line \in KeyIds : Rotations(line)' = Rotations(line)
  BY <1>2, <1>3, <1>4 DEF Rotations
<1>6. Rotations(k)' = {}
  BY <1>4, <1>5 DEF Rotations
<1>7. \A j \in KeyIds : Active(j) => j # k /\ keys[j].line # k
  BY <1>1, ActiveKey DEF LinesInv
<1>8. Holders(k) = {} /\ Holders(k)' = {k}
  BY <1>2, <1>7 DEF Holders, Active
<1>9. \A line \in KeyIds \ {k} : Holders(line)' = Holders(line)
  BY <1>2, <1>7 DEF Holders, Active
<1>10. k \notin ended /\ ended' = ended
  BY <1>1 DEF CreateKey, LinesInv
<1>11. OthersUnchanged(k)
  BY <1>5, <1>9 DEF OthersUnchanged
<1>12. QED
  BY <1>1, <1>2, <1>6, <1>8, <1>10, <1>11 DEF Issued

\* The second half of a rotation goes on with the line of the revoked key.
LEMMA RotateIssues ==
  ASSUME TypeOK, LinesInv, OneHeir, NEW r \in Requests, NEW k \in KeyIds, RotateInsert(r, k)
  PROVE  \E L \in KeyIds : Issued(k, L)
<1>1. PICK L \in KeyIds : L = keys[requests[r].target].line
  BY RotatedLine DEF RotateInsert
<1>2. Insert(k, L) /\ keys[k] = Unused
  BY <1>1 DEF RotateInsert, Insert
<1>3. Begins(L)
  BY <1>1, RotatedLine DEF RotateInsert, LinesInv, Begins
<1>4. /\ keys'[k] = [state |-> "active", line |-> L]
      /\ \A j \in KeyIds \ {k} : keys'[j] = keys[j]
  BY <1>2 DEF Insert, TypeOK
<1>5. r \in Rotations(L)
  BY <1>1 DEF RotateInsert, Rotations
<1>6. Holders(L) = {} /\ Rotations(L) = {r} /\ L \notin ended
  BY <1>3, <1>5 DEF OneHeir
<1>7. \A q \in Requests :
        /\ requests'[q].pc = "insert" <=> q # r /\ requests[q].pc = "insert"
        /\ q # r => requests'[q] = requests[q]
  BY DEF RotateInsert, ToAudit, Become, TypeOK
<1>8. \A q \in Requests : requests[q].pc = "insert" =>
        requests[q].target \in KeyIds /\ requests[q].target # k
  BY <1>2, RotatedLine DEF LinesInv
<1>9. \A line \in KeyIds : Rotations(line)' = Rotations(line) \ {r}
  BY <1>4, <1>7, <1>8 DEF Rotations
<1>10. \A line \in KeyIds \ {L} : r \notin Rotations(line)
  BY <1>1 DEF Rotations
<1>11. \A j \in KeyIds : Active(j) => j # k
  BY <1>2, ActiveKey
<1>12. Holders(L)' = {k}
  <2>1. \A j \in KeyIds : ~ (keys[j].state = "active" /\ keys[j].line = L)
    BY <1>6 DEF Holders, Active
  <2>2. QED
    BY <1>4, <2>1 DEF Holders, Active
<1>13. \A line \in KeyIds \ {L} : Holders(line)' = Holders(line)
  BY <1>4, <1>11 DEF Holders, Active
<1>14. ended' = ended
  BY DEF RotateInsert
<1>15. Rotations(L)' = {} /\ \A line \in KeyIds \ {L} : Rotations(line)' = Rotations(line)
  BY <1>6, <1>9, <1>10
<1>16. Issued(k, L)
  BY <1>2, <1>3, <1>4, <1>6, <1>12, <1>13, <1>14, <1>15 DEF Issued, OthersUnchanged
<1>17. QED
  BY <1>16

\* A request that revokes a key and goes on to insert the next, or is through.
LEMMA RevokeWithdraws ==
  ASSUME TypeOK, LinesInv, OneHeir, NEW r \in Requests, NEW k \in KeyIds,
         k = requests[r].target, Revoke(k), requests[r].pc # "insert",
         \A q \in Requests : q # r => requests'[q] = requests[q],
         \/ requests'[r].pc = "insert" /\ requests'[r].target = k /\ ended' = ended
         \/ requests'[r].pc # "insert" /\ ended' = ended \cup {keys[k].line}
  PROVE  \E L \in KeyIds : Withdrawn(k, L)
<1>1. PICK L \in KeyIds : L = keys[k].line
  BY ActiveKey DEF Revoke
<1>2. Active(k) /\ keys[k] # Unused
  BY ActiveKey DEF Revoke
<1>3. Begins(L) /\ k \in Holders(L)
  BY <1>1, <1>2 DEF LinesInv, Holders, Begins
<1>4. Holders(L) = {k} /\ Rotations(L) = {} /\ L \notin ended
  BY <1>3 DEF OneHeir
<1>5. \A q \in Requests : requests[q].pc = "insert" => requests[q].target \in KeyIds
  BY RotatedLine
<1>6. \A line \in KeyIds : Holders(line)' = Holders(line) \ {k}
  BY LinesRevoke DEF Holders, Active
<1>7. \A line \in KeyIds : line # L => k \notin Holders(line)
  BY <1>1 DEF Holders
<1>8. \A line \in KeyIds : Rotations(line)' =
        IF line = L /\ requests'[r].pc = "insert" THEN Rotations(line) \cup {r} ELSE Rotations(line)
  BY <1>1, <1>5, LinesRevoke DEF Rotations
<1>9. OthersUnchanged(L)
  BY <1>6, <1>7, <1>8 DEF OthersUnchanged
<1>10. Holders(L)' = {}
  BY <1>4, <1>6
<1>11. \/ ended' = ended /\ \E q \in Requests : Rotations(L)' = {q}
       \/ ended' = ended \cup {L} /\ Rotations(L)' = {}
  BY <1>1, <1>4, <1>8
<1>12. Withdrawn(k, L)
  BY <1>1, <1>3, <1>4, <1>9, <1>10, <1>11, LinesRevoke DEF Withdrawn
<1>13. QED
  BY <1>12

\* A request that ends early, in a rotation or not.
LEMMA AbandonBreaksOff ==
  ASSUME TypeOK, LinesInv, OneHeir, NEW r \in Requests, Abandon(r)
  PROVE  LinesUnchanged \/ \E L \in KeyIds : BrokenOff(L)
<1>1. \A q \in Requests :
        /\ requests'[q].pc = "insert" <=> q # r /\ requests[q].pc = "insert"
        /\ q # r => requests'[q] = requests[q]
  BY DEF Abandon, Become, TypeOK, Idle
<1>2. CASE requests[r].pc # "insert"
  BY <1>1, <1>2, LinesLeftAlone DEF Abandon
<1>3. CASE requests[r].pc = "insert"
  <2>1. PICK L \in KeyIds : L = keys[requests[r].target].line
    BY <1>3, RotatedLine
  <2>2. Begins(L) /\ r \in Rotations(L)
    BY <1>3, <2>1, RotatedLine DEF LinesInv, Rotations, Begins
  <2>3. Holders(L) = {} /\ Rotations(L) = {r} /\ L \notin ended
    BY <2>2 DEF OneHeir
  <2>4. keys' = keys /\ ended' = ended \cup {L}
    BY <1>3, <2>1 DEF Abandon
  <2>5. \A line \in KeyIds : Holders(line)' = Holders(line) /\ Rotations(line)' = Rotations(line) \ {r}
    BY <1>1, <2>4 DEF Holders, Active, Rotations
  <2>6. \A line \in KeyIds \ {L} : r \notin Rotations(line)
    BY <2>1 DEF Rotations
  <2>7. Rotations(L)' = {} /\ OthersUnchanged(L)
    BY <2>3, <2>5, <2>6 DEF OthersUnchanged
  <2>8. BrokenOff(L)
    BY <2>2, <2>3, <2>4, <2>7 DEF BrokenOff
  <2>9. QED
    BY <2>8
<1>4. QED
  BY <1>2, <1>3

\* Every step of the system is one of these four to the lines.
LEMMA StepsOfLines ==
  ASSUME TypeOK, LinesInv, OneHeir, [Next]_tvars
  PROVE  LineStep
<1>1. ASSUME NEW r \in Requests, NEW k \in KeyIds, CreateKey(r, k)
      PROVE  LineStep
  BY <1>1, CreateIssues DEF LineStep
<1>2. ASSUME NEW r \in Requests, NEW k \in KeyIds, RotateInsert(r, k)
      PROVE  LineStep
  BY <1>2, RotateIssues DEF LineStep
<1>3. ASSUME NEW r \in Requests, RevokeKey(r)
      PROVE  LineStep
  <2>1. requests[r].target \in KeyIds
    BY <1>3, TargetKinds DEF RevokeKey
  <2>2. /\ \A q \in Requests : q # r => requests'[q] = requests[q]
        /\ requests'[r].pc # "insert" /\ requests[r].pc # "insert"
    BY <1>3 DEF RevokeKey, At, ToAudit, Become, TypeOK
  <2>3. QED
    BY <1>3, <2>1, <2>2, RevokeWithdraws DEF RevokeKey, LineStep
<1>4. ASSUME NEW r \in Requests, RotateRevoke(r)
      PROVE  LineStep
  <2>1. requests[r].target \in KeyIds
    BY <1>4, TargetKinds DEF RotateRevoke
  <2>2. /\ \A q \in Requests : q # r => requests'[q] = requests[q]
        /\ requests'[r].pc = "insert" /\ requests[r].pc # "insert"
        /\ requests'[r].target = requests[r].target
    BY <1>4 DEF RotateRevoke, At, Become, TypeOK
  <2>3. QED
    BY <1>4, <2>1, <2>2, RevokeWithdraws DEF RotateRevoke, LineStep
<1>5. ASSUME NEW r \in Requests, Abandon(r)
      PROVE  LineStep
  BY <1>5, AbandonBreaksOff DEF LineStep
<1>6. ASSUME NEW r \in Requests, NEW value \in Values, UpdateSettings(r, value)
      PROVE  LineStep
  <2>1. requests[r] \in Saving
    BY <1>6, RequestKinds DEF UpdateSettings
  <2>2. {requests[r].op} \cup requests[r].missed \in SUBSET Sections
    BY <2>1 DEF Saving
  <2>3. \A q \in Requests :
          /\ requests'[q].pc = "insert" <=> requests[q].pc = "insert"
          /\ requests[q].pc = "insert" => requests'[q] = requests[q]
    BY <1>6, <2>2, MissEffect DEF UpdateSettings
  <2>4. QED
    BY <1>6, <2>3, LinesLeftAlone DEF UpdateSettings, LineStep
<1>7. CASE UpsertTenant
  <2>1. \A q \in Requests :
          /\ requests'[q].pc = "insert" <=> requests[q].pc = "insert"
          /\ requests[q].pc = "insert" => requests'[q] = requests[q]
    BY <1>7, MissEffect DEF UpsertTenant
  <2>2. QED
    BY <1>7, <2>1, LinesLeftAlone DEF UpsertTenant, LineStep
<1>8. ASSUME NEW r \in Requests,
             \/ \E role \in PrincipalRoles, op \in Operations :
                  \E target \in Targets(op) : Begin(r, role, op, target)
             \/ SelectSettings(r)
             \/ \E role \in Roles : GrantMembership(r, role)
             \/ RemoveMembership(r)
             \/ StartOnboarding(r)
             \/ RecordEvent(r)
      PROVE  LineStep
  <2>1. PICK next : next.pc # "insert" /\ Become(r, next)
    BY <1>8 DEF Begin, SelectSettings, GrantMembership, RemoveMembership, StartOnboarding,
                RecordEvent, ToAudit, Become, Idle
  <2>2. requests[r].pc # "insert" /\ UNCHANGED <<keys, ended>>
    BY <1>8 DEF Begin, SelectSettings, GrantMembership, RemoveMembership, StartOnboarding,
                RecordEvent, At, Idle
  <2>3. \A q \in Requests :
          /\ requests'[q].pc = "insert" <=> requests[q].pc = "insert"
          /\ requests[q].pc = "insert" => requests'[q] = requests[q]
    BY <2>1, <2>2 DEF Become, TypeOK
  <2>4. QED
    BY <2>2, <2>3, LinesLeftAlone DEF LineStep
<1>9. CASE \/ \E u \in Users, role \in Roles : BootstrapMember(u, role)
           \/ OnboardingGoesOn \/ OnboardingEnds \/ LateUpsertLost \/ UNCHANGED tvars
  <2>1. UNCHANGED <<keys, ended, requests>>
    BY <1>9 DEF BootstrapMember, OnboardingGoesOn, OnboardingEnds, LateUpsertLost, tvars
  <2>2. QED
    BY <2>1, LinesLeftAlone DEF LineStep
<1>10. QED
  BY <1>1, <1>2, <1>3, <1>4, <1>5, <1>6, <1>7, <1>8, <1>9 DEF Next, Serve

LEMMA HeirStep ==
  ASSUME TypeOK, LinesInv, OneHeir, LineStep
  PROVE  OneHeir'
<1>1. CASE LinesUnchanged
  <2>1. \A line \in KeyIds : Rotations(line)' = Rotations(line) /\ Holders(line)' = Holders(line)
    BY <1>1 DEF LinesUnchanged, Holders, Active
  <2>2. QED
    BY <1>1, <2>1 DEF LinesUnchanged, OneHeir, Begins
<1>2. ASSUME NEW k \in KeyIds, NEW L \in KeyIds, Issued(k, L)
      PROVE  OneHeir'
  <2> SUFFICES ASSUME NEW line \in KeyIds, Begins(line)'
               PROVE  /\ \A a, b \in Holders(line)' : a = b
                      /\ \A q, r \in Rotations(line)' : q = r
                      /\ Holders(line)' = {} \/ Rotations(line)' = {}
                      /\ line \in ended' <=> Holders(line)' = {} /\ Rotations(line)' = {}
    BY DEF OneHeir
  <2>1. CASE line = L
    BY <1>2, <2>1 DEF Issued
  <2>2. CASE line # L
    <3>1. Begins(line)
      BY <1>2, <2>2 DEF Issued, Begins
    <3>2. QED
      BY <1>2, <2>2, <3>1 DEF Issued, OthersUnchanged, OneHeir
  <2>3. QED
    BY <2>1, <2>2
<1>3. ASSUME NEW k \in KeyIds, NEW L \in KeyIds, Withdrawn(k, L)
      PROVE  OneHeir'
  <2>1. \A line \in KeyIds : Begins(line)' <=> Begins(line)
    BY <1>3 DEF Withdrawn, Begins
  <2>2. /\ \A a, b \in Holders(L)' : a = b
        /\ \A q, r \in Rotations(L)' : q = r
        /\ Holders(L)' = {} \/ Rotations(L)' = {}
        /\ L \in ended' <=> Holders(L)' = {} /\ Rotations(L)' = {}
    BY <1>3 DEF Withdrawn
  <2>3. \A line \in KeyIds \ {L} : line \in ended' <=> line \in ended
    BY <1>3 DEF Withdrawn
  <2>4. OthersUnchanged(L)
    BY <1>3 DEF Withdrawn
  <2>5. QED
    BY <2>1, <2>2, <2>3, <2>4 DEF OneHeir, OthersUnchanged
<1>4. ASSUME NEW L \in KeyIds, BrokenOff(L)
      PROVE  OneHeir'
  <2>1. Holders(L)' = Holders(L)
    BY <1>4 DEF BrokenOff, Holders, Active
  <2>2. QED
    BY <1>4, <2>1 DEF BrokenOff, OthersUnchanged, OneHeir, Begins
<1>5. QED
  BY <1>1, <1>2, <1>3, <1>4 DEF LineStep

LEMMA HeirInvariant == Spec => [](TypeOK /\ LinesInv /\ OneHeir)
<1>1. TypeOK /\ LinesInv /\ OneHeir /\ [Next]_tvars => OneHeir'
  BY StepsOfLines, HeirStep
<1>2. QED
  BY <1>1, HeirInit, TypeCorrect, PTL DEF Spec

\* A key that was created has one heir, or none for ever once it was revoked
\* or its rotation broke off.
THEOREM KeysHaveOneHeir == Spec => []OneHeir
  BY HeirInvariant, PTL

\* To the line of a created key, each of the four is a step of KeyLine or none.
LEMMA LineStepsAreKept ==
  ASSUME TypeOK, LinesInv, OneHeir, LineStep, NEW line \in KeyIds
  PROVE  UNCHANGED Line(line)!lvars \/ Line(line)!Next
<1>1. ASSUME Begins(line)' <=> Begins(line), line \in ended' <=> line \in ended,
             Holders(line)' = Holders(line), Rotations(line)' = Rotations(line),
             Past(line)' = Past(line)
      PROVE  UNCHANGED Line(line)!lvars
  BY <1>1 DEF Line!lvars, LinePhase
<1>2. CASE LinesUnchanged
  <2>1. Holders(line)' = Holders(line) /\ Past(line)' = Past(line)
    BY <1>2 DEF LinesUnchanged, Holders, Past, Active
  <2>2. QED
    BY <1>1, <1>2, <2>1 DEF LinesUnchanged, Begins
<1>3. ASSUME NEW k \in KeyIds, NEW L \in KeyIds, Issued(k, L)
      PROVE  UNCHANGED Line(line)!lvars \/ Line(line)!Next
  <2>1. /\ keys[k] = Unused /\ keys'[k] # Unused
        /\ keys'[k].state = "active" /\ keys'[k].line = L
        /\ \A j \in KeyIds \ {k} : keys'[j] = keys[j]
    BY <1>3 DEF Issued, Unused
  <2>2. Past(line)' = Past(line)
    BY <2>1 DEF Past, Active
  <2>3. CASE line # L
    <3>1. Begins(line)' <=> Begins(line)
      BY <2>1, <2>3 DEF Begins
    <3>2. QED
      BY <1>1, <1>3, <2>2, <2>3, <3>1 DEF Issued, OthersUnchanged
  <2>4. CASE line = L
    <3>1. LinePhase(line) \in {"none", "rotating"}
      BY <1>3, <2>1, <2>4 DEF Issued, LinePhase, Begins
    <3>2. LinePhase(line)' = "held"
      <4>1. Begins(line)'
        BY <1>3, <2>1, <2>4 DEF Issued, Begins
      <4>2. line \notin ended' /\ Rotations(line)' = {}
        BY <1>3, <2>4 DEF Issued
      <4>3. QED
        BY <4>1, <4>2 DEF LinePhase
    <3>3. Holders(line)' = {k} /\ k \notin Past(line)
      BY <1>3, <2>1, <2>4 DEF Issued, Past
    <3>4. Line(line)!Issue
      BY <2>2, <3>1, <3>2, <3>3 DEF Line!Issue
    <3>5. QED
      BY <3>4 DEF Line!Next
  <2>5. QED
    BY <2>3, <2>4
<1>4. ASSUME NEW k \in KeyIds, NEW L \in KeyIds, Withdrawn(k, L)
      PROVE  UNCHANGED Line(line)!lvars \/ Line(line)!Next
  <2>1. /\ L = keys[k].line /\ Begins(L) /\ keys[k] # Unused /\ Active(k)
        /\ \A j \in KeyIds :
             /\ keys'[j] # Unused <=> keys[j] # Unused
             /\ keys'[j].line = keys[j].line
             /\ keys'[j].state = IF j = k THEN "revoked" ELSE keys[j].state
    BY <1>4, ActiveKey DEF Withdrawn, Holders
  <2>2. \A l \in KeyIds : Begins(l)' <=> Begins(l)
    BY <2>1 DEF Begins
  <2>3. CASE line # L
    <3>1. Past(line)' = Past(line)
      BY <2>1, <2>3 DEF Past, Active
    <3>2. line \in ended' <=> line \in ended
      BY <1>4, <2>3 DEF Withdrawn
    <3>3. QED
      BY <1>1, <1>4, <2>2, <2>3, <3>1, <3>2 DEF Withdrawn, OthersUnchanged
  <2>4. CASE line = L
    <3>1. Holders(line) = {k} /\ Holders(line)' = {}
      BY <1>4, <2>4 DEF Withdrawn
    <3>2. LinePhase(line) = "held"
      BY <1>4, <2>1, <2>4 DEF Withdrawn, LinePhase
    <3>3. LinePhase(line)' \in {"rotating", "ended"}
      <4>1. Begins(line)'
        BY <2>1, <2>2, <2>4
      <4>2. line \in ended' \/ Rotations(line)' # {}
        BY <1>4, <2>4 DEF Withdrawn
      <4>3. QED
        BY <4>1, <4>2 DEF LinePhase
    <3>4. Past(line)' = Past(line) \cup {k}
      BY <2>1, <2>4 DEF Past, Active
    <3>5. Line(line)!Withdraw
      BY <3>1, <3>2, <3>3, <3>4 DEF Line!Withdraw
    <3>6. QED
      BY <3>5 DEF Line!Next
  <2>5. QED
    BY <2>3, <2>4
<1>5. ASSUME NEW L \in KeyIds, BrokenOff(L)
      PROVE  UNCHANGED Line(line)!lvars \/ Line(line)!Next
  <2>1. keys' = keys /\ Begins(line)' = Begins(line)
    BY <1>5 DEF BrokenOff, Begins
  <2>2. Holders(line)' = Holders(line) /\ Past(line)' = Past(line)
    BY <2>1 DEF Holders, Past, Active
  <2>3. CASE line # L
    BY <1>1, <1>5, <2>1, <2>2, <2>3 DEF BrokenOff, OthersUnchanged
  <2>4. CASE line = L
    <3>1. LinePhase(line) = "rotating"
      BY <1>5, <2>4 DEF BrokenOff, LinePhase
    <3>2. LinePhase(line)' = "ended"
      BY <1>5, <2>1, <2>4 DEF BrokenOff, LinePhase
    <3>3. Line(line)!BreakOff
      BY <2>2, <3>1, <3>2 DEF Line!BreakOff
    <3>4. QED
      BY <3>3 DEF Line!Next
  <2>5. QED
    BY <2>3, <2>4
<1>6. QED
  BY <1>2, <1>3, <1>4, <1>5 DEF LineStep

LEMMA LinesBegin ==
  ASSUME Init, NEW line \in KeyIds
  PROVE  Line(line)!Init
BY DEF Init, Line!Init, LinePhase, Begins, Holders, Past, Active, Unused

\* Every created key implements KeyLine: one key accepted at a time, none again
\* that was withdrawn, and an end that is final.
THEOREM LinesImplementKeyLine == Spec => LinesAreKept
<1>1. Init => \A line \in KeyIds : Line(line)!Init
  BY LinesBegin
<1>2. TypeOK /\ LinesInv /\ OneHeir /\ [Next]_tvars =>
        [\A line \in KeyIds : UNCHANGED Line(line)!lvars \/ Line(line)!Next]_tvars
  BY StepsOfLines, LineStepsAreKept
<1>3. QED
  BY <1>1, <1>2, HeirInvariant, PTL DEF Spec, LinesAreKept

----------------------------------------------------------------------------
(* Saved settings stay.                                                    *)

LEMMA SettingsInit == Init => SavesInv /\ SettingsKept
  BY DEF Init, SavesInv, SettingsKept, Idle

\* Steps that write neither the row nor a save's copy.
LEMMA SettingsUntouched ==
  ASSUME SavesInv, SettingsKept, UNCHANGED <<settings, expected>>,
         \A q \in Requests : requests'[q].pc = "update" => requests'[q] = requests[q]
  PROVE  SavesInv' /\ SettingsKept'
  BY DEF SavesInv, SettingsKept

LEMMA SettingsStep ==
  ASSUME TypeOK, SavesInv, SettingsKept, [Next]_tvars
  PROVE  SavesInv' /\ SettingsKept'
<1>1. ASSUME NEW r \in Requests, SelectSettings(r)
      PROVE  SavesInv' /\ SettingsKept'
  <2>1. settings # NoTenant /\ UNCHANGED <<settings, expected>>
    BY <1>1 DEF SelectSettings, TenantExists
  <2>2. \A q \in Requests :
          IF q = r THEN requests'[q].copy = settings ELSE requests'[q] = requests[q]
    BY <1>1 DEF SelectSettings, Become, TypeOK
  <2>3. QED
    BY <2>1, <2>2 DEF SavesInv, SettingsKept
<1>2. ASSUME NEW r \in Requests, NEW value \in Values, UpdateSettings(r, value)
      PROVE  SavesInv' /\ SettingsKept'
  <2>1. requests[r] \in Saving
    BY <1>2, RequestKinds DEF UpdateSettings
  <2>2. PICK written \in SUBSET Sections : written = {requests[r].op} \cup requests[r].missed
    BY <2>1 DEF Saving
  <2>3. /\ settings' \in Settings
        /\ settings'[requests[r].op] = value
        /\ \A section \in Sections \ {requests[r].op} :
             settings'[section] = requests[r].copy[section]
    BY <1>2, <2>1 DEF UpdateSettings, Merged, Saving, Settings
  <2>4. \A section \in Sections \ written : settings'[section] = settings[section]
    BY <1>2, <2>2, <2>3 DEF UpdateSettings, SavesInv
  <2>5. settings' # NoTenant
    BY <2>3, SettingsFacts
  <2>6. \A q \in Requests :
          requests'[q] = IF q = r THEN [pc |-> "audit"] ELSE Miss(written, q)
    BY <1>2, <2>2 DEF UpdateSettings
  <2>7. ASSUME NEW q \in Requests, requests'[q].pc = "update"
        PROVE  /\ requests[q].pc = "update" /\ requests'[q].copy = requests[q].copy
               /\ requests'[q].missed = requests[q].missed \cup written
    <3>1. q # r
      BY <2>6, <2>7
    <3>2. requests'[q] = Miss(written, q)
      BY <2>6, <3>1
    <3>3. QED
      BY <2>7, <3>2, MissEffect
  <2>8. SavesInv'
    BY <2>4, <2>5, <2>7 DEF SavesInv
  <2>9. ASSUME NEW section \in Sections, expected'[section] # Unsure
        PROVE  settings'[section] = expected'[section]
    <3>1. CASE section = requests[r].op
      BY <1>2, <2>3, <3>1 DEF UpdateSettings
    <3>2. CASE section # requests[r].op
      <4>1. section \notin requests[r].missed /\ expected'[section] = expected[section]
        BY <1>2, <2>9, <3>2 DEF UpdateSettings
      <4>2. settings'[section] = settings[section] /\ settings # NoTenant
        BY <1>2, <2>2, <2>4, <3>2, <4>1 DEF SavesInv, UpdateSettings
      <4>3. QED
        BY <2>9, <4>1, <4>2 DEF SettingsKept
    <3>3. QED
      BY <3>1, <3>2
  <2>10. QED
    BY <2>8, <2>9 DEF SettingsKept
<1>3. CASE UpsertTenant
  <2>1. settings' = AllUnset /\ expected' = AllUnset /\ settings' # NoTenant
    BY <1>3, SettingsFacts DEF UpsertTenant
  <2>2. \A q \in Requests : requests'[q].pc = "update" => Sections \subseteq requests'[q].missed
    BY <1>3, MissEffect DEF UpsertTenant
  <2>3. QED
    BY <2>1, <2>2 DEF SavesInv, SettingsKept
<1>4. ASSUME NEW r \in Requests,
             \/ \E role \in PrincipalRoles, op \in Operations :
                  \E target \in Targets(op) : Begin(r, role, op, target)
             \/ \E role \in Roles : GrantMembership(r, role)
             \/ RemoveMembership(r)
             \/ \E k \in KeyIds : CreateKey(r, k) \/ RotateInsert(r, k)
             \/ RevokeKey(r) \/ RotateRevoke(r)
             \/ StartOnboarding(r)
             \/ RecordEvent(r) \/ Abandon(r)
      PROVE  SavesInv' /\ SettingsKept'
  <2>1. PICK next : next.pc # "update" /\ Become(r, next)
    BY <1>4 DEF Begin, GrantMembership, RemoveMembership, CreateKey, RotateInsert, RevokeKey,
                RotateRevoke, StartOnboarding, RecordEvent, Abandon, ToAudit, Become, Idle
  <2>2. UNCHANGED <<settings, expected>>
    BY <1>4 DEF Begin, GrantMembership, RemoveMembership, CreateKey, RotateInsert, RevokeKey,
                RotateRevoke, StartOnboarding, RecordEvent, Abandon
  <2>3. \A q \in Requests : requests'[q].pc = "update" => requests'[q] = requests[q]
    BY <2>1 DEF Become, TypeOK
  <2>4. QED
    BY <2>2, <2>3, SettingsUntouched
<1>5. CASE \/ \E u \in Users, role \in Roles : BootstrapMember(u, role)
           \/ OnboardingGoesOn \/ OnboardingEnds \/ LateUpsertLost \/ UNCHANGED tvars
  <2>1. UNCHANGED <<settings, expected, requests>>
    BY <1>5 DEF BootstrapMember, OnboardingGoesOn, OnboardingEnds, LateUpsertLost, tvars
  <2>2. QED
    BY <2>1, SettingsUntouched
<1>6. QED
  BY <1>1, <1>2, <1>3, <1>4, <1>5 DEF Next, Serve

\* A saved section stays until an onboarding resets the tenant or a save that
\* had read the row before puts the older content back.
THEOREM SavedSettingsStay == Spec => []SettingsKept
<1>1. Init => SavesInv /\ SettingsKept
  BY SettingsInit
<1>2. TypeOK /\ SavesInv /\ SettingsKept /\ [Next]_tvars => (SavesInv /\ SettingsKept)'
  BY SettingsStep
<1>3. QED
  BY <1>1, <1>2, TypeCorrect, PTL DEF Spec
=============================================================================
