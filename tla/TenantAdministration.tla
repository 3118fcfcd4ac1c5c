------------------------ MODULE TenantAdministration ------------------------
(***************************************************************************)
(* One tenant's record, members and API keys, under the administration     *)
(* routes of the API, the onboarding workflow of the worker and the script *)
(* that bootstraps a member.                                               *)
(*                                                                         *)
(* A request first has its principal resolved, in a thread of its own, and *)
(* then runs its handler: a few transactions of db.py, nothing locked      *)
(* between them.  Requests are in any number of API processes, so their    *)
(* steps interleave freely; any of them may end early, because it is       *)
(* refused, the database fails or its process stops.                       *)
(*                                                                         *)
(* Left out: the other columns, the list routes, and the tenant's own API  *)
(* keys as principals, which none of these routes admits.                  *)
(***************************************************************************)
EXTENDS Naturals

CONSTANTS Requests,  \* requests being served at a time
          KeyIds,    \* ids of API keys ever inserted
          Users,
          Roles,     \* roles given to members
          Values     \* contents of a section of the settings

ASSUME RolesAssumption == Roles \subseteq {"owner", "admin", "recruiter", "viewer"}

\* What the two routes that save settings write into tenants.metadata_json.
Sections == {"preferences", "templates"}

CONSTANTS Unset, Unsure, NoTenant

ASSUME ConstantsAssumption ==
  /\ Unset \notin Values /\ Unsure \notin Values /\ Unset # Unsure
  /\ NoTenant \notin [Sections -> Values \cup {Unset}]

VARIABLES
  settings,    \* the tenants row's metadata, NoTenant while there is no row
  members,     \* tenant_memberships: user -> role, "none" without a row
  keys,        \* tenant_api_keys: id -> state and line
  requests,    \* what each request is doing
  onboarding,  \* the onboarding run: "none", "tenant" (its first activity), "rest"
  late,        \* a thread of a timed-out onboarding may still write the row
  \* For the properties only:
  expected,    \* what each section was last set to; Unsure once overlap undid it
  ended        \* lines of keys that were revoked or broken off

tvars == <<settings, members, keys, requests, onboarding, late, expected, ended>>

Settings == [Sections -> Values \cup {Unset}]

\* `line` is the id of the key a rotated key descends from.
Key == [state : {"active", "revoked"}, line : KeyIds]
Unused == [state |-> "unused"]

Idle == [pc |-> "idle"]

\* The routes, and the key or the user the request names.
Operations == Sections \cup {"grant", "remove", "create", "revoke", "rotate", "onboard"}
Targets(op) == IF op \in {"revoke", "rotate"} THEN KeyIds
               ELSE IF op \in {"grant", "remove"} THEN Users ELSE {"none"}

Begun == {call \in [pc : {"begun"}, op : Operations, target : KeyIds \cup Users \cup {"none"}] :
            call.target \in Targets(call.op)}
\* A save holds the metadata it selected and, for the properties, the sections
\* that may have changed since.
Saving   == [pc : {"update"}, op : Sections, copy : Settings, missed : SUBSET Sections]
Rotating == [pc : {"insert"}, target : KeyIds]
Auditing == [pc : {"audit"}]

TypeOK ==
  /\ settings \in Settings \cup {NoTenant}
  /\ members \in [Users -> Roles \cup {"none"}]
  /\ keys \in [KeyIds -> Key \cup {Unused}]
  /\ requests \in [Requests -> Begun \cup Saving \cup Rotating \cup Auditing \cup {Idle}]
  /\ onboarding \in {"none", "tenant", "rest"}
  /\ late \in BOOLEAN
  /\ expected \in [Sections -> Values \cup {Unset, Unsure}]
  /\ ended \subseteq KeyIds

AllUnset == [section \in Sections |-> Unset]

Init ==
  /\ settings = NoTenant
  /\ members = [u \in Users |-> "none"]
  /\ keys = [k \in KeyIds |-> Unused]
  /\ requests = [r \in Requests |-> Idle]
  /\ onboarding = "none"
  /\ late = FALSE
  /\ expected = AllUnset
  /\ ended = {}

TenantAssumed == TRUE   \* mutant: the tenant's row is not looked up
TenantExists == settings # NoTenant

Active(k) == keys[k].state = "active"

----------------------------------------------------------------------------
(* A request begins.                                                       *)

\* The platform's key, or the membership find_tenant_membership_by_user finds.
PrincipalRoles == {"admin"} \cup {members[u] : u \in Users}

\* require_admin for the onboarding, require_tenant_admin for the rest.
Authorized(role, op) ==
  IF op = "onboard" THEN role = "admin" ELSE role \in {"owner", "admin"}

Begin(r, role, op, target) ==
  /\ requests[r] = Idle
  /\ Authorized(role, op)
  /\ requests' = [requests EXCEPT ![r] = [pc |-> "begun", op |-> op, target |-> target]]
  /\ UNCHANGED <<settings, members, keys, onboarding, late, expected, ended>>

\* The request is past its principal and about to do `op`.
At(r, op) == requests[r].pc = "begun" /\ requests[r].op = op

Become(r, next) == requests' = [requests EXCEPT ![r] = next]

ToAudit(r) == Become(r, [pc |-> "audit"])

----------------------------------------------------------------------------
(* Settings: update_tenant_metadata selects, merges and updates.           *)

SelectSettings(r) ==
  /\ requests[r].pc = "begun" /\ requests[r].op \in Sections
  /\ TenantExists
  /\ Become(r, [pc |-> "update", op |-> requests[r].op, copy |-> settings, missed |-> {}])
  /\ UNCHANGED <<settings, members, keys, onboarding, late, expected, ended>>

\* Saves under way have not seen that these sections may be changing.  The
\* write of a save may change its own section and those it has missed itself.
Miss(sections, q) ==
  IF requests[q].pc = "update" THEN [requests[q] EXCEPT !.missed = @ \cup sections]
                               ELSE requests[q]

Replaced(copy, section, value) ==   \* mutant: the object is replaced, not merged
  [AllUnset EXCEPT ![section] = value]
Merged(copy, section, value) == [copy EXCEPT ![section] = value]

UpdateSettings(r, value) ==
  LET save == requests[r] IN
  /\ save.pc = "update"
  /\ settings' = Merged(save.copy, save.op, value)
  /\ expected' = [section \in Sections |->
                    IF section = save.op THEN value
                    ELSE IF section \in save.missed THEN Unsure ELSE expected[section]]
  /\ requests' = [q \in Requests |-> IF q = r THEN [pc |-> "audit"]
                                     ELSE Miss({save.op} \cup save.missed, q)]
  /\ UNCHANGED <<members, keys, onboarding, late, ended>>

----------------------------------------------------------------------------
(* Memberships.                                                            *)

GrantMembership(r, role) ==
  /\ At(r, "grant")
  /\ TenantExists
  /\ members' = [members EXCEPT ![requests[r].target] = role]
  /\ ToAudit(r)
  /\ UNCHANGED <<settings, keys, onboarding, late, expected, ended>>

RemoveMembership(r) ==
  /\ At(r, "remove")
  /\ members[requests[r].target] # "none"
  /\ members' = [members EXCEPT ![requests[r].target] = "none"]
  /\ ToAudit(r)
  /\ UNCHANGED <<settings, keys, onboarding, late, expected, ended>>

\* scripts/bootstrap_tenant_member.py, run by an operator.
BootstrapMember(u, role) ==
  /\ TenantExists
  /\ members' = [members EXCEPT ![u] = role]
  /\ UNCHANGED <<settings, keys, requests, onboarding, late, expected, ended>>

----------------------------------------------------------------------------
(* API keys.                                                               *)

Insert(k, line) ==
  /\ keys[k] = Unused
  /\ keys' = [keys EXCEPT ![k] = [state |-> "active", line |-> line]]

CreateKey(r, k) ==
  /\ At(r, "create")
  /\ TenantExists
  /\ Insert(k, k)
  /\ ToAudit(r)
  /\ UNCHANGED <<settings, members, onboarding, late, expected, ended>>

\* revoke_tenant_api_key: the update is guarded by is_active, so that of two
\* requests the second finds nothing and is refused.
RevokeKnown(k) ==   \* mutant: the update is not guarded by is_active
  /\ keys[k] # Unused
  /\ keys' = [keys EXCEPT ![k].state = "revoked"]
Revoke(k) ==
  /\ Active(k)
  /\ keys' = [keys EXCEPT ![k].state = "revoked"]

RevokeKey(r) ==
  LET k == requests[r].target IN
  /\ At(r, "revoke")
  /\ Revoke(k)
  /\ ended' = ended \cup {keys[k].line}
  /\ ToAudit(r)
  /\ UNCHANGED <<settings, members, onboarding, late, expected>>

RotateUnchecked(r) ==   \* mutant: that nothing was revoked is not noticed
  LET k == requests[r].target IN
  /\ At(r, "rotate")
  /\ keys[k] # Unused
  /\ keys' = [keys EXCEPT ![k].state = "revoked"]
  /\ Become(r, [pc |-> "insert", target |-> k])
  /\ UNCHANGED <<settings, members, onboarding, late, expected, ended>>

\* rotate_tenant_api_key: two transactions, the old key goes first.
RotateRevoke(r) ==
  LET k == requests[r].target IN
  /\ At(r, "rotate")
  /\ Revoke(k)
  /\ Become(r, [pc |-> "insert", target |-> k])
  /\ UNCHANGED <<settings, members, onboarding, late, expected, ended>>

RotateInsert(r, k) ==
  /\ requests[r].pc = "insert"
  /\ Insert(k, keys[requests[r].target].line)
  /\ ToAudit(r)
  /\ UNCHANGED <<settings, members, onboarding, late, expected, ended>>

----------------------------------------------------------------------------
(* Onboarding: the route starts the workflow, whose first activity writes  *)
(* the tenant's row, new or not.                                           *)

StartOnboarding(r) ==
  /\ At(r, "onboard")
  /\ onboarding = "none"
  /\ onboarding' = "tenant"
  /\ ToAudit(r)
  /\ UNCHANGED <<settings, members, keys, late, expected, ended>>

\* upsert_tenant: an attempt of the activity commits, perhaps once more after
\* a commit whose report was lost, or late in the thread of a run that failed.
UpsertTenant ==
  /\ \/ onboarding = "tenant" /\ UNCHANGED late
     \/ late /\ late' = FALSE
  /\ settings' = AllUnset
  /\ expected' = AllUnset
  /\ requests' = [q \in Requests |-> Miss(Sections, q)]
  /\ UNCHANGED <<members, keys, onboarding, ended>>

\* The activity is reported; the run records itself and its event, and ends.
OnboardingGoesOn ==
  /\ onboarding = "tenant" /\ settings # NoTenant
  /\ onboarding' = "rest"
  /\ UNCHANGED <<settings, members, keys, requests, late, expected, ended>>

\* It completes, fails or times out, maybe with the upsert still to come.
OnboardingEnds ==
  /\ onboarding # "none"
  /\ onboarding' = "none"
  /\ \/ UNCHANGED late
     \/ onboarding = "tenant" /\ late' = TRUE
  /\ UNCHANGED <<settings, members, keys, requests, expected, ended>>

LateUpsertLost ==
  /\ late
  /\ late' = FALSE
  /\ UNCHANGED <<settings, members, keys, requests, onboarding, expected, ended>>

----------------------------------------------------------------------------
\* The event refers to the tenant's row: after an onboarding was started the
\* insert may come too early and fail, and the request with it.
RecordEvent(r) ==
  /\ requests[r].pc = "audit"
  /\ settings # NoTenant
  /\ Become(r, Idle)
  /\ UNCHANGED <<settings, members, keys, onboarding, late, expected, ended>>

\* A request ends early: refused (404, 409), failed, or its process stopped.
\* A rotation between its two transactions leaves the line without a key.
Abandon(r) ==
  /\ requests[r] # Idle
  /\ Become(r, Idle)
  /\ ended' = IF requests[r].pc = "insert"
                THEN ended \cup {keys[requests[r].target].line} ELSE ended
  /\ UNCHANGED <<settings, members, keys, onboarding, late, expected>>

Serve(r) ==
  \/ \E role \in PrincipalRoles, op \in Operations :
        \E target \in Targets(op) : Begin(r, role, op, target)
  \/ SelectSettings(r)
  \/ \E value \in Values : UpdateSettings(r, value)
  \/ \E role \in Roles : GrantMembership(r, role)
  \/ RemoveMembership(r)
  \/ \E k \in KeyIds : CreateKey(r, k) \/ RotateInsert(r, k)
  \/ RevokeKey(r) \/ RotateRevoke(r)
  \/ StartOnboarding(r)
  \/ RecordEvent(r) \/ Abandon(r)

Next ==
  \/ \E r \in Requests : Serve(r)
  \/ \E u \in Users, role \in Roles : BootstrapMember(u, role)
  \/ UpsertTenant \/ OnboardingGoesOn \/ OnboardingEnds \/ LateUpsertLost

Spec == Init /\ [][Next]_tvars

----------------------------------------------------------------------------
(* Properties.                                                             *)

\* A line has the id of the key that was created, not rotated.
Begins(line) == keys[line] # Unused /\ keys[line].line = line
Rotations(line) ==
  {r \in Requests : requests[r].pc = "insert" /\ keys[requests[r].target].line = line}
Holders(line) == {k \in KeyIds : Active(k) /\ keys[k].line = line}

\* However rotations and revocations of the same key overlap, crash or race,
\* a key that was created has exactly one heir: one active key, or one
\* rotation between revoking and inserting, or, once somebody revoked it or a
\* rotation broke off there, none, and then for ever.
OneHeir ==
  \A line \in KeyIds :
    Begins(line) =>
      /\ \A a, b \in Holders(line) : a = b
      /\ \A q, r \in Rotations(line) : q = r
      /\ Holders(line) = {} \/ Rotations(line) = {}
      /\ line \in ended <=> Holders(line) = {} /\ Rotations(line) = {}

\* The line of a created key as KeyLine sees it.
LinePhase(line) ==
  IF ~ Begins(line) THEN "none"
  ELSE IF line \in ended THEN "ended"
  ELSE IF Rotations(line) = {} THEN "held" ELSE "rotating"
Past(line) == {k \in KeyIds : keys[k] # Unused /\ ~ Active(k) /\ keys[k].line = line}

Line(line) ==
  INSTANCE KeyLine WITH
    phase <- LinePhase(line),
    held  <- Holders(line),
    past  <- Past(line)

\* Every key that is created implements KeyLine through all its rotations,
\* whichever requests rotate, revoke, crash or give up on whichever of its heirs.
LinesAreKept ==
  /\ \A line \in KeyIds : Line(line)!Init
  /\ [][\A line \in KeyIds : UNCHANGED Line(line)!lvars \/ Line(line)!Next]_tvars

\* A saved section stays as it was last saved, until a new onboarding of the
\* tenant resets it or a save that was already past its select when the
\* section was written puts the older content back.
SettingsKept ==
  settings # NoTenant =>
    \A section \in Sections :
      expected[section] # Unsure => settings[section] = expected[section]

----------------------------------------------------------------------------
(* Inductive strengthenings.                                               *)

\* What a save holds of the sections nobody wrote since is still current.
SavesInv ==
  \A r \in Requests :
    requests[r].pc = "update" =>
      /\ settings # NoTenant
      /\ \A section \in Sections \ requests[r].missed :
           requests[r].copy[section] = settings[section]

\* Lines start at a key that has been inserted.
LinesInv ==
  /\ \A k \in KeyIds : keys[k] # Unused =>
       keys[keys[k].line] # Unused /\ keys[keys[k].line].line = keys[k].line
  /\ \A r \in Requests : requests[r].pc = "insert" => keys[requests[r].target] # Unused
  /\ \A line \in ended : keys[line] # Unused
=============================================================================
