--------------------------- MODULE RolePermissions ---------------------------
(***************************************************************************)
(* The permissions of roles.  setRolePermissions deletes all of them and   *)
(* inserts the new ones one statement after the other, without a           *)
(* transaction; the boot grants the seeded ones again.                     *)
(*                                                                         *)
(* A change of a protected role by anybody but a break-glass administrator *)
(* only files a request for approval (ApprovalCenter) and is no action     *)
(* here.  Names and descriptions of roles are left out.                    *)
(* <Definition>_<Slip> is the definition after it with a plausible mistake. *)
(***************************************************************************)
EXTENDS Organization, Integers

CONSTANTS
  RoleIds, Permissions,
  UnknownCode,      \* stands for codes that name no permission
  SeedGrants,       \* what every boot grants: a set of permissions for each
                    \* seeded role
  SeedRevokes,      \* what it then takes away from each of them
  RoleRequests,     \* requests the server handles at the same time
  MaxRoleUpdates, MaxRoleErrors, MaxRoleRestarts   \* bounds

ASSUME SeedsOfRoles ==
  /\ DOMAIN SeedGrants \subseteq RoleIds /\ DOMAIN SeedRevokes = DOMAIN SeedGrants
  /\ \A r \in DOMAIN SeedGrants : SeedGrants[r] \subseteq Permissions
  /\ None \notin RoleIds
ASSUME RoleBounds == MaxRoleUpdates \in Nat /\ MaxRoleErrors \in Nat /\ MaxRoleRestarts \in Nat

VARIABLES
  roles,            \* the rows of roles
  granted,          \* role_permissions
  roleReq,          \* the statement each request executes next
  roleUpdates, roleErrors, roleRestarts

roleVars == <<roles, granted, roleReq, roleUpdates, roleErrors, roleRestarts>>

Codes == Permissions \cup {UnknownCode}
RoleReq == [next : {"idle", "clear", "grant"}, role : RoleIds \cup {None}, codes : SUBSET Codes]
IdleRole == [next |-> "idle", role |-> None, codes |-> {}]

RolesTypeOK ==
  /\ roles \subseteq RoleIds
  /\ granted \in [RoleIds -> SUBSET Permissions]
  /\ roleReq \in [RoleRequests -> RoleReq]
  /\ roleUpdates \in 0..MaxRoleUpdates
  /\ roleErrors \in 0..MaxRoleErrors
  /\ roleRestarts \in 0..MaxRoleRestarts

\* What a boot makes of the permissions of a role.
Reseeded(r, codes) ==
  IF r \in DOMAIN SeedGrants THEN (codes \cup SeedGrants[r]) \ SeedRevokes[r] ELSE codes

RolesInit ==
  /\ roles = DOMAIN SeedGrants
  /\ granted = [r \in RoleIds |-> Reseeded(r, {})]
  /\ roleReq = [q \in RoleRequests |-> IdleRole]
  /\ roleUpdates = 0 /\ roleErrors = 0 /\ roleRestarts = 0

StartUpdate(q, r, codes) ==
  /\ roleReq[q].next = "idle"
  /\ roleUpdates < MaxRoleUpdates /\ roleUpdates' = roleUpdates + 1
  /\ roleReq' = [roleReq EXCEPT ![q] = [next |-> "clear", role |-> r, codes |-> codes]]
  /\ UNCHANGED <<granted, roleErrors, roleRestarts>>

CreateRole(q) == \E r \in RoleIds \ roles, codes \in SUBSET Codes :
  StartUpdate(q, r, codes) /\ roles' = roles \cup {r}

UpdateRolePermissions(q) == \E r \in roles, codes \in SUBSET Codes :
  StartUpdate(q, r, codes) /\ UNCHANGED roles

\* What remains to be granted; the request ends when nothing does.
Remaining(r, codes) ==
  IF codes = {} THEN IdleRole ELSE [next |-> "grant", role |-> r, codes |-> codes]

ClearPermissions_Keeps(r) == granted
ClearPermissions(r) == [granted EXCEPT ![r] = {}]

Clear(q) ==
  /\ roleReq[q].next = "clear"
  /\ granted' = ClearPermissions(roleReq[q].role)
  /\ roleReq' = [roleReq EXCEPT ![q] = Remaining(@.role, @.codes)]
  /\ UNCHANGED <<roles, roleUpdates, roleErrors, roleRestarts>>

\* A code that names no permission is skipped.
Known_Any(code) == {code}
Known(code) == {code} \cap Permissions

Grant(q) == \E code \in roleReq[q].codes :
  /\ roleReq[q].next = "grant"
  /\ granted' = [granted EXCEPT ![roleReq[q].role] = @ \cup Known(code)]
  /\ roleReq' = [roleReq EXCEPT ![q] = Remaining(@.role, @.codes \ {code})]
  /\ UNCHANGED <<roles, roleUpdates, roleErrors, roleRestarts>>

\* A code whose SELECT the database refuses is skipped as well.
SkipCode(q) == \E code \in roleReq[q].codes :
  /\ roleReq[q].next = "grant" /\ roleErrors < MaxRoleErrors
  /\ roleErrors' = roleErrors + 1
  /\ roleReq' = [roleReq EXCEPT ![q] = Remaining(@.role, @.codes \ {code})]
  /\ UNCHANGED <<roles, granted, roleUpdates, roleRestarts>>

\* The database refuses another statement and the handler gives up.
RoleStatementFails(q) ==
  /\ roleReq[q].next # "idle" /\ roleErrors < MaxRoleErrors
  /\ roleErrors' = roleErrors + 1
  /\ roleReq' = [roleReq EXCEPT ![q] = IdleRole]
  /\ UNCHANGED <<roles, granted, roleUpdates, roleRestarts>>

RestartRoles ==
  /\ roleRestarts < MaxRoleRestarts
  /\ roleRestarts' = roleRestarts + 1
  /\ roleReq' = [q \in RoleRequests |-> IdleRole]
  /\ granted' = [r \in RoleIds |-> Reseeded(r, granted[r])]
  /\ UNCHANGED <<roles, roleUpdates, roleErrors>>

RolesNext ==
  \/ \E q \in RoleRequests :
       \/ CreateRole(q) \/ UpdateRolePermissions(q) \/ Clear(q) \/ Grant(q)
       \/ SkipCode(q) \/ RoleStatementFails(q)
  \/ RestartRoles

RolesSpec == RolesInit /\ [][RolesNext]_roleVars
=============================================================================
