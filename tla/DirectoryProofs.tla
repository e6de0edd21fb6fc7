---------------------------- MODULE DirectoryProofs ----------------------------
(***************************************************************************)
(* What the administration keeps about the members of the organization:    *)
(* the types of its tables, the permissions of a role after a change, and  *)
(* the managed profiles after the consolidations, for any number of users, *)
(* roles, templates and requests.                                          *)
(***************************************************************************)
EXTENDS MCDirectory, WellFoundedInduction, FiniteSetTheorems, TLAPS

dirVars == <<part, profVars, roleVars, policyVars, disturbed, handled, asked>>

-----------------------------------------------------------------------------
(* Permissions of roles.                                                     *)

\* A request that is idle has no role.
RoleRequestsHold == \A q \in RoleRequests :
  (roleReq[q].next = "idle") <=> (roleReq[q].role = None)

\* How far the only request of a role has brought its permissions.
OnTheWay(r) ==
  /\ \A q1, q2 \in Changing(r) : q1 = q2
  /\ \A q \in Changing(r) :
       /\ roleReq[q].next = "clear" => roleReq[q].codes = asked[r]
       /\ roleReq[q].next = "grant" =>
            granted[r] \cup (roleReq[q].codes \cap Permissions) = asked[r] \cap Permissions
  /\ Changing(r) = {} => granted[r] = asked[r] \cap Permissions

RolesInv ==
  /\ RolesTypeOK
  /\ asked \in [RoleIds -> {None} \cup SUBSET Codes]
  /\ RoleRequestsHold
  /\ \A r \in RoleIds : asked[r] # None => OnTheWay(r)

LEMMA ReseededPermissions ==
  ASSUME NEW r \in RoleIds, NEW codes \in SUBSET Permissions
  PROVE  Reseeded(r, codes) \in SUBSET Permissions
BY SeedsOfRoles DEF Reseeded

LEMMA InitRoles == RolesInit /\ asked = [r \in RoleIds |-> None] => RolesInv
<1> SUFFICES ASSUME RolesInit, asked = [r \in RoleIds |-> None]
             PROVE  RolesInv
  OBVIOUS
<1>1. \A r \in RoleIds : Reseeded(r, {}) \in SUBSET Permissions
  BY ReseededPermissions
<1>2. IdleRole \in RoleReq
  BY DEF IdleRole, RoleReq
<1>3. RolesTypeOK
  BY <1>1, <1>2, SeedsOfRoles, RoleBounds DEF RolesInit, RolesTypeOK
<1> QED BY <1>3 DEF RolesInit, RolesInv, RoleRequestsHold, IdleRole

LEMMA RolesTypeKept ==
  ASSUME RolesInv, RolesNext
  PROVE  RolesTypeOK' /\ RoleRequestsHold'
<1> USE DEF RolesInv, RolesTypeOK, RoleRequestsHold
<1>1. /\ IdleRole \in RoleReq /\ IdleRole.next = "idle" /\ IdleRole.role = None
  BY DEF IdleRole, RoleReq
<1>2. ASSUME NEW r \in RoleIds, NEW codes \in SUBSET Codes
      PROVE  /\ Remaining(r, codes) \in RoleReq
             /\ Remaining(r, codes).next = "idle" <=> Remaining(r, codes).role = None
  BY <1>1, SeedsOfRoles DEF Remaining, RoleReq
<1>3. ASSUME NEW q \in RoleRequests, roleReq[q].next # "idle"
      PROVE  roleReq[q].role \in RoleIds /\ roleReq[q].codes \in SUBSET Codes
  BY <1>3 DEF RoleReq
<1>4. ASSUME NEW q \in RoleRequests, CreateRole(q) \/ UpdateRolePermissions(q)
      PROVE  RolesTypeOK' /\ RoleRequestsHold'
  <2>1. PICK r \in RoleIds, codes \in SUBSET Codes :
          StartUpdate(q, r, codes) /\ (roles' = roles \cup {r} \/ UNCHANGED roles)
    BY <1>4 DEF CreateRole, UpdateRolePermissions
  <2>2. [next |-> "clear", role |-> r, codes |-> codes] \in RoleReq
    BY DEF RoleReq
  <2> QED BY <2>1, <2>2, SeedsOfRoles, RoleBounds DEF StartUpdate
<1>5. ASSUME NEW q \in RoleRequests, Clear(q)
      PROVE  RolesTypeOK' /\ RoleRequestsHold'
  BY <1>2, <1>3, <1>5 DEF Clear, ClearPermissions
<1>6. ASSUME NEW q \in RoleRequests, Grant(q)
      PROVE  RolesTypeOK' /\ RoleRequestsHold'
  <2>1. PICK code \in roleReq[q].codes :
          /\ granted' = [granted EXCEPT ![roleReq[q].role] = @ \cup Known(code)]
          /\ roleReq' = [roleReq EXCEPT ![q] = Remaining(@.role, @.codes \ {code})]
    BY <1>6 DEF Grant
  <2>2. UNCHANGED <<roles, roleUpdates, roleErrors, roleRestarts>> /\ roleReq[q].next # "idle"
    BY <1>6 DEF Grant
  <2>3. granted' \in [RoleIds -> SUBSET Permissions]
    BY <1>3, <2>1, <2>2 DEF Known
  <2>4. LET left == Remaining(roleReq[q].role, roleReq[q].codes \ {code})
        IN left \in RoleReq /\ (left.next = "idle" <=> left.role = None)
    BY <1>2, <1>3, <2>2
  <2> QED BY <2>1, <2>2, <2>3, <2>4
<1>7. ASSUME NEW q \in RoleRequests, RoleStatementFails(q)
      PROVE  RolesTypeOK' /\ RoleRequestsHold'
  BY <1>1, <1>7, RoleBounds DEF RoleStatementFails
<1>9. ASSUME NEW q \in RoleRequests, SkipCode(q)
      PROVE  RolesTypeOK' /\ RoleRequestsHold'
  <2>1. PICK code \in roleReq[q].codes :
          roleReq' = [roleReq EXCEPT ![q] = Remaining(@.role, @.codes \ {code})]
    BY <1>9 DEF SkipCode
  <2>2. /\ UNCHANGED <<roles, granted, roleUpdates, roleRestarts>> /\ roleReq[q].next # "idle"
        /\ roleErrors' \in 0..MaxRoleErrors
    BY <1>9, RoleBounds DEF SkipCode
  <2>3. LET left == Remaining(roleReq[q].role, roleReq[q].codes \ {code})
        IN left \in RoleReq /\ (left.next = "idle" <=> left.role = None)
    BY <1>2, <1>3, <2>2
  <2> QED BY <2>1, <2>2, <2>3
<1>8. CASE RestartRoles
  BY <1>1, <1>8, ReseededPermissions, RoleBounds DEF RestartRoles
<1> QED BY <1>4, <1>5, <1>6, <1>7, <1>8, <1>9 DEF RolesNext

LEMMA AskedIs ==
  ASSUME NEW r \in RoleIds, asked' = Asked
  PROVE  /\ Changing(r)' \ Changing(r) = {} => asked'[r] \in {None, asked[r]}
         /\ roleRestarts' = roleRestarts /\ roleErrors' = roleErrors
              /\ Changing(r)' \ Changing(r) # {} =>
              IF Changing(r) # {} THEN asked'[r] = None
              ELSE asked'[r] = roleReq'[CHOOSE q \in Changing(r)' : TRUE].codes
         /\ roleErrors' # roleErrors /\ roleRestarts' = roleRestarts
              /\ Changing(r)' \subseteq Changing(r)
              /\ (\E q \in Changing(r) : roleReq'[q] # roleReq[q]) => asked'[r] = None
         /\ roleRestarts' # roleRestarts /\ roleErrors' = roleErrors /\ Changing(r)' = {}
              /\ (r \in DOMAIN SeedGrants \/ Changing(r) # {}) => asked'[r] = None
<1> DEFINE before == Changing(r)
           after == Changing(r)'
           only == roleReq'[CHOOSE q \in after : TRUE].codes
           moved == \E q \in before : roleReq'[q] # roleReq[q]
<1>1. asked'[r] =
        CASE roleRestarts' # roleRestarts /\ (r \in DOMAIN SeedGrants \/ before # {}) -> None
          [] roleErrors' # roleErrors /\ moved -> None
          [] after \ before # {} -> IF before # {} THEN None ELSE only
          [] OTHER -> asked[r]
  BY DEF Asked
<1> HIDE DEF before, after, only, moved
<1>2. /\ after \ before = {} => asked'[r] \in {None, asked[r]}
      /\ roleRestarts' = roleRestarts /\ roleErrors' = roleErrors /\ after \ before # {} =>
           IF before # {} THEN asked'[r] = None ELSE asked'[r] = only
      /\ roleErrors' # roleErrors /\ roleRestarts' = roleRestarts /\ after \subseteq before /\ moved =>
           asked'[r] = None
      /\ roleRestarts' # roleRestarts /\ roleErrors' = roleErrors /\ after = {}
           /\ (r \in DOMAIN SeedGrants \/ before # {}) => asked'[r] = None
  BY <1>1
<1> QED BY <1>2 DEF before, after, only, moved

\* A role none of whose requests does anything, or that has none.
LEMMA OtherRoleOnTheWay ==
  ASSUME NEW r \in RoleIds, asked' = Asked, asked'[r] # None, asked[r] # None => OnTheWay(r),
         Changing(r)' = Changing(r), \A q \in Changing(r) : roleReq'[q] = roleReq[q],
         granted'[r] = granted[r]
  PROVE  OnTheWay(r)'
<1>1. asked[r] # None /\ asked'[r] = asked[r]
  BY AskedIs
<1> QED BY <1>1 DEF OnTheWay

\* Only request q does something, for the role it had or for the one it gets.
LEMMA ChangingAfter ==
  ASSUME RolesInv, NEW q \in RoleRequests, NEW row,
         roleReq' = [roleReq EXCEPT ![q] = row], NEW r \in RoleIds
  PROVE  /\ row.role # r => Changing(r)' = Changing(r) \ {q}
         /\ row.role = r => Changing(r)' = Changing(r) \cup {q}
         /\ \A p \in RoleRequests : p # q => roleReq'[p] = roleReq[p]
         /\ roleReq'[q] = row /\ q \in RoleRequests
         /\ q \in Changing(r) <=> roleReq[q].role = r
BY DEF RolesInv, RolesTypeOK, Changing

LEMMA RolesKept ==
  ASSUME RolesInv, RolesNext, asked' = Asked, NEW r \in RoleIds, asked'[r] # None
  PROVE  OnTheWay(r)'
<1> USE DEF RolesInv
<1>1. asked[r] # None => OnTheWay(r)
  OBVIOUS
<1>2. ASSUME NEW q \in RoleRequests, CreateRole(q) \/ UpdateRolePermissions(q)
      PROVE  OnTheWay(r)'
  <2>1. PICK role \in RoleIds, codes \in SUBSET Codes : StartUpdate(q, role, codes)
    BY <1>2 DEF CreateRole, UpdateRolePermissions, RolesTypeOK
  <2> DEFINE row == [next |-> "clear", role |-> role, codes |-> codes]
  <2>2. /\ roleReq[q].role = None /\ roleReq' = [roleReq EXCEPT ![q] = row]
        /\ UNCHANGED <<granted, roleErrors, roleRestarts>>
    BY <2>1 DEF StartUpdate, RoleRequestsHold
  <2>3. row.role = role /\ row.next = "clear" /\ row.codes = codes
    OBVIOUS
  <2> HIDE DEF row, RolesInv
  <2>4. q \notin Changing(r) /\ q \in RoleRequests
    BY <2>2, SeedsOfRoles DEF Changing
  <2>5. CASE role # r
    <3>1. Changing(r)' = Changing(r) /\ \A p \in Changing(r) : roleReq'[p] = roleReq[p]
      BY <2>2, <2>3, <2>4, <2>5, ChangingAfter DEF Changing
    <3> QED BY <3>1, <2>2, <1>1, OtherRoleOnTheWay
  <2>6. CASE role = r
    <3>1. Changing(r)' = Changing(r) \cup {q} /\ roleReq'[q] = row
      BY <2>2, <2>3, <2>6, ChangingAfter
    <3>2. Changing(r) = {} /\ asked'[r] = roleReq'[CHOOSE p \in Changing(r)' : TRUE].codes
      BY <3>1, <2>2, <2>4, AskedIs
    <3>3. Changing(r)' = {q} /\ asked'[r] = codes
      BY <3>1, <3>2, <2>3
    <3> QED BY <3>1, <3>3, <2>3 DEF OnTheWay
  <2> QED BY <2>5, <2>6
<1>3. ASSUME NEW q \in RoleRequests, Clear(q)
      PROVE  OnTheWay(r)'
  <2>1. /\ roleReq[q].next = "clear" /\ roleReq[q].role \in RoleIds
        /\ roleReq' = [roleReq EXCEPT ![q] = Remaining(roleReq[q].role, roleReq[q].codes)]
        /\ granted' = [granted EXCEPT ![roleReq[q].role] = {}]
        /\ UNCHANGED <<roleErrors, roleRestarts>> /\ granted \in [RoleIds -> SUBSET Permissions]
    BY <1>3 DEF Clear, ClearPermissions, RoleRequestsHold, RolesTypeOK, RoleReq
  <2> DEFINE row == Remaining(roleReq[q].role, roleReq[q].codes)
  <2>2. IF roleReq[q].codes = {} THEN row.role = None /\ row.next = "idle"
        ELSE row.role = roleReq[q].role /\ row.next = "grant" /\ row.codes = roleReq[q].codes
    BY DEF Remaining, IdleRole
  <2>5. /\ row.role # r => Changing(r)' = Changing(r) \ {q}
        /\ row.role = r => Changing(r)' = Changing(r) \cup {q}
        /\ roleReq'[q] = row
        /\ q \in Changing(r) <=> roleReq[q].role = r
    <3>1. roleReq' = [roleReq EXCEPT ![q] = row]
      BY <2>1
    <3> HIDE DEF row, RolesInv
    <3> QED BY <3>1, ChangingAfter
  <2> HIDE DEF row, RolesInv
  <2>3. CASE roleReq[q].role # r
    <3>1. Changing(r)' = Changing(r) /\ \A p \in Changing(r) : roleReq'[p] = roleReq[p]
      BY <2>1, <2>2, <2>3, ChangingAfter, SeedsOfRoles DEF Changing, row
    <3>2. granted'[r] = granted[r]
      BY <2>1, <2>3
    <3> QED BY <3>1, <3>2, <1>1, OtherRoleOnTheWay
  <2>4. CASE roleReq[q].role = r
    <3>1. q \in Changing(r) /\ Changing(r)' \in {Changing(r), Changing(r) \ {q}}
      BY <2>1, <2>2, <2>4, <2>5
    <3>2. asked[r] # None /\ asked'[r] = asked[r]
      BY <3>1, AskedIs
    <3>3. Changing(r) = {q} /\ roleReq[q].codes = asked[r]
      BY <1>1, <2>1, <3>1, <3>2 DEF OnTheWay
    <3>4. granted'[r] = {} /\ roleReq'[q] = row
      BY <2>1, <2>4, <2>5
    <3>5. CASE roleReq[q].codes = {}
      <4>1. Changing(r)' = {}
        BY <2>1, <2>2, <2>5, <3>3, <3>5, SeedsOfRoles
      <4> QED BY <4>1, <3>2, <3>3, <3>4, <3>5 DEF OnTheWay
    <3>6. CASE roleReq[q].codes # {}
      <4>1. Changing(r)' = {q}
        BY <2>2, <2>4, <2>5, <3>3, <3>6
      <4> QED BY <4>1, <2>2, <3>2, <3>3, <3>4, <3>6 DEF OnTheWay
    <3> QED BY <3>5, <3>6
  <2> QED BY <2>3, <2>4
<1>4. ASSUME NEW q \in RoleRequests, Grant(q)
      PROVE  OnTheWay(r)'
  <2>1. PICK code \in roleReq[q].codes :
          /\ granted' = [granted EXCEPT ![roleReq[q].role] = @ \cup Known(code)]
          /\ roleReq' = [roleReq EXCEPT ![q] =
                           Remaining(roleReq[q].role, roleReq[q].codes \ {code})]
    BY <1>4 DEF Grant
  <2>2. /\ roleReq[q].next = "grant" /\ roleReq[q].role \in RoleIds
        /\ UNCHANGED <<roleErrors, roleRestarts>> /\ granted \in [RoleIds -> SUBSET Permissions]
    BY <1>4 DEF Grant, RoleRequestsHold, RolesTypeOK, RoleReq
  <2> DEFINE left == roleReq[q].codes \ {code}
             row == Remaining(roleReq[q].role, left)
  <2>3. IF left = {} THEN row.role = None /\ row.next = "idle"
        ELSE row.role = roleReq[q].role /\ row.next = "grant" /\ row.codes = left
    BY DEF Remaining, IdleRole
  <2>4. Known(code) \cup (left \cap Permissions) = roleReq[q].codes \cap Permissions
    BY <2>1 DEF Known
  <2>7. /\ row.role # r => Changing(r)' = Changing(r) \ {q}
        /\ row.role = r => Changing(r)' = Changing(r) \cup {q}
        /\ roleReq'[q] = row
        /\ q \in Changing(r) <=> roleReq[q].role = r
    <3>1. roleReq' = [roleReq EXCEPT ![q] = row]
      BY <2>1
    <3> HIDE DEF row, RolesInv
    <3> QED BY <3>1, ChangingAfter
  <2> HIDE DEF row, RolesInv
  <2>5. CASE roleReq[q].role # r
    <3>1. Changing(r)' = Changing(r) /\ \A p \in Changing(r) : roleReq'[p] = roleReq[p]
      BY <2>1, <2>2, <2>3, <2>5, ChangingAfter, SeedsOfRoles DEF Changing, row
    <3>2. granted'[r] = granted[r]
      BY <2>1, <2>2, <2>5
    <3> QED BY <3>1, <3>2, <1>1, OtherRoleOnTheWay
  <2>6. CASE roleReq[q].role = r
    <3>1. q \in Changing(r) /\ Changing(r)' \in {Changing(r), Changing(r) \ {q}}
      BY <2>3, <2>6, <2>7
    <3>2. asked[r] # None /\ asked'[r] = asked[r]
      BY <3>1, AskedIs
    <3>3. /\ Changing(r) = {q}
          /\ granted[r] \cup (roleReq[q].codes \cap Permissions) = asked[r] \cap Permissions
      BY <1>1, <2>2, <3>1, <3>2 DEF OnTheWay
    <3>4. granted'[r] = granted[r] \cup Known(code) /\ roleReq'[q] = row
      BY <2>1, <2>2, <2>6, <2>7
    <3>5. granted'[r] \cup (left \cap Permissions) = asked'[r] \cap Permissions
      BY <2>4, <3>2, <3>3, <3>4
    <3> HIDE DEF left
    <3>6. CASE left = {}
      <4>1. Changing(r)' = {}
        BY <2>2, <2>3, <2>7, <3>3, <3>6, SeedsOfRoles
      <4> QED BY <4>1, <3>5, <3>6 DEF OnTheWay
    <3>7. CASE left # {}
      <4>1. Changing(r)' = {q}
        BY <2>3, <2>6, <2>7, <3>3, <3>7
      <4> QED BY <4>1, <2>3, <3>4, <3>5, <3>7 DEF OnTheWay
    <3> QED BY <3>6, <3>7
  <2> QED BY <2>5, <2>6
<1>5. ASSUME NEW q \in RoleRequests, RoleStatementFails(q)
      PROVE  OnTheWay(r)'
  <2>1. /\ roleReq' = [roleReq EXCEPT ![q] = IdleRole] /\ IdleRole.role = None
        /\ UNCHANGED <<granted, roleRestarts>> /\ roleErrors' # roleErrors
    BY <1>5, RoleBounds DEF RoleStatementFails, IdleRole, RolesTypeOK
  <2> HIDE DEF RolesInv
  <2>2. Changing(r)' = Changing(r) \ {q}
    BY <2>1, ChangingAfter, SeedsOfRoles
  <2>3. CASE q \notin Changing(r)
    <3>1. Changing(r)' = Changing(r) /\ \A p \in Changing(r) : roleReq'[p] = roleReq[p]
      BY <2>1, <2>2, <2>3, ChangingAfter DEF Changing
    <3> QED BY <3>1, <2>1, <1>1, OtherRoleOnTheWay
  <2>4. CASE q \in Changing(r)
    <3>1. roleReq'[q] # roleReq[q] /\ Changing(r)' \subseteq Changing(r)
      BY <2>1, <2>2, <2>4, ChangingAfter, SeedsOfRoles DEF Changing
    <3> QED BY <2>1, <2>4, <3>1, AskedIs
  <2> QED BY <2>3, <2>4
<1>7. ASSUME NEW q \in RoleRequests, SkipCode(q)
      PROVE  OnTheWay(r)'
  <2>1. PICK code \in roleReq[q].codes :
          roleReq' = [roleReq EXCEPT ![q] = Remaining(roleReq[q].role, roleReq[q].codes \ {code})]
    BY <1>7 DEF SkipCode
  <2>2. /\ roleReq[q].next = "grant" /\ UNCHANGED <<granted, roleRestarts>>
        /\ roleErrors' # roleErrors
    BY <1>7, RoleBounds DEF SkipCode, RolesTypeOK
  <2> DEFINE left == roleReq[q].codes \ {code}
             row == Remaining(roleReq[q].role, left)
  <2>3. IF left = {} THEN row.role = None
        ELSE row.role = roleReq[q].role /\ row.codes = left
    BY DEF Remaining, IdleRole
  <2>4. /\ row.role # r => Changing(r)' = Changing(r) \ {q}
        /\ row.role = r => Changing(r)' = Changing(r) \cup {q}
        /\ roleReq'[q] = row /\ (q \in Changing(r) <=> roleReq[q].role = r)
    <3>1. roleReq' = [roleReq EXCEPT ![q] = row]
      BY <2>1
    <3> HIDE DEF row, RolesInv
    <3> QED BY <3>1, ChangingAfter
  <2>5. row # roleReq[q]
    <3>1. code \notin left /\ roleReq[q].role # None
      BY <2>2 DEF RoleRequestsHold
    <3> HIDE DEF row, left
    <3> QED BY <2>1, <2>3, <3>1
  <2> HIDE DEF row, left, RolesInv
  <2>6. CASE q \notin Changing(r)
    <3>1. Changing(r)' = Changing(r) /\ \A p \in Changing(r) : roleReq'[p] = roleReq[p]
      BY <2>1, <2>3, <2>4, <2>6, ChangingAfter, SeedsOfRoles DEF Changing
    <3> QED BY <3>1, <2>2, <1>1, OtherRoleOnTheWay
  <2>7. CASE q \in Changing(r)
    <3>1. Changing(r)' \subseteq Changing(r)
      BY <2>4, <2>7
    <3> QED BY <2>2, <2>4, <2>5, <2>7, <3>1, AskedIs
  <2> QED BY <2>6, <2>7
<1>6. CASE RestartRoles
  <2>1. /\ Changing(r)' = {} /\ roleRestarts' # roleRestarts /\ roleErrors' = roleErrors
        /\ granted'[r] = Reseeded(r, granted[r])
    BY <1>6, SeedsOfRoles, RoleBounds DEF RestartRoles, Changing, IdleRole, RolesTypeOK
  <2>2. r \notin DOMAIN SeedGrants /\ Changing(r) = {}
    BY <2>1, AskedIs
  <2>3. granted'[r] = granted[r]
    BY <2>1, <2>2 DEF Reseeded
  <2> QED BY <2>1, <2>2, <2>3, <1>1, OtherRoleOnTheWay
<1> QED BY <1>2, <1>3, <1>4, <1>5, <1>6, <1>7 DEF RolesNext

LEMMA AskedTyped ==
  ASSUME RolesInv, RolesTypeOK', asked' = Asked
  PROVE  asked' \in [RoleIds -> {None} \cup SUBSET Codes]
<1>1. ASSUME NEW r \in RoleIds PROVE asked'[r] \in {None} \cup SUBSET Codes
  <2> DEFINE only == roleReq'[CHOOSE q \in Changing(r)' : TRUE].codes
  <2>1. Changing(r)' # {} => only \in SUBSET Codes
    <3>1. \A q \in Changing(r)' : q \in RoleRequests
      BY DEF Changing
    <3>2. \A q \in RoleRequests : roleReq'[q].codes \in SUBSET Codes
      BY DEF RolesTypeOK, RoleReq
    <3> QED BY <3>1, <3>2
  <2>2. asked[r] \in {None} \cup SUBSET Codes
    BY DEF RolesInv
  <2>3. asked'[r] =
          CASE roleRestarts' # roleRestarts /\ (r \in DOMAIN SeedGrants \/ Changing(r) # {}) -> None
            [] roleErrors' # roleErrors /\ (\E q \in Changing(r) : roleReq'[q] # roleReq[q]) -> None
            [] Changing(r)' \ Changing(r) # {} -> IF Changing(r) # {} THEN None ELSE only
            [] OTHER -> asked[r]
    BY DEF Asked
  <2> HIDE DEF only
  <2> QED BY <2>1, <2>2, <2>3
<1> QED BY <1>1 DEF Asked

LEMMA RolesStep ==
  ASSUME RolesInv, [MCNext]_dirVars
  PROVE  RolesInv'
<1>1. CASE RolesNext /\ MCNext
  <2>1. asked' = Asked
    BY <1>1 DEF MCNext
  <2>2. \A r \in RoleIds : asked'[r] # None => OnTheWay(r)'
    BY <1>1, <2>1, RolesKept
  <2> QED BY <1>1, <2>1, <2>2, RolesTypeKept, AskedTyped DEF RolesInv
<1>2. CASE MCNext /\ UNCHANGED roleVars
  <2>1. asked' = Asked /\ UNCHANGED <<roles, granted, roleReq, roleUpdates, roleErrors, roleRestarts>>
    BY <1>2 DEF MCNext, roleVars
  <2>2. RolesTypeOK' /\ RoleRequestsHold'
    BY <2>1 DEF RolesInv, RolesTypeOK, RoleRequestsHold
  <2>3. ASSUME NEW r \in RoleIds, asked'[r] # None PROVE OnTheWay(r)'
    <3>1. Changing(r)' = Changing(r)
      BY <2>1 DEF Changing
    <3> QED BY <2>1, <2>3, <3>1, OtherRoleOnTheWay DEF RolesInv
  <2> QED BY <2>1, <2>2, <2>3, AskedTyped DEF RolesInv
<1>3. CASE UNCHANGED dirVars
  <2>1. UNCHANGED <<roles, granted, roleReq, roleUpdates, roleErrors, roleRestarts, asked>>
    BY <1>3 DEF dirVars, roleVars
  <2>2. \A r : Changing(r)' = Changing(r)
    BY <2>1 DEF Changing
  <2> QED BY <2>1, <2>2 DEF RolesInv, RolesTypeOK, RoleRequestsHold, OnTheWay
<1> QED BY <1>1, <1>2, <1>3 DEF MCNext

LEMMA RolesInductive == MCSpec => []RolesInv
<1>1. MCInit => RolesInv
  BY InitRoles DEF MCInit
<1>2. RolesInv /\ [MCNext]_dirVars => RolesInv'
  BY RolesStep
<1> QED BY <1>1, <1>2, PTL DEF MCSpec, dirVars

\* Whatever roles other requests change, and wherever earlier changes of this one
\* failed or were cut off by a boot: when one request alone has changed the
\* permissions of a role, and no statement of it was refused, it has those that
\* were asked for.  (setRolePermissions)
THEOREM PermissionsAsAsked == MCSpec => []PermissionsAsAskedInSequence
<1>1. RolesInv => PermissionsAsAskedInSequence
  BY DEF RolesInv, OnTheWay, PermissionsAsAskedInSequence
<1> QED BY <1>1, RolesInductive, PTL

-----------------------------------------------------------------------------
(* Types of users, templates and managed profiles.                           *)

Consolidating ==
  {"bind_standard", "enable", "assign", "insert", "read", "upsert", "record", "prune"}

\* Whoever a binding may reach is to be consolidated: us, or everybody.
Covers(us, targets) == us = {} \/ \A b \in targets : b[2] \in us

\* What a request knows at the step it has reached.
Holds(q) ==
  /\ q \in ProfRequest
  /\ q.next \in Consolidating \cup {"disable", "owner"} => q.user \in Users
  /\ q.next = "owner" => q.arg \in Names /\ q.task \in {"edit", "remove"}
  /\ q.task \in {"move", "import"} => q.arg \in Departments \cup {None}
  /\ q.task = "bind" => q.arg \in Roles
  /\ q.next = "record" => q.at \in Templates \X Names
  /\ q.next = "target" => q.task = "reconcile" /\ Covers(q.users, q.targets)

RequestsHold ==
  profReq \in [ProfRequests -> ProfRequest] /\ \A r \in ProfRequests : Holds(profReq[r])

\* Templates have names, and each its own.
TemplatesNamed ==
  /\ \A t \in Templates : IF templateStatus[t] = "none" THEN templateName[t] = None
                                                      ELSE templateName[t] \in Names
  /\ \A one, two \in Templates :
       one # two /\ templateName[one] = templateName[two] => templateName[one] = None

UsersTyped ==
  /\ userStatus \in [Users -> UserStatuses \cup {"none"}]
  /\ department \in [Users -> Departments \cup {None}]
  /\ roleRows \in [Users -> [Roles -> 0..MaxRoleRows]]
TemplatesTyped ==
  /\ templateStatus \in [Templates -> {"none", "active", "disabled"}]
  /\ templateName \in [Templates -> Names \cup {None}]
  /\ bindings \subseteq Templates \X Sources
  /\ TemplatesNamed
RowsTyped == profile \in [Users -> [Names -> ProfileRow]]
CountsTyped == calls \in 0..MaxCalls /\ profRestarts \in 0..MaxProfRestarts

ProfilesInv == UsersTyped /\ TemplatesTyped /\ RowsTyped /\ CountsTyped /\ RequestsHold

LEMMA IdleHolds == Holds(IdleProf) /\ IdleProf \in ProfRequest /\ IdleProf.next = "idle"
BY DEF Holds, IdleProf, ProfRequest, Steps, Tasks, Consolidating

LEMMA RequestsFor ==
  /\ \A task, us, arg : LET q == ForUsers(task, us, arg) IN
       q.next = "take" /\ q.task = task /\ q.users = us /\ q.user = None /\ q.arg = arg
  /\ \A u : LET q == ForUser(u) IN
       q.next = "read" /\ q.task = "none" /\ q.users = {} /\ q.user = u /\ q.arg = None
  /\ ForAll.next = "list" /\ ForAll.task = "none" /\ ForAll.users = {} /\ ForAll.user = None
BY DEF ForUsers, ForUser, ForAll, IdleProf

LEMMA RequestsTyped ==
  /\ \A task \in Tasks, us \in SUBSET Users, arg \in Departments \cup Roles \cup {None} :
       ForUsers(task, us, arg) \in ProfRequest
  /\ \A u \in Users : ForUser(u) \in ProfRequest
  /\ ForAll \in ProfRequest
<1> USE IdleHolds DEF ProfRequest, Steps
<1>1. ASSUME NEW task \in Tasks, NEW us \in SUBSET Users, NEW arg \in Departments \cup Roles \cup {None}
      PROVE  ForUsers(task, us, arg) \in ProfRequest
  BY DEF ForUsers
<1>2. ASSUME NEW u \in Users PROVE ForUser(u) \in ProfRequest
  BY DEF ForUser
<1>3. ForAll \in ProfRequest
  BY DEF ForAll
<1> QED BY <1>1, <1>2, <1>3

LEMMA StartHolds ==
  /\ \A task \in Tasks, us \in SUBSET Users, arg \in Departments \cup Roles \cup {None} :
       (task \in {"move", "import"} => arg \in Departments \cup {None}) /\ (task = "bind" => arg \in Roles)
         => Holds(ForUsers(task, us, arg))
  /\ \A u \in Users : Holds(ForUser(u))
  /\ Holds(ForAll)
<1>1. ASSUME NEW task \in Tasks, NEW us \in SUBSET Users, NEW arg \in Departments \cup Roles \cup {None},
             task \in {"move", "import"} => arg \in Departments \cup {None},
             task = "bind" => arg \in Roles
      PROVE  Holds(ForUsers(task, us, arg))
  BY <1>1, RequestsFor, RequestsTyped DEF Holds, Consolidating
<1>2. ASSUME NEW u \in Users PROVE Holds(ForUser(u))
  BY RequestsFor, RequestsTyped DEF Holds, Consolidating
<1>3. Holds(ForAll)
  BY RequestsFor, RequestsTyped DEF Holds, Consolidating
<1> QED BY <1>1, <1>2, <1>3

LEMMA AssigningHolds ==
  ASSUME NEW us \in SUBSET Users, NEW targets \in SUBSET (Templates \X Sources), Covers(us, targets)
  PROVE  LET q == Assigning(us, targets) IN
         /\ Holds(q) /\ q.users = us
         /\ q.next = IF targets # {} THEN "target" ELSE IF us = {} THEN "list" ELSE "take"
         /\ q.next # "list" => q.task = "reconcile" /\ q.users = us
         /\ q.next = "target" => q.targets = targets
<1>1. CASE targets = {} /\ us = {}
  BY <1>1, StartHolds, RequestsFor DEF Assigning, ForTargets
<1>2. CASE targets = {} /\ us # {}
  <2>1. Assigning(us, targets) = ForUsers("reconcile", us, None)
    BY <1>2 DEF Assigning, ForTargets
  <2>2. Holds(ForUsers("reconcile", us, None))
    BY StartHolds DEF Tasks
  <2>3. /\ ForUsers("reconcile", us, None).next = "take"
        /\ ForUsers("reconcile", us, None).task = "reconcile"
        /\ ForUsers("reconcile", us, None).users = us
    BY RequestsFor
  <2> QED BY <1>2, <2>1, <2>2, <2>3
<1>3. CASE targets # {}
  <2>1. Assigning(us, targets) =
          [next |-> "target", task |-> "reconcile", users |-> us, user |-> None,
           arg |-> None, targets |-> targets, found |-> {}, at |-> None]
    BY <1>3 DEF Assigning, IdleProf
  <2> QED BY <1>3, <2>1 DEF Holds, ProfRequest, Steps, Tasks, Consolidating
<1> QED BY <1>1, <1>2, <1>3

LEMMA DoneHolds == ASSUME NEW q, Holds(q) PROVE Holds(Done(q))
<1>1. CASE q.users = {}
  BY <1>1, IdleHolds DEF Done
<1>2. CASE q.users # {}
  <2>1. Done(q) = [q EXCEPT !.next = "take", !.user = None, !.found = {}, !.at = None]
    BY <1>2 DEF Done
  <2>2. q \in ProfRequest
    BY DEF Holds
  <2>3. Done(q) = [next |-> "take", task |-> q.task, users |-> q.users, user |-> None,
                   arg |-> q.arg, targets |-> q.targets, found |-> {}, at |-> None]
    BY <2>1, <2>2 DEF ProfRequest
  <2> QED BY <2>2, <2>3 DEF Holds, ProfRequest, Steps, Consolidating
<1> QED BY <1>1, <1>2

LEMMA RowsKeepHolding ==
  ASSUME RequestsHold, NEW r \in ProfRequests, NEW row, Holds(row),
         profReq' = [profReq EXCEPT ![r] = row]
  PROVE  RequestsHold'
BY DEF RequestsHold, Holds

LEMMA InitProfiles == ProfilesInit => ProfilesInv
<1> SUFFICES ASSUME ProfilesInit PROVE ProfilesInv
  OBVIOUS
<1> USE DEF ProfilesInit
<1>1. UsersTyped
  BY Seeds, ProfBounds, StandardRoleExists DEF UsersTyped, UserStatuses
<1>2. TemplatesTyped
  <2>1. bindings \subseteq Templates \X Sources
    BY Seeds, StandardRoleExists DEF Sources
  <2>2. TemplatesNamed
    BY Seeds DEF TemplatesNamed
  <2> QED BY <2>1, <2>2, Seeds DEF TemplatesTyped
<1>3. RowsTyped
  <2>1. NoProfile \in ProfileRow
    BY DEF NoProfile, ProfileRow
  <2>2. ASSUME NEW n \in Names, \E t \in DOMAIN SeededName : SeededName[t] = n
        PROVE  [status |-> "active", managed |-> TRUE, shown |-> {StandardRole},
                template |-> CHOOSE t \in DOMAIN SeededName : SeededName[t] = n] \in ProfileRow
    BY <2>2, Seeds, StandardRoleExists DEF ProfileRow, Sources
  <2> QED BY <2>1, <2>2 DEF RowsTyped
<1>4. CountsTyped
  BY ProfBounds DEF CountsTyped
<1>5. RequestsHold
  BY IdleHolds DEF RequestsHold
<1> QED BY <1>1, <1>2, <1>3, <1>4, <1>5 DEF ProfilesInv

LEMMA ProfilesInvTypes == ProfilesInv => ProfilesTypeOK
BY DEF ProfilesInv, ProfilesTypeOK, UsersTyped, TemplatesTyped, RowsTyped, CountsTyped, RequestsHold

LEMMA ServeTyped == ASSUME CountsTyped, Serve, UNCHANGED profRestarts PROVE CountsTyped'
BY ProfBounds DEF CountsTyped, Serve, MayServe

LEMMA SameTables ==
  /\ UsersTyped /\ UNCHANGED userVars => UsersTyped'
  /\ TemplatesTyped /\ UNCHANGED templateVars => TemplatesTyped'
  /\ RowsTyped /\ UNCHANGED profile => RowsTyped'
  /\ CountsTyped /\ UNCHANGED <<calls, profRestarts>> => CountsTyped'
  /\ RequestsHold /\ UNCHANGED profReq => RequestsHold'
BY DEF UsersTyped, TemplatesTyped, RowsTyped, CountsTyped, RequestsHold, TemplatesNamed,
       userVars, templateVars

-----------------------------------------------------------------------------
(* Each request keeps them.                                                  *)

LEMMA StartKeeps ==
  ASSUME ProfilesInv, NEW r \in ProfRequests, NEW row, Holds(row), Start(r, row),
         UNCHANGED profRestarts
  PROVE  RequestsHold' /\ CountsTyped'
BY RowsKeepHolding, ServeTyped DEF ProfilesInv, Start

LEMMA BeginKeeps ==
  ASSUME ProfilesInv, NEW r \in ProfRequests,
         \/ SetUserStatus(r) \/ UpdateUser(r) \/ AssignUserRole(r) \/ AddRoleMembers(r)
         \/ BatchUsers(r) \/ CreateUser(r) \/ ConfirmUserImport(r) \/ ReconcileUser(r)
  PROVE  ProfilesInv'
<1>1. PICK row : Holds(row) /\ Begin(r, row)
  <2> USE StartHolds DEF Existing, Places
  <2>1. CASE SetUserStatus(r)
    BY <2>1 DEF SetUserStatus, Tasks, UserStatuses
  <2>2. CASE UpdateUser(r)
    BY <2>2 DEF UpdateUser, Tasks
  <2>3. CASE AssignUserRole(r)
    BY <2>3 DEF AssignUserRole, Tasks
  <2>4. CASE AddRoleMembers(r)
    BY <2>4 DEF AddRoleMembers, Tasks
  <2>5. CASE BatchUsers(r)
    <3>1. PICK us \in SUBSET Users :
            \/ \E st \in {"active", "suspended"} : Begin(r, ForUsers(st, us, None))
            \/ \E d \in Places : Begin(r, ForUsers("move", us, d))
            \/ \E role \in Roles : Begin(r, ForUsers("bind", us, role))
      BY <2>5 DEF BatchUsers
    <3>2. CASE \E st \in {"active", "suspended"} : Begin(r, ForUsers(st, us, None))
      BY <3>2 DEF Tasks, UserStatuses
    <3>3. CASE \E d \in Places : Begin(r, ForUsers("move", us, d))
      BY <3>3 DEF Tasks
    <3>4. CASE \E role \in Roles : Begin(r, ForUsers("bind", us, role))
      BY <3>4 DEF Tasks
    <3> QED BY <3>1, <3>2, <3>3, <3>4
  <2>6. CASE CreateUser(r)
    BY <2>6 DEF CreateUser, Tasks
  <2>7. CASE ConfirmUserImport(r)
    BY <2>7 DEF ConfirmUserImport, Tasks
  <2>8. CASE ReconcileUser(r)
    BY <2>8 DEF ReconcileUser
  <2> QED BY <2>1, <2>2, <2>3, <2>4, <2>5, <2>6, <2>7, <2>8
<1>2. RequestsHold' /\ CountsTyped'
  BY <1>1, StartKeeps DEF Begin
<1> QED BY <1>1, <1>2, SameTables DEF Begin, ProfilesInv

LEMMA RemoveRowsKeeps ==
  ASSUME ProfilesInv, NEW r \in ProfRequests, RemoveUserRole(r) \/ RemoveRoleMember(r)
  PROVE  ProfilesInv'
<1> USE DEF ProfilesInv
<1>1. PICK u \in Users, role \in Roles, left \in 0..MaxRoleRows : RemoveRows(r, u, role, left)
  <2>1. CASE RemoveUserRole(r)
    BY <2>1, ProfBounds DEF RemoveUserRole
  <2>2. CASE RemoveRoleMember(r)
    <3>1. PICK u \in Users, role \in Roles :
            roleRows[u][role] > 0 /\ RemoveRows(r, u, role, roleRows[u][role] - 1)
      BY <2>2 DEF RemoveRoleMember
    <3>2. roleRows[u][role] \in 0..MaxRoleRows
      BY DEF UsersTyped
    <3> QED BY <3>1, <3>2, ProfBounds
  <2> QED BY <2>1, <2>2
<1>2. RequestsHold' /\ CountsTyped'
  BY <1>1, StartHolds, StartKeeps DEF RemoveRows
<1>3. UsersTyped'
  BY <1>1 DEF RemoveRows, UsersTyped
<1> QED BY <1>1, <1>2, <1>3, SameTables DEF RemoveRows

\* A user whose turn it is.
LEMMA TakeNextHolds ==
  ASSUME RequestsHold, NEW r \in ProfRequests, NEW u \in Users, NEW step \in Steps,
         step \notin {"owner", "record", "target"}, TakeNext(r, u, step)
  PROVE  RequestsHold'
<1> DEFINE q == profReq[r]
           row == [q EXCEPT !.next = step, !.user = u, !.users = @ \ {u}]
<1>1. profReq' = [profReq EXCEPT ![r] = row] /\ Holds(q) /\ q \in ProfRequest
  BY DEF TakeNext, RequestsHold, Holds
<1>2. /\ row.next = step /\ row.user = u /\ row.task = q.task /\ row.arg = q.arg
      /\ row \in ProfRequest
  BY <1>1 DEF ProfRequest
<1> HIDE DEF q, row
<1>3. Holds(row)
  BY <1>1, <1>2 DEF Holds
<1> QED BY <1>1, <1>3, RowsKeepHolding

LEMMA TakeKeeps ==
  ASSUME ProfilesInv, NEW r \in ProfRequests,
         TakeStatus(r) \/ TakeMove(r) \/ TakeBind(r) \/ TakeReconcile(r) \/ TakeImport(r)
  PROVE  ProfilesInv'
<1> USE DEF ProfilesInv
<1>1. Holds(profReq[r])
  BY DEF RequestsHold
<1>2. CASE TakeStatus(r)
  <2>1. PICK u \in Users :
          /\ profReq[r].task \in UserStatuses /\ TakeNext(r, u, AfterStatus[profReq[r].task])
          /\ userStatus' = [userStatus EXCEPT ![u] = profReq[r].task]
          /\ UNCHANGED <<department, roleRows>>
    BY <1>2 DEF TakeStatus
  <2>2. AfterStatus[profReq[r].task] \in {"idle", "disable", "enable"}
    BY <2>1 DEF AfterStatus, UserStatuses
  <2>3. RequestsHold'
    BY <2>1, <2>2, TakeNextHolds DEF Steps
  <2>4. UsersTyped'
    BY <2>1 DEF UsersTyped
  <2> QED BY <2>1, <2>3, <2>4, SameTables DEF TakeNext
<1>3. CASE TakeMove(r)
  <2>1. PICK u \in Users :
          /\ profReq[r].task = "move" /\ TakeNext(r, u, "read")
          /\ department' = [department EXCEPT ![u] = profReq[r].arg]
          /\ UNCHANGED <<userStatus, roleRows>>
    BY <1>3 DEF TakeMove
  <2>2. RequestsHold'
    BY <2>1, TakeNextHolds DEF Steps
  <2>3. UsersTyped'
    BY <1>1, <2>1 DEF UsersTyped, Holds
  <2> QED BY <2>1, <2>2, <2>3, SameTables DEF TakeNext
<1>4. CASE TakeBind(r)
  <2>1. PICK u \in Users :
          /\ profReq[r].task = "bind" /\ TakeNext(r, u, "read")
          /\ roleRows[u][profReq[r].arg] < MaxRoleRows
          /\ roleRows' = [roleRows EXCEPT ![u][profReq[r].arg] = @ + 1]
          /\ UNCHANGED <<userStatus, department>>
    BY <1>4 DEF TakeBind
  <2>2. RequestsHold'
    BY <2>1, TakeNextHolds DEF Steps
  <2>3. profReq[r].arg \in Roles
    BY <1>1, <2>1 DEF Holds
  <2>4. UsersTyped'
    BY <2>1, <2>3, ProfBounds DEF UsersTyped
  <2> QED BY <2>1, <2>2, <2>4, SameTables DEF TakeNext
<1>5. CASE TakeReconcile(r)
  <2>1. PICK u \in Users : TakeNext(r, u, "read") /\ UNCHANGED userVars
    BY <1>5 DEF TakeReconcile
  <2>2. RequestsHold'
    BY <2>1, TakeNextHolds DEF Steps
  <2> QED BY <2>1, <2>2, SameTables DEF TakeNext
<1>6. CASE TakeImport(r)
  <2>1. PICK u \in Users :
          /\ profReq[r].task = "import" /\ TakeNext(r, u, "bind_standard")
          /\ userStatus' = [userStatus EXCEPT ![u] = "active"]
          /\ department' = [department EXCEPT ![u] = profReq[r].arg]
          /\ UNCHANGED roleRows
    BY <1>6 DEF TakeImport
  <2>2. RequestsHold'
    BY <2>1, TakeNextHolds DEF Steps
  <2>3. UsersTyped'
    BY <1>1, <2>1 DEF UsersTyped, Holds, UserStatuses
  <2> QED BY <2>1, <2>2, <2>3, SameTables DEF TakeNext
<1> QED BY <1>2, <1>3, <1>4, <1>5, <1>6

\* Going to another step with the same user.
LEMMA GotoHolds ==
  ASSUME RequestsHold, NEW r \in ProfRequests, NEW row, row \in ProfRequest,
         LET q == profReq[r] IN
         /\ q.next \in Consolidating /\ row.next \in Consolidating
         /\ row.user = q.user /\ row.task = q.task /\ row.arg = q.arg
         /\ row.next = "record" => row.at \in Templates \X Names,
         profReq' = [profReq EXCEPT ![r] = row]
  PROVE  RequestsHold'
<1>1. Holds(profReq[r])
  BY DEF RequestsHold
<1>2. Holds(row)
  BY <1>1 DEF Holds, Consolidating
<1> QED BY <1>2, RowsKeepHolding

LEMMA GotoStepHolds ==
  ASSUME RequestsHold, NEW r \in ProfRequests, NEW step \in Consolidating \ {"record"},
         profReq[r].next \in Consolidating, Goto(r, step)
  PROVE  RequestsHold'
<1> DEFINE row == [profReq[r] EXCEPT !.next = step]
<1>1. profReq[r] \in ProfRequest /\ profReq' = [profReq EXCEPT ![r] = row]
  BY DEF RequestsHold, Goto
<1>2. /\ row \in ProfRequest /\ row.next = step /\ row.user = profReq[r].user
      /\ row.task = profReq[r].task /\ row.arg = profReq[r].arg
  BY <1>1 DEF ProfRequest, Steps, Consolidating
<1> HIDE DEF row
<1> QED BY <1>1, <1>2, GotoHolds

LEMMA NamedTyped ==
  ASSUME TemplatesTyped, NEW ts \in SUBSET Templates, \A t \in ts : templateStatus[t] = "active"
  PROVE  Named(ts) \in SUBSET (Templates \X Names)
BY DEF TemplatesTyped, TemplatesNamed, Named

LEMMA RowEdits ==
  /\ NoProfile \in ProfileRow /\ Personal \in ProfileRow
  /\ \A t \in Templates : [Personal EXCEPT !.managed = TRUE, !.template = t] \in ProfileRow
  /\ \A row \in ProfileRow :
       /\ \A st \in {"active", "disabled"} : [row EXCEPT !.status = st] \in ProfileRow
       /\ \A t \in Templates : UpsertRow(row, t) \in ProfileRow
       /\ \A ss \in SUBSET Sources : [row EXCEPT !.shown = ss] \in ProfileRow
<1>1. NoProfile \in ProfileRow
  BY DEF NoProfile, ProfileRow
<1>2. Personal \in ProfileRow
  BY <1>1 DEF Personal, ProfileRow
<1>3. \A t \in Templates : [Personal EXCEPT !.managed = TRUE, !.template = t] \in ProfileRow
  BY <1>2 DEF ProfileRow
<1>4. ASSUME NEW row \in ProfileRow
      PROVE  /\ \A st \in {"active", "disabled"} : [row EXCEPT !.status = st] \in ProfileRow
             /\ \A t \in Templates : UpsertRow(row, t) \in ProfileRow
             /\ \A ss \in SUBSET Sources : [row EXCEPT !.shown = ss] \in ProfileRow
  <2>1. ASSUME NEW st \in {"active", "disabled"} PROVE [row EXCEPT !.status = st] \in ProfileRow
    BY DEF ProfileRow
  <2>2. ASSUME NEW t \in Templates PROVE UpsertRow(row, t) \in ProfileRow
    BY DEF ProfileRow, UpsertRow
  <2>3. ASSUME NEW ss \in SUBSET Sources PROVE [row EXCEPT !.shown = ss] \in ProfileRow
    BY DEF ProfileRow
  <2> QED BY <2>1, <2>2, <2>3
<1> QED BY <1>1, <1>2, <1>3, <1>4

\* One row of one user, or all rows of one user, are written.
LEMMA RowsKeepType ==
  ASSUME RowsTyped, NEW u \in Users
  PROVE  /\ \A n \in Names : profile[u][n] \in ProfileRow
         /\ \A n \in Names, row \in ProfileRow :
              profile' = [profile EXCEPT ![u][n] = row] => RowsTyped'
         /\ \A rows \in [Names -> ProfileRow] : profile' = [profile EXCEPT ![u] = rows] => RowsTyped'
BY DEF RowsTyped

LEMMA ManagedTyped ==
  ASSUME RowsTyped, NEW u \in Users, NEW st \in {"active", "disabled"}, SetManaged(u, st)
  PROVE  RowsTyped'
<1> DEFINE rows == [n \in Names |-> IF profile[u][n].managed THEN [profile[u][n] EXCEPT !.status = st]
                                    ELSE profile[u][n]]
<1>1. rows \in [Names -> ProfileRow]
  BY RowsKeepType, RowEdits
<1>2. profile' = [profile EXCEPT ![u] = rows]
  BY DEF SetManaged, RowsTyped
<1> HIDE DEF rows
<1> QED BY <1>1, <1>2, RowsKeepType

LEMMA PruneTyped ==
  ASSUME RowsTyped, NEW u \in Users
  PROVE  PruneManaged(profile[u], u) \in [Names -> ProfileRow]
BY RowsKeepType, RowEdits DEF PruneManaged

\* The statements of a consolidation.
LEMMA ConsolidationKeeps ==
  ASSUME ProfilesInv, NEW r \in ProfRequests,
         \/ ListUsers(r) \/ AssignRead(r) \/ AssignInsert(r) \/ ReadMatching(r)
         \/ UpsertProfile(r) \/ RecordSources(r) \/ Prune(r)
  PROVE  ProfilesInv'
<1> USE DEF ProfilesInv
<1> DEFINE q == profReq[r]
<1>1. Holds(q) /\ q \in ProfRequest
  BY DEF RequestsHold, Holds
<1>2. ASSUME q.next \in Consolidating PROVE q.user \in Users
  BY <1>1, <1>2 DEF Holds
<1>3. CASE ListUsers(r)
  <2>1. PICK row : Holds(row) /\ profReq' = [profReq EXCEPT ![r] = row]
    BY <1>3, IdleHolds, StartHolds DEF ListUsers, Tasks
  <2> QED BY <1>3, <2>1, RowsKeepHolding, SameTables DEF ListUsers
<1>4. CASE AssignRead(r)
  <2>1. PICK found \in SUBSET (Templates \X Names), step \in {"read", "insert"} :
          profReq' = [profReq EXCEPT ![r].next = step, ![r].found = found]
    BY <1>4, NamedTyped DEF AssignRead
  <2> DEFINE row == [q EXCEPT !.next = step, !.found = found]
  <2>2. /\ row \in ProfRequest /\ row.next = step /\ row.user = q.user
        /\ row.task = q.task /\ row.arg = q.arg /\ profReq' = [profReq EXCEPT ![r] = row]
    BY <1>1, <2>1 DEF ProfRequest, Steps
  <2>3. q.next = "assign"
    BY <1>4 DEF AssignRead, At
  <2> HIDE DEF row
  <2>4. RequestsHold'
    BY <2>2, <2>3, GotoHolds DEF Consolidating
  <2> QED BY <1>4, <2>4, SameTables DEF AssignRead
<1>5. CASE AssignInsert(r)
  <2>1. q.next = "insert" /\ UNCHANGED <<userVars, templateVars, calls, profRestarts>>
    BY <1>5 DEF AssignInsert, At
  <2>2. PICK p \in q.found, step \in {"read", "insert"} :
          /\ profile' = [profile EXCEPT ![q.user][p[2]] =
               IF @.status = "none" THEN [Personal EXCEPT !.managed = TRUE, !.template = p[1]] ELSE @]
          /\ profReq' = [profReq EXCEPT ![r].found = @ \ {p}, ![r].next = step]
    BY <1>5 DEF AssignInsert
  <2>3. q.user \in Users /\ p[1] \in Templates /\ p[2] \in Names
    BY <1>1, <1>2, <2>1 DEF Consolidating, ProfRequest
  <2> DEFINE row == [q EXCEPT !.found = @ \ {p}, !.next = step]
  <2>4. /\ row \in ProfRequest /\ row.next = step /\ row.user = q.user
        /\ row.task = q.task /\ row.arg = q.arg /\ profReq' = [profReq EXCEPT ![r] = row]
    BY <1>1, <2>2 DEF ProfRequest, Steps
  <2>5. RequestsHold'
    <3> HIDE DEF row
    <3> QED BY <2>1, <2>4, GotoHolds DEF Consolidating
  <2>6. RowsTyped'
    BY <2>2, <2>3, RowsKeepType, RowEdits
  <2> QED BY <2>1, <2>5, <2>6, SameTables
<1>6. CASE ReadMatching(r)
  <2>1. PICK found \in SUBSET (Templates \X Names), step \in {"prune", "upsert"} :
          profReq' = [profReq EXCEPT ![r].next = step, ![r].found = found]
    BY <1>6, NamedTyped DEF ReadMatching, Matching, NextTemplate
  <2> DEFINE row == [q EXCEPT !.next = step, !.found = found]
  <2>2. /\ row \in ProfRequest /\ row.next = step /\ row.user = q.user
        /\ row.task = q.task /\ row.arg = q.arg /\ profReq' = [profReq EXCEPT ![r] = row]
    BY <1>1, <2>1 DEF ProfRequest, Steps
  <2>3. q.next = "read"
    BY <1>6 DEF ReadMatching, At
  <2> HIDE DEF row
  <2>4. RequestsHold'
    BY <2>2, <2>3, GotoHolds DEF Consolidating
  <2> QED BY <1>6, <2>4, SameTables DEF ReadMatching
<1>7. CASE UpsertProfile(r)
  <2>1. q.next = "upsert" /\ UNCHANGED <<userVars, templateVars, calls, profRestarts>>
    BY <1>7 DEF UpsertProfile, At
  <2>2. PICK p \in q.found :
          /\ profile' = [profile EXCEPT ![q.user][p[2]] = UpsertRow(@, p[1])]
          /\ profReq' = [profReq EXCEPT ![r].next = "record", ![r].at = p, ![r].found = @ \ {p}]
    BY <1>7 DEF UpsertProfile
  <2>3. q.user \in Users /\ p[1] \in Templates /\ p[2] \in Names /\ p \in Templates \X Names
    BY <1>1, <1>2, <2>1 DEF Consolidating, ProfRequest
  <2> DEFINE row == [q EXCEPT !.next = "record", !.at = p, !.found = @ \ {p}]
  <2>4. /\ row \in ProfRequest /\ row.next = "record" /\ row.user = q.user /\ row.at = p
        /\ row.task = q.task /\ row.arg = q.arg /\ profReq' = [profReq EXCEPT ![r] = row]
    BY <1>1, <2>2, <2>3 DEF ProfRequest, Steps
  <2>5. RequestsHold'
    <3> HIDE DEF row
    <3> QED BY <2>1, <2>3, <2>4, GotoHolds DEF Consolidating
  <2>6. RowsTyped'
    BY <2>2, <2>3, RowsKeepType, RowEdits
  <2> QED BY <2>1, <2>5, <2>6, SameTables
<1>8. CASE RecordSources(r)
  <2>1. q.next = "record" /\ UNCHANGED <<userVars, templateVars, calls, profRestarts>>
    BY <1>8 DEF RecordSources, At
  <2>2. PICK step \in {"prune", "upsert"} :
          /\ profile' = [profile EXCEPT ![q.user][q.at[2]] =
               IF @.status = "none" THEN @ ELSE [@ EXCEPT !.shown = SourcesOf(q.at[1], q.user)]]
          /\ profReq' = [profReq EXCEPT ![r].next = step, ![r].at = None]
    BY <1>8 DEF RecordSources, NextTemplate
  <2>3. q.user \in Users /\ q.at[1] \in Templates /\ q.at[2] \in Names
    BY <1>1, <1>2, <2>1 DEF Consolidating, Holds
  <2> DEFINE row == [q EXCEPT !.next = step, !.at = None]
  <2>4. /\ row \in ProfRequest /\ row.next = step /\ row.user = q.user
        /\ row.task = q.task /\ row.arg = q.arg /\ profReq' = [profReq EXCEPT ![r] = row]
    BY <1>1, <2>2 DEF ProfRequest, Steps
  <2>5. RequestsHold'
    <3> HIDE DEF row
    <3> QED BY <2>1, <2>4, GotoHolds DEF Consolidating
  <2>6. SourcesOf(q.at[1], q.user) \in SUBSET Sources
    BY DEF SourcesOf
  <2>7. RowsTyped'
    BY <2>2, <2>3, <2>6, RowsKeepType, RowEdits
  <2> QED BY <2>1, <2>5, <2>7, SameTables
<1>9. CASE Prune(r)
  <2>1. /\ q.next = "prune" /\ UNCHANGED <<userVars, templateVars, calls, profRestarts>>
        /\ profile' = [profile EXCEPT ![q.user] = PruneManaged(profile[q.user], q.user)]
        /\ profReq' = [profReq EXCEPT ![r] = Done(q)]
    BY <1>9 DEF Prune, At
  <2>2. RequestsHold'
    BY <1>1, <2>1, DoneHolds, RowsKeepHolding
  <2>3. q.user \in Users
    BY <1>2, <2>1 DEF Consolidating
  <2>4. RowsTyped'
    BY <2>1, <2>3, PruneTyped, RowsKeepType
  <2> QED BY <2>1, <2>2, <2>4, SameTables
<1> QED BY <1>3, <1>4, <1>5, <1>6, <1>7, <1>8, <1>9

LEMMA LifecycleKeeps ==
  ASSUME ProfilesInv, NEW r \in ProfRequests,
         ImportStops(r) \/ BindStandardRole(r) \/ DisableManaged(r) \/ EnableManaged(r)
  PROVE  ProfilesInv'
<1> USE DEF ProfilesInv
<1> DEFINE q == profReq[r]
<1>1. Holds(q) /\ (q.next \in {"bind_standard", "disable", "enable"} => q.user \in Users)
  BY DEF RequestsHold, Holds, Consolidating
<1>2. CASE ImportStops(r)
  BY <1>2, IdleHolds, RowsKeepHolding, SameTables DEF ImportStops
<1>3. CASE BindStandardRole(r)
  <2>1. /\ q.next = "bind_standard" /\ \E step \in AfterActive : Goto(r, step)
        /\ roleRows' = [roleRows EXCEPT ![q.user][StandardRole] = 1]
        /\ UNCHANGED <<userStatus, department, templateVars, profile, calls, profRestarts>>
    BY <1>3 DEF BindStandardRole, At
  <2>2. RequestsHold'
    BY <2>1, GotoStepHolds DEF AfterActive, Consolidating
  <2>3. UsersTyped'
    BY <1>1, <2>1, ProfBounds, StandardRoleExists DEF UsersTyped
  <2> QED BY <2>1, <2>2, <2>3, SameTables
<1>4. CASE DisableManaged(r)
  <2>1. /\ q.next = "disable" /\ SetManaged(q.user, "disabled")
        /\ profReq' = [profReq EXCEPT ![r] = Done(q)]
        /\ UNCHANGED <<userVars, templateVars, calls, profRestarts>>
    BY <1>4 DEF DisableManaged, At
  <2> QED BY <1>1, <2>1, DoneHolds, RowsKeepHolding, ManagedTyped, SameTables
<1>5. CASE EnableManaged(r)
  <2>1. /\ q.next = "enable" /\ SetManaged(q.user, "active")
        /\ \E step \in AfterActive : Goto(r, step)
        /\ UNCHANGED <<userVars, templateVars, calls, profRestarts>>
    BY <1>5 DEF EnableManaged, At
  <2>2. RequestsHold'
    BY <2>1, GotoStepHolds DEF AfterActive, Consolidating
  <2> QED BY <1>1, <2>1, <2>2, ManagedTyped, SameTables
<1> QED BY <1>2, <1>3, <1>4, <1>5

LEMMA TemplatesKeep ==
  ASSUME ProfilesInv,
         \/ \E r \in ProfRequests : \/ SetTemplateStatus(r) \/ AssignTemplate(r) \/ UnassignTemplate(r)
                                    \/ InsertTarget(r) \/ AssignStops(r)
         \/ CreateTemplate \/ RenameTemplate \/ BindTemplate
  PROVE  ProfilesInv'
<1> USE DEF ProfilesInv
<1>1. ASSUME NEW s \in Sources PROVE Holds(ForTargets({s} \cap Users))
  <2>1. Holds(Assigning({s} \cap Users, {}))
    BY AssigningHolds DEF Covers
  <2> QED BY <2>1 DEF Assigning
<1>2. ASSUME NEW t \in Templates, NEW n \in Names, NameFree(n, t),
             templateName' = [templateName EXCEPT ![t] = n]
      PROVE  /\ \A one, two \in Templates :
                  one # two /\ templateName'[one] = templateName'[two] => templateName'[one] = None
             /\ \A other \in Templates : templateName'[other] = IF other = t THEN n ELSE templateName[other]
  BY <1>2 DEF NameFree, TemplatesTyped, TemplatesNamed
<1>3. CASE CreateTemplate
  <2>1. PICK t \in Templates, n \in Names :
          /\ NameFree(n, t) /\ Serve
          /\ templateStatus' = [templateStatus EXCEPT ![t] = "active"]
          /\ templateName' = [templateName EXCEPT ![t] = n]
          /\ UNCHANGED <<userVars, bindings, profile, profReq, profRestarts>>
    BY <1>3 DEF CreateTemplate
  <2>2. TemplatesNamed'
    <3>1. \A other \in Templates : IF templateStatus'[other] = "none" THEN templateName'[other] = None
                                                                      ELSE templateName'[other] \in Names
      BY <1>2, <2>1 DEF TemplatesTyped, TemplatesNamed
    <3> QED BY <1>2, <2>1, <3>1 DEF TemplatesNamed
  <2>3. TemplatesTyped'
    BY <2>1, <2>2 DEF TemplatesTyped
  <2> QED BY <2>1, <2>3, ServeTyped, SameTables
<1>4. CASE RenameTemplate
  <2>1. PICK t \in Templates, n \in Names :
          /\ templateStatus[t] # "none" /\ NameFree(n, t) /\ Serve
          /\ templateName' = [templateName EXCEPT ![t] = n]
          /\ UNCHANGED <<userVars, templateStatus, bindings, profile, profReq, profRestarts>>
    BY <1>4 DEF RenameTemplate
  <2>2. TemplatesNamed'
    <3>1. \A other \in Templates : IF templateStatus'[other] = "none" THEN templateName'[other] = None
                                                                      ELSE templateName'[other] \in Names
      BY <1>2, <2>1 DEF TemplatesTyped, TemplatesNamed
    <3> QED BY <1>2, <2>1, <3>1 DEF TemplatesNamed
  <2>3. TemplatesTyped'
    BY <2>1, <2>2 DEF TemplatesTyped
  <2> QED BY <2>1, <2>3, ServeTyped, SameTables
<1>5. CASE BindTemplate
  <2>1. /\ Serve /\ UNCHANGED <<userVars, templateStatus, templateName, profile, profReq, profRestarts>>
        /\ bindings' \subseteq Templates \X Sources
    BY <1>5 DEF BindTemplate, TemplatesTyped
  <2>2. TemplatesTyped'
    BY <2>1 DEF TemplatesTyped, TemplatesNamed
  <2> QED BY <2>1, <2>2, ServeTyped, SameTables
<1>6. ASSUME NEW r \in ProfRequests, SetTemplateStatus(r)
      PROVE  ProfilesInv'
  <2>1. PICK t \in Templates, st \in {"active", "disabled"} :
          /\ templateStatus[t] # "none" /\ Start(r, ForAll)
          /\ templateStatus' = [templateStatus EXCEPT ![t] = st]
          /\ UNCHANGED <<userVars, templateName, bindings, profile, profRestarts>>
    BY <1>6 DEF SetTemplateStatus
  <2>2. TemplatesTyped'
    BY <2>1 DEF TemplatesTyped, TemplatesNamed
  <2>3. RequestsHold' /\ CountsTyped'
    BY <2>1, StartHolds, StartKeeps
  <2> QED BY <2>1, <2>2, <2>3, SameTables
<1>7. ASSUME NEW r \in ProfRequests, AssignTemplate(r)
      PROVE  ProfilesInv'
  <2>1. PICK t \in Templates, targets \in TargetLists :
          Begin(r, Assigning(targets \cap Users, {t} \X targets))
    BY <1>7 DEF AssignTemplate
  <2>2. Holds(Assigning(targets \cap Users, {t} \X targets))
    <3>1. targets \in SUBSET Sources /\ (targets \cap Users = {} \/ targets \in SUBSET Users)
      <4>1. \/ targets \in SUBSET Users \/ targets \in SUBSET Departments
            \/ targets \in SUBSET Roles \/ targets = {Everyone}
        BY DEF TargetLists
      <4>2. /\ \A x \in Departments \cup Roles : x \notin Users
            /\ Everyone \notin Users
            /\ Users \cup Departments \cup Roles \cup {Everyone} = Sources
        BY KindsOfTargets DEF Sources
      <4>3. CASE targets \in SUBSET Users
        BY <4>2, <4>3
      <4>4. CASE targets \in SUBSET Departments
        BY <4>2, <4>4
      <4>5. CASE targets \in SUBSET Roles
        BY <4>2, <4>5
      <4>6. CASE targets = {Everyone}
        BY <4>2, <4>6
      <4> QED BY <4>1, <4>3, <4>4, <4>5, <4>6
    <3>2. \A b \in {t} \X targets : b \in Templates \X Sources /\ b[2] \in targets
      BY <3>1
    <3>3. Covers(targets \cap Users, {t} \X targets)
      BY <3>1, <3>2 DEF Covers
    <3> HIDE DEF Covers
    <3>4. targets \cap Users \in SUBSET Users /\ {t} \X targets \in SUBSET (Templates \X Sources)
      BY <3>2
    <3> QED BY <3>3, <3>4, AssigningHolds
  <2> QED BY <2>1, <2>2, StartKeeps, SameTables DEF Begin
<1>8. ASSUME NEW r \in ProfRequests, UnassignTemplate(r)
      PROVE  ProfilesInv'
  <2>1. PICK t \in Templates, s \in Sources :
          /\ Start(r, ForTargets({s} \cap Users)) /\ bindings' \in {bindings, bindings \ {<<t, s>>}}
          /\ UNCHANGED <<userVars, templateStatus, templateName, profile, profRestarts>>
    BY <1>8 DEF UnassignTemplate
  <2>2. TemplatesTyped'
    BY <2>1 DEF TemplatesTyped, TemplatesNamed
  <2>3. RequestsHold' /\ CountsTyped'
    BY <1>1, <2>1, StartKeeps
  <2> QED BY <2>1, <2>2, <2>3, SameTables
<1>9. ASSUME NEW r \in ProfRequests, InsertTarget(r)
      PROVE  ProfilesInv'
  <2>1. PICK b \in profReq[r].targets :
          /\ profReq' = [profReq EXCEPT ![r] = Assigning(@.users, @.targets \ {b})]
          /\ bindings' = bindings \cup {b} /\ At(r, "target")
          /\ UNCHANGED <<userVars, templateStatus, templateName, profile, calls, profRestarts>>
    BY <1>9 DEF InsertTarget
  <2>2. PICK us \in SUBSET Users, targets \in SUBSET (Templates \X Sources) :
          us = profReq[r].users /\ targets = profReq[r].targets /\ Covers(us, targets)
    BY <2>1 DEF At, RequestsHold, Holds, ProfRequest
  <2>3. profReq' = [profReq EXCEPT ![r] = Assigning(us, targets \ {b})]
    BY <2>1, <2>2 DEF RequestsHold
  <2>4. Holds(Assigning(us, targets \ {b}))
    BY <2>2, AssigningHolds DEF Covers
  <2>5. RequestsHold'
    BY <2>3, <2>4, RowsKeepHolding
  <2>6. b \in Templates \X Sources
    BY <2>1, <2>2
  <2>7. TemplatesTyped'
    BY <2>1, <2>6 DEF TemplatesTyped, TemplatesNamed
  <2> QED BY <2>1, <2>5, <2>7, SameTables
<1>10. ASSUME NEW r \in ProfRequests, AssignStops(r)
      PROVE  ProfilesInv'
  BY <1>10, IdleHolds, RowsKeepHolding, SameTables DEF AssignStops
<1> QED BY <1>3, <1>4, <1>5, <1>6, <1>7, <1>8, <1>9, <1>10

LEMMA ForgetHolds ==
  ASSUME RequestsHold, NEW u, NEW n, Forget(u, n)
  PROVE  RequestsHold'
BY IdleHolds DEF RequestsHold, Forget, Holds

\* What clients do to profiles themselves.
LEMMA ByHandKeeps ==
  ASSUME ProfilesInv,
         \/ CreateProfile \/ CreatePersonalAgent \/ SetProfileStatus \/ DeleteProfile
         \/ \E r \in ProfRequests : OwnerCheck(r) \/ OwnerEdit(r) \/ OwnerRemove(r)
  PROVE  ProfilesInv'
<1> USE DEF ProfilesInv
<1>1. ASSUME NEW u \in Users, NEW n \in Names, NEW row \in ProfileRow, WithProfile(u, n, row)
      PROVE  UsersTyped' /\ TemplatesTyped' /\ RowsTyped' /\ UNCHANGED profRestarts
  BY <1>1, RowsKeepType, SameTables DEF WithProfile
<1>2. CASE CreateProfile \/ CreatePersonalAgent
  <2>1. PICK u \in Users, n \in Names : NewProfile(u, n)
    BY <1>2 DEF CreateProfile, CreatePersonalAgent, Existing
  <2> QED BY <1>1, <2>1, RowEdits, ServeTyped, SameTables DEF NewProfile
<1>3. CASE SetProfileStatus
  <2>1. PICK u \in Users, n \in Names, st \in {"active", "disabled"} :
          Serve /\ WithProfile(u, n, [profile[u][n] EXCEPT !.status = st]) /\ UNCHANGED profReq
    BY <1>3 DEF SetProfileStatus
  <2>2. [profile[u][n] EXCEPT !.status = st] \in ProfileRow
    BY RowEdits, RowsKeepType
  <2> QED BY <1>1, <2>1, <2>2, ServeTyped, SameTables
<1>4. CASE DeleteProfile
  <2>1. PICK u \in Users, n \in Names : Serve /\ WithProfile(u, n, NoProfile) /\ Forget(u, n)
    BY <1>4 DEF DeleteProfile
  <2> QED BY <1>1, <2>1, RowEdits, ServeTyped, ForgetHolds
<1>5. ASSUME NEW r \in ProfRequests, OwnerCheck(r)
      PROVE  ProfilesInv'
  <2>1. PICK u \in Users, n \in Names, task \in {"edit", "remove"} :
          Start(r, [IdleProf EXCEPT !.next = "owner", !.task = task, !.user = u, !.arg = n])
    BY <1>5 DEF OwnerCheck
  <2>2. Holds([IdleProf EXCEPT !.next = "owner", !.task = task, !.user = u, !.arg = n])
    BY IdleHolds DEF Holds, ProfRequest, Steps, Tasks, Consolidating
  <2>3. UNCHANGED <<userVars, templateVars, profile, profRestarts>>
    BY <1>5 DEF OwnerCheck
  <2> QED BY <2>1, <2>2, <2>3, StartKeeps, SameTables
<1>6. ASSUME NEW r \in ProfRequests, OwnerEdit(r) \/ OwnerRemove(r)
      PROVE  ProfilesInv'
  <2> DEFINE u == profReq[r].user
             n == profReq[r].arg
  <2>1. u \in Users /\ n \in Names
    BY <1>6 DEF OwnerEdit, OwnerRemove, At, RequestsHold, Holds
  <2>2. CASE OwnerEdit(r)
    <3>1. PICK st \in {"active", "disabled"} :
            /\ WithProfile(u, n, [profile[u][n] EXCEPT !.status = st]) /\ UNCHANGED calls
            /\ profReq' = [profReq EXCEPT ![r] = IdleProf]
      BY <2>2 DEF OwnerEdit
    <3>2. [profile[u][n] EXCEPT !.status = st] \in ProfileRow
      BY <2>1, RowEdits, RowsKeepType
    <3>3. RequestsHold'
      BY <3>1, IdleHolds, RowsKeepHolding
    <3> HIDE DEF u, n
    <3> QED BY <1>1, <2>1, <3>1, <3>2, <3>3, SameTables
  <2>3. CASE OwnerRemove(r)
    <3>1. WithProfile(u, n, NoProfile) /\ Forget(u, n) /\ UNCHANGED calls
      BY <2>3 DEF OwnerRemove
    <3> HIDE DEF u, n
    <3> QED BY <1>1, <2>1, <3>1, RowEdits, ForgetHolds, SameTables
  <2> QED BY <1>6, <2>2, <2>3
<1> QED BY <1>2, <1>3, <1>4, <1>5, <1>6

\* The templates that match u are templates, with names of their own.
LEMMA MatchingTemplates ==
  ASSUME TemplatesTyped, NEW u
  PROVE  /\ Matching(u) \subseteq Templates
         /\ \A t \in Matching(u) : templateStatus[t] = "active" /\ templateName[t] \in Names
         /\ \A one, two \in Matching(u) : templateName[one] = templateName[two] => one = two
BY Seeds DEF TemplatesTyped, TemplatesNamed, Matching

\* A consolidation with what it depends on: the templates that match, their names
\* and their sources.
Merged(rows, matching, names, sources) ==
  [n \in Names |->
     LET here == {t \in matching : names[t] = n}
         t == CHOOSE t \in here : TRUE
     IN IF here # {}
        THEN [status |-> "active", managed |-> TRUE, template |-> t, shown |-> sources[t]]
        ELSE IF rows[n].managed /\ rows[n].template \notin matching
             THEN [rows[n] EXCEPT !.status = "disabled"] ELSE rows[n]]

LEMMA MergedAt ==
  ASSUME NEW rows \in [Names -> ProfileRow], NEW matching \in SUBSET Templates, NEW names,
         NEW sources \in [Templates -> SUBSET Sources], NEW n \in Names
  PROVE  LET row == Merged(rows, matching, names, sources)[n] IN
         /\ row \in ProfileRow
         /\ row.managed /\ row.status = "active" => row.template \in matching
         /\ \/ \E t \in matching : names[t] = n /\ row =
                 [status |-> "active", managed |-> TRUE, template |-> t, shown |-> sources[t]]
            \/ /\ \A t \in matching : names[t] # n
               /\ row = IF rows[n].managed /\ rows[n].template \notin matching
                        THEN [rows[n] EXCEPT !.status = "disabled"] ELSE rows[n]
<1> DEFINE row == Merged(rows, matching, names, sources)[n]
           here == {t \in matching : names[t] = n}
<1>1. PICK t : t = CHOOSE x \in here : TRUE
  OBVIOUS
<1>2. row = IF here # {}
            THEN [status |-> "active", managed |-> TRUE, template |-> t, shown |-> sources[t]]
            ELSE IF rows[n].managed /\ rows[n].template \notin matching
                 THEN [rows[n] EXCEPT !.status = "disabled"] ELSE rows[n]
  BY <1>1 DEF Merged
<1> HIDE DEF row
<1>3. CASE here # {}
  <2>1. t \in matching /\ names[t] = n
    BY <1>1, <1>3
  <2>2. row = [status |-> "active", managed |-> TRUE, template |-> t, shown |-> sources[t]]
    BY <1>2, <1>3
  <2>3. row \in ProfileRow
    BY <2>1, <2>2 DEF ProfileRow
  <2>4. row.template \in matching
    BY <2>1, <2>2
  <2>5. \E x \in matching : names[x] = n /\ row =
          [status |-> "active", managed |-> TRUE, template |-> x, shown |-> sources[x]]
    BY <2>1, <2>2
  <2> HIDE DEF here
  <2> QED BY <2>3, <2>4, <2>5 DEF row
<1>4. CASE here = {}
  <2>1. row = IF rows[n].managed /\ rows[n].template \notin matching
              THEN [rows[n] EXCEPT !.status = "disabled"] ELSE rows[n]
    BY <1>2, <1>4
  <2>2. rows[n] \in ProfileRow /\ [rows[n] EXCEPT !.status = "disabled"] \in ProfileRow
    BY RowEdits
  <2>3. row \in ProfileRow /\ (row.managed /\ row.status = "active" => row.template \in matching)
    BY <2>1, <2>2 DEF ProfileRow
  <2> QED BY <1>4, <2>1, <2>3 DEF row
<1> QED BY <1>3, <1>4

LEMMA MergedTwice ==
  ASSUME NEW rows \in [Names -> ProfileRow], NEW matching \in SUBSET Templates, NEW names,
         NEW sources \in [Templates -> SUBSET Sources]
  PROVE  LET merged == Merged(rows, matching, names, sources) IN
         merged \in [Names -> ProfileRow] /\ Merged(merged, matching, names, sources) = merged
<1> DEFINE merged == Merged(rows, matching, names, sources)
           again == Merged(merged, matching, names, sources)
<1>1. merged \in [Names -> ProfileRow]
  <2>1. \A n \in Names : merged[n] \in ProfileRow
    BY MergedAt
  <2>2. \E f : merged = [n \in Names |-> f[n]]
    BY DEF Merged
  <2> HIDE DEF merged
  <2> QED BY <2>1, <2>2
<1>2. ASSUME NEW n \in Names PROVE again[n] = merged[n]
  <2> DEFINE here == {t \in matching : names[t] = n}
  <2>1. PICK t : t = CHOOSE x \in here : TRUE
    OBVIOUS
  <2>2. /\ merged[n] = IF here # {}
             THEN [status |-> "active", managed |-> TRUE, template |-> t, shown |-> sources[t]]
             ELSE IF rows[n].managed /\ rows[n].template \notin matching
                  THEN [rows[n] EXCEPT !.status = "disabled"] ELSE rows[n]
        /\ again[n] = IF here # {}
             THEN [status |-> "active", managed |-> TRUE, template |-> t, shown |-> sources[t]]
             ELSE IF merged[n].managed /\ merged[n].template \notin matching
                  THEN [merged[n] EXCEPT !.status = "disabled"] ELSE merged[n]
    BY <2>1 DEF Merged
  <2> HIDE DEF merged, again
  <2>3. CASE here # {}
    BY <2>2, <2>3
  <2>4. CASE here = {} /\ rows[n].managed /\ rows[n].template \notin matching
    <3>1. merged[n] = [rows[n] EXCEPT !.status = "disabled"] /\ rows[n] \in ProfileRow
      BY <2>2, <2>4
    <3>2. [merged[n] EXCEPT !.status = "disabled"] = merged[n]
      BY <3>1 DEF ProfileRow
    <3> QED BY <2>2, <2>4, <3>2
  <2>5. CASE here = {} /\ ~(rows[n].managed /\ rows[n].template \notin matching)
    BY <2>2, <2>5
  <2> QED BY <2>3, <2>4, <2>5
<1>3. again = merged
  BY <1>2 DEF Merged
<1> QED BY <1>1, <1>3

SourcesFor(u) == [t \in Templates |-> SourcesOf(t, u)]

LEMMA ConsolidatedMerges ==
  ASSUME NEW rows, NEW u
  PROVE  /\ Consolidated(rows, u) = Merged(rows, Matching(u), templateName, SourcesFor(u))
         /\ Consolidated(rows, u)' = Merged(rows, Matching(u)', templateName', SourcesFor(u)')
         /\ Matching(u) \in SUBSET Templates /\ Matching(u)' \in SUBSET Templates
         /\ SourcesFor(u) \in [Templates -> SUBSET Sources]
         /\ SourcesFor(u)' \in [Templates -> SUBSET Sources]
<1>1. /\ Matching(u) \in SUBSET Templates /\ Matching(u)' \in SUBSET Templates
      /\ SourcesFor(u) \in [Templates -> SUBSET Sources]
      /\ SourcesFor(u)' \in [Templates -> SUBSET Sources]
  BY DEF Matching, SourcesFor, SourcesOf
<1>2. Consolidated(rows, u) = Merged(rows, Matching(u), templateName, SourcesFor(u))
  <2>1. ASSUME NEW n \in Names, NEW here, here = {t \in Matching(u) : templateName[t] = n}, here # {}
        PROVE  SourcesOf(CHOOSE t \in here : TRUE, u) = SourcesFor(u)[CHOOSE t \in here : TRUE]
    BY <1>1, <2>1 DEF SourcesFor
  <2> QED BY <2>1 DEF Consolidated, Merged
<1>3. Consolidated(rows, u)' = Merged(rows, Matching(u)', templateName', SourcesFor(u)')
  <2>1. ASSUME NEW n \in Names, NEW here, here = {t \in Matching(u)' : templateName'[t] = n}, here # {}
        PROVE  SourcesOf(CHOOSE t \in here : TRUE, u)' = SourcesFor(u)'[CHOOSE t \in here : TRUE]
    BY <1>1, <2>1 DEF SourcesFor
  <2> QED BY <2>1 DEF Consolidated, Merged
<1> QED BY <1>1, <1>2, <1>3

LEMMA SeedTemplatesTyped ==
  ASSUME TemplatesTyped, SeedTemplates
  PROVE  /\ templateStatus' \in [Templates -> {"none", "active", "disabled"}]
         /\ templateName' \in [Templates -> Names \cup {None}]
         /\ TemplatesNamed'
<1>1. PICK made \in [Templates -> SeededNames \cup {None}] :
        LET fresh == {t \in Templates : made[t] # None} IN
        /\ \A t \in fresh : templateStatus[t] = "none" /\ NameFree(made[t], t)
        /\ \A one, two \in fresh : made[one] = made[two] => one = two
        /\ templateStatus' = [t \in Templates |-> IF t \in fresh THEN "active" ELSE templateStatus[t]]
        /\ templateName' = [t \in Templates |-> IF t \in fresh THEN made[t] ELSE templateName[t]]
  BY DEF SeedTemplates
<1> DEFINE fresh == {t \in Templates : made[t] # None}
<1>2. SeededNames \subseteq Names
  BY Seeds DEF SeededNames
<1>3. \A t \in fresh : made[t] \in Names /\ made[t] # None
  BY <1>2
<1>4. templateStatus' \in [Templates -> {"none", "active", "disabled"}]
  BY <1>1 DEF TemplatesTyped
<1>5. templateName' \in [Templates -> Names \cup {None}]
  BY <1>1, <1>3 DEF TemplatesTyped
<1>6. \A t \in Templates : IF templateStatus'[t] = "none" THEN templateName'[t] = None
                                                        ELSE templateName'[t] \in Names
  BY <1>1, <1>3 DEF TemplatesTyped, TemplatesNamed
<1>7. ASSUME NEW one \in Templates, NEW two \in Templates, one # two,
             templateName'[one] = templateName'[two]
      PROVE  templateName'[one] = None
  <2>1. /\ templateName'[one] = IF one \in fresh THEN made[one] ELSE templateName[one]
        /\ templateName'[two] = IF two \in fresh THEN made[two] ELSE templateName[two]
    BY <1>1
  <2>2. CASE one \in fresh /\ two \in fresh
    BY <1>1, <1>7, <2>1, <2>2
  <2>3. CASE one \in fresh /\ two \notin fresh
    BY <1>1, <1>7, <2>1, <2>3 DEF NameFree
  <2>4. CASE one \notin fresh /\ two \in fresh
    BY <1>1, <1>7, <2>1, <2>4 DEF NameFree
  <2>5. CASE one \notin fresh /\ two \notin fresh
    BY <1>7, <2>1, <2>5 DEF TemplatesTyped, TemplatesNamed
  <2> QED BY <2>2, <2>3, <2>4, <2>5
<1> QED BY <1>4, <1>5, <1>6, <1>7 DEF TemplatesNamed

\* What the boot makes of the profiles.
LEMMA BootConsolidates ==
  ASSUME RestartProf, NEW u \in Users
  PROVE  profile'[u] = IF userStatus[u] = "active"
                       THEN Merged(profile[u], Matching(u)', templateName', SourcesFor(u)')
                       ELSE profile[u]
<1>1. PICK before \in {profile} : profile' = [v \in Users |->
        IF userStatus[v] = "active" THEN Consolidated(before[v], v)' ELSE before[v]]
  BY DEF RestartProf
<1>2. before = profile
  OBVIOUS
<1>3. Consolidated(before[u], u)' = Merged(before[u], Matching(u)', templateName', SourcesFor(u)')
  BY ConsolidatedMerges
<1> QED BY <1>1, <1>2, <1>3

LEMMA RestartKeeps ==
  ASSUME ProfilesInv, RestartProf
  PROVE  ProfilesInv'
<1> USE DEF ProfilesInv
<1>1. TemplatesTyped'
  <2>1. bindings' \subseteq Templates \X Sources
    BY StandardRoleExists DEF RestartProf, TemplatesTyped, Sources
  <2> QED BY <2>1, SeedTemplatesTyped DEF RestartProf, TemplatesTyped
<1>2. UsersTyped'
  BY ProfBounds DEF RestartProf, UsersTyped
<1>3. RequestsHold'
  BY IdleHolds DEF RestartProf, RequestsHold
<1>4. CountsTyped'
  BY ProfBounds DEF RestartProf, CountsTyped
<1>5. RowsTyped'
  <2>1. ASSUME NEW u \in Users PROVE profile'[u] \in [Names -> ProfileRow]
    <3>1. profile[u] \in [Names -> ProfileRow]
      BY DEF RowsTyped
    <3>2. Merged(profile[u], Matching(u)', templateName', SourcesFor(u)') \in [Names -> ProfileRow]
      BY <3>1, MergedTwice, ConsolidatedMerges
    <3> QED BY <3>1, <3>2, BootConsolidates
  <2>2. \E f : profile' = [v \in Users |-> f[v]]
    <3>1. PICK before \in {profile} : profile' = [v \in Users |->
            IF userStatus[v] = "active" THEN Consolidated(before[v], v)' ELSE before[v]]
      BY DEF RestartProf
    <3> QED BY <3>1
  <2> QED BY <2>1, <2>2 DEF RowsTyped
<1> QED BY <1>1, <1>2, <1>3, <1>4, <1>5

LEMMA ProfilesStep ==
  ASSUME ProfilesInv, [ProfilesNext]_profVars
  PROVE  ProfilesInv'
<1>1. CASE UNCHANGED profVars
  BY <1>1, SameTables DEF profVars, ProfilesInv
<1>2. CASE ProfilesNext
  BY <1>2, BeginKeeps, RemoveRowsKeeps, TakeKeeps, LifecycleKeeps, ConsolidationKeeps,
     TemplatesKeep, ByHandKeeps, RestartKeeps DEF ProfilesNext
<1> QED BY <1>1, <1>2

-----------------------------------------------------------------------------
(* What a step does to a user.                                               *)

\* A consolidation of u is still to come.
Awaits(q, u) ==
  \/ q.next = "list" \/ (q.next = "target" /\ q.users = {})
  \/ q.user = u /\ q.next \in Consolidating
  \/ u \in q.users /\ q.task = "reconcile" /\ q.next # "idle"

\* Neither the profiles of u nor what they should be is changed.
Unmoved(u) ==
  /\ userStatus'[u] = userStatus[u] /\ profile'[u] = profile[u]
  /\ templateName' = templateName
  /\ Matching(u)' = Matching(u) /\ SourcesFor(u)' = SourcesFor(u)

LEMMA UnmovedWhen ==
  ASSUME NEW u \in Users, UNCHANGED <<templateStatus, templateName>>,
         userStatus'[u] = userStatus[u], profile'[u] = profile[u],
         \A s \in Sources : (Applies(s, u)' <=> Applies(s, u))
         /\ \A t \in Templates : <<t, s>> \in bindings' /\ Applies(s, u) <=>
                                 <<t, s>> \in bindings /\ Applies(s, u)
  PROVE  Unmoved(u)
<1>1. \A t \in Templates : SourcesOf(t, u)' = SourcesOf(t, u)
  BY DEF SourcesOf
<1>2. Matching(u)' = Matching(u)
  BY <1>1 DEF Matching
<1>3. SourcesFor(u)' = SourcesFor(u)
  BY <1>1 DEF SourcesFor
<1> QED BY <1>2, <1>3 DEF Unmoved

LEMMA SameUser ==
  ASSUME NEW u \in Users, UNCHANGED templateVars, userStatus'[u] = userStatus[u],
         department'[u] = department[u], roleRows'[u] = roleRows[u], profile'[u] = profile[u]
  PROVE  Unmoved(u)
<1>1. \A s \in Sources : Applies(s, u)' <=> Applies(s, u)
  BY DEF Applies
<1> QED BY <1>1, UnmovedWhen DEF templateVars

LEMMA SameUsers ==
  ASSUME NEW u \in Users, UNCHANGED <<userVars, templateVars>>, profile'[u] = profile[u]
  PROVE  Unmoved(u)
BY SameUser DEF userVars

\* What request r may do to the profiles of u, other than to finish them: not
\* touch them, or go on to consolidate them, or make u inactive.
Follows(r, u) ==
  \/ Awaits(profReq'[r], u)
  \/ userStatus'[u] # "active"
  \/ Unmoved(u) /\ ~Awaits(profReq[r], u)

LEMMA IdleAwaitsNobody == \A q, u : q.next = "idle" => ~Awaits(q, u)
BY DEF Awaits, Consolidating

LEMMA BeginFollows ==
  ASSUME ProfilesInv, NEW r \in ProfRequests, NEW u \in Users,
         \/ SetUserStatus(r) \/ UpdateUser(r) \/ AssignUserRole(r) \/ AddRoleMembers(r)
         \/ BatchUsers(r) \/ CreateUser(r) \/ ConfirmUserImport(r) \/ ReconcileUser(r)
         \/ OwnerCheck(r)
  PROVE  Follows(r, u) /\ \E row : profReq' = [profReq EXCEPT ![r] = row]
<1>1. /\ UNCHANGED <<userVars, templateVars, profile>> /\ Idle(r)
      /\ \E row : profReq' = [profReq EXCEPT ![r] = row]
  BY DEF SetUserStatus, UpdateUser, AssignUserRole, AddRoleMembers, BatchUsers, CreateUser,
         ConfirmUserImport, ReconcileUser, OwnerCheck, Begin, Start
<1> QED BY <1>1, SameUsers, IdleAwaitsNobody DEF Follows, Idle

LEMMA RemoveRowsFollows ==
  ASSUME ProfilesInv, NEW r \in ProfRequests, NEW u \in Users, RemoveUserRole(r) \/ RemoveRoleMember(r)
  PROVE  Follows(r, u) /\ \E row : profReq' = [profReq EXCEPT ![r] = row]
<1>1. PICK v \in Users, role \in Roles : \E rows : RemoveRows(r, v, role, rows)
  BY DEF RemoveUserRole, RemoveRoleMember
<1> PICK left : RemoveRows(r, v, role, left)
  BY <1>1
<1>2. /\ Idle(r) /\ profReq' = [profReq EXCEPT ![r] = ForUser(v)]
      /\ UNCHANGED <<userStatus, department, templateVars, profile>>
      /\ roleRows' = [roleRows EXCEPT ![v][role] = left]
  BY DEF RemoveRows, Start
<1>3. CASE u = v
  <2>1. profReq'[r].user = u /\ profReq'[r].next = "read"
    BY <1>2, <1>3, RequestsFor DEF ProfilesInv, RequestsHold
  <2> QED BY <1>2, <2>1 DEF Follows, Awaits, Consolidating
<1>4. CASE u # v
  <2>1. roleRows'[u] = roleRows[u]
    BY <1>2, <1>4 DEF ProfilesInv, UsersTyped
  <2> QED BY <1>2, <2>1, SameUser, IdleAwaitsNobody DEF Follows, Idle
<1> QED BY <1>3, <1>4

LEMMA TakeNextFollows ==
  ASSUME ProfilesInv, NEW r \in ProfRequests, NEW u \in Users, NEW v \in Users, NEW step \in Steps,
         TakeNext(r, v, step), step = "idle" => profReq[r].task # "reconcile"
  PROVE  /\ \E row : profReq' = [profReq EXCEPT ![r] = row]
         /\ step \in Consolidating => Awaits(profReq'[r], v)
         /\ u # v /\ Awaits(profReq[r], u) => Awaits(profReq'[r], u)
         /\ UNCHANGED <<templateVars, profile>>
<1> DEFINE q == profReq[r]
           row == [q EXCEPT !.next = step, !.user = v, !.users = @ \ {v}]
<1>1. /\ profReq' = [profReq EXCEPT ![r] = row] /\ q \in ProfRequest /\ q.next = "take"
      /\ UNCHANGED <<templateVars, profile>> /\ profReq'[r] = row
  BY DEF TakeNext, ProfilesInv, RequestsHold, At
<1>2. row.next = step /\ row.user = v /\ row.users = q.users \ {v} /\ row.task = q.task
  BY <1>1 DEF ProfRequest
<1> HIDE DEF q, row
<1>3. step \in Consolidating => Awaits(row, v)
  BY <1>2 DEF Awaits
<1>4. u # v /\ Awaits(q, u) => Awaits(row, u)
  BY <1>1, <1>2 DEF Awaits, Consolidating, q
<1> QED BY <1>1, <1>3, <1>4 DEF q

LEMMA TakeFollows ==
  ASSUME ProfilesInv, NEW r \in ProfRequests, NEW u \in Users,
         TakeStatus(r) \/ TakeMove(r) \/ TakeBind(r) \/ TakeReconcile(r) \/ TakeImport(r)
  PROVE  Follows(r, u) /\ \E row : profReq' = [profReq EXCEPT ![r] = row]
<1> USE DEF ProfilesInv
<1>1. ASSUME NEW v \in Users, NEW step \in Consolidating, TakeNext(r, v, step),
             u # v => userStatus'[u] = userStatus[u] /\ department'[u] = department[u]
                      /\ roleRows'[u] = roleRows[u]
      PROVE  Follows(r, u) /\ \E row : profReq' = [profReq EXCEPT ![r] = row]
  <2>1. step \in Steps /\ step # "idle"
    BY DEF Steps, Consolidating
  <2>2. /\ \E row : profReq' = [profReq EXCEPT ![r] = row]
        /\ Awaits(profReq'[r], v) /\ (u # v /\ Awaits(profReq[r], u) => Awaits(profReq'[r], u))
        /\ UNCHANGED <<templateVars, profile>>
    BY <1>1, <2>1, TakeNextFollows
  <2>3. u # v => Unmoved(u)
    BY <1>1, <2>2, SameUser
  <2> QED BY <2>2, <2>3 DEF Follows
<1>2. CASE TakeStatus(r)
  <2>1. PICK v \in Users :
          /\ profReq[r].task \in UserStatuses /\ TakeNext(r, v, AfterStatus[profReq[r].task])
          /\ userStatus' = [userStatus EXCEPT ![v] = profReq[r].task]
          /\ UNCHANGED <<department, roleRows>>
    BY <1>2 DEF TakeStatus
  <2>2. u # v => userStatus'[u] = userStatus[u] /\ department'[u] = department[u]
                 /\ roleRows'[u] = roleRows[u]
    BY <2>1 DEF UsersTyped
  <2>3. CASE profReq[r].task = "active"
    <3>1. TakeNext(r, v, "enable")
      BY <2>1, <2>3 DEF AfterStatus
    <3> QED BY <1>1, <2>2, <3>1 DEF Consolidating
  <2>4. CASE profReq[r].task # "active"
    <3>1. AfterStatus[profReq[r].task] \in {"idle", "disable"} /\ profReq[r].task # "reconcile"
      BY <2>1, <2>4 DEF AfterStatus, UserStatuses
    <3>2. userStatus'[v] # "active"
      BY <2>1, <2>4 DEF UsersTyped
    <3>3. /\ \E row : profReq' = [profReq EXCEPT ![r] = row]
          /\ u # v /\ Awaits(profReq[r], u) => Awaits(profReq'[r], u)
          /\ UNCHANGED <<templateVars, profile>>
      BY <2>1, <3>1, TakeNextFollows DEF Steps
    <3>4. u # v => Unmoved(u)
      BY <2>2, <3>3, SameUser
    <3> QED BY <3>2, <3>3, <3>4 DEF Follows
  <2> QED BY <2>3, <2>4
<1>3. CASE TakeMove(r)
  <2>1. PICK v \in Users :
          /\ TakeNext(r, v, "read") /\ department' = [department EXCEPT ![v] = profReq[r].arg]
          /\ UNCHANGED <<userStatus, roleRows>>
    BY <1>3 DEF TakeMove
  <2>2. u # v => department'[u] = department[u]
    BY <2>1 DEF UsersTyped
  <2> QED BY <1>1, <2>1, <2>2 DEF Consolidating
<1>4. CASE TakeBind(r)
  <2>1. PICK v \in Users :
          /\ TakeNext(r, v, "read") /\ UNCHANGED <<userStatus, department>>
          /\ roleRows' = [roleRows EXCEPT ![v][profReq[r].arg] = @ + 1]
    BY <1>4 DEF TakeBind
  <2>2. u # v => roleRows'[u] = roleRows[u]
    BY <2>1 DEF UsersTyped
  <2> QED BY <1>1, <2>1, <2>2 DEF Consolidating
<1>5. CASE TakeReconcile(r)
  BY <1>1, <1>5 DEF TakeReconcile, userVars, Consolidating
<1>6. CASE TakeImport(r)
  <2>1. PICK v \in Users :
          /\ TakeNext(r, v, "bind_standard") /\ UNCHANGED roleRows
          /\ userStatus' = [userStatus EXCEPT ![v] = "active"]
          /\ department' = [department EXCEPT ![v] = profReq[r].arg]
    BY <1>6 DEF TakeImport
  <2>2. u # v => userStatus'[u] = userStatus[u] /\ department'[u] = department[u]
    BY <2>1 DEF UsersTyped
  <2> QED BY <1>1, <2>1, <2>2 DEF Consolidating
<1> QED BY <1>2, <1>3, <1>4, <1>5, <1>6

LEMMA LifecycleFollows ==
  ASSUME ProfilesInv, NEW r \in ProfRequests, NEW u \in Users,
         ImportStops(r) \/ BindStandardRole(r) \/ DisableManaged(r) \/ EnableManaged(r)
  PROVE  /\ \E row : profReq' = [profReq EXCEPT ![r] = row]
         /\ Follows(r, u) \/ (DisableManaged(r) /\ u = profReq[r].user)
<1> USE DEF ProfilesInv
<1> DEFINE q == profReq[r]
<1>1. q \in ProfRequest /\ profReq \in [ProfRequests -> ProfRequest]
  BY DEF RequestsHold
<1>2. CASE ImportStops(r)
  <2>1. /\ profReq' = [profReq EXCEPT ![r] = IdleProf] /\ UNCHANGED <<userVars, templateVars, profile>>
        /\ q.next = "take" /\ q.task = "import"
    BY <1>2 DEF ImportStops, At
  <2> QED BY <2>1, SameUsers DEF Follows, Awaits, Consolidating
<1>3. ASSUME NEW step \in AfterActive, Goto(r, step)
      PROVE  /\ profReq' = [profReq EXCEPT ![r] = [q EXCEPT !.next = step]]
             /\ q.next \notin {"list", "idle", "target"} /\ (Awaits(q, u) \/ u = q.user) => Awaits(profReq'[r], u)
  BY <1>1, <1>3 DEF Goto, Awaits, AfterActive, Consolidating, ProfRequest
<1>4. CASE BindStandardRole(r)
  <2>1. PICK step \in AfterActive : Goto(r, step)
    BY <1>4 DEF BindStandardRole
  <2>2. /\ q.next = "bind_standard" /\ UNCHANGED <<userStatus, department, templateVars, profile>>
        /\ u # q.user => roleRows'[u] = roleRows[u]
    BY <1>4 DEF BindStandardRole, At, UsersTyped
  <2>3. u # q.user => Unmoved(u)
    BY <2>2, SameUser
  <2> QED BY <1>3, <2>1, <2>2, <2>3 DEF Follows
<1>5. CASE EnableManaged(r)
  <2>1. PICK step \in AfterActive : Goto(r, step)
    BY <1>5 DEF EnableManaged
  <2>2. /\ q.next = "enable" /\ UNCHANGED <<userVars, templateVars>>
        /\ u # q.user => profile'[u] = profile[u]
    BY <1>5 DEF EnableManaged, At, SetManaged, RowsTyped
  <2>3. u # q.user => Unmoved(u)
    BY <2>2, SameUsers
  <2> QED BY <1>3, <2>1, <2>2, <2>3 DEF Follows
<1>6. CASE DisableManaged(r)
  <2>1. /\ q.next = "disable" /\ UNCHANGED <<userVars, templateVars>>
        /\ u # q.user => profile'[u] = profile[u]
        /\ profReq' = [profReq EXCEPT ![r] = Done(q)] /\ profReq'[r] = Done(q)
    BY <1>1, <1>6 DEF DisableManaged, At, SetManaged, RowsTyped
  <2>2. u # q.user => Unmoved(u)
    BY <2>1, SameUsers
  <2>3. Awaits(q, u) => Awaits(Done(q), u)
    BY <1>1, <2>1 DEF Awaits, Done, Consolidating, ProfRequest
  <2> QED BY <1>6, <2>1, <2>2, <2>3 DEF Follows
<1> QED BY <1>2, <1>4, <1>5, <1>6

LEMMA ConsolidationFollows ==
  ASSUME ProfilesInv, NEW r \in ProfRequests, NEW u \in Users,
         \/ ListUsers(r) \/ AssignRead(r) \/ AssignInsert(r) \/ ReadMatching(r)
         \/ UpsertProfile(r) \/ RecordSources(r) \/ Prune(r)
  PROVE  /\ \E row : profReq' = [profReq EXCEPT ![r] = row]
         /\ Follows(r, u) \/ (Prune(r) /\ u = profReq[r].user)
<1> USE DEF ProfilesInv
<1> DEFINE q == profReq[r]
<1>1. q \in ProfRequest /\ profReq \in [ProfRequests -> ProfRequest]
  BY DEF RequestsHold
<1>2. CASE ListUsers(r)
  <2>1. PICK us \in SUBSET Users :
          /\ us = {v \in Users : userStatus[v] = "active"}
          /\ profReq' = [profReq EXCEPT ![r] = IF us = {} THEN IdleProf ELSE ForUsers("reconcile", us, None)]
          /\ UNCHANGED <<userVars, templateVars, profile>>
    BY <1>2 DEF ListUsers
  <2>2. CASE u \in us
    <3>1. profReq'[r] = ForUsers("reconcile", us, None)
      BY <1>1, <2>1, <2>2
    <3>2. Awaits(profReq'[r], u)
      BY <2>2, <3>1, RequestsFor DEF Awaits
    <3> QED BY <2>1, <3>2 DEF Follows
  <2>3. CASE u \notin us
    BY <2>1, <2>3 DEF Follows, userVars
  <2> QED BY <2>1, <2>2, <2>3
\* The other statements but the last stay with the user.
<1>3. ASSUME NEW row, profReq' = [profReq EXCEPT ![r] = row], row.user = q.user, row.users = q.users,
             row.task = q.task, q.next \in Consolidating, row.next \in Consolidating,
             UNCHANGED <<userVars, templateVars>>, u # q.user => profile'[u] = profile[u]
      PROVE  Follows(r, u)
  <2>1. profReq'[r] = row
    BY <1>1, <1>3
  <2>2. Awaits(q, u) \/ u = q.user => Awaits(row, u)
    BY <1>3 DEF Awaits, Consolidating
  <2>3. u # q.user => Unmoved(u)
    BY <1>3, SameUsers
  <2> QED BY <2>1, <2>2, <2>3 DEF Follows
<1>4. CASE AssignRead(r)
  <2>1. PICK step \in {"read", "insert"} :
          \E ts : profReq' = [profReq EXCEPT ![r].next = step, ![r].found = ts]
    BY <1>4 DEF AssignRead
  <2> PICK found : profReq' = [profReq EXCEPT ![r].next = step, ![r].found = found]
    BY <2>1
  <2> DEFINE row == [q EXCEPT !.next = step, !.found = found]
  <2>2. /\ profReq' = [profReq EXCEPT ![r] = row] /\ row.user = q.user /\ row.users = q.users
        /\ row.task = q.task /\ row.next = step
    BY <1>1, <2>1 DEF ProfRequest
  <2>3. q.next = "assign" /\ UNCHANGED <<userVars, templateVars, profile>>
    BY <1>4 DEF AssignRead, At
  <2> HIDE DEF row
  <2> QED BY <1>3, <2>2, <2>3 DEF Consolidating
<1>5. CASE AssignInsert(r)
  <2>1. PICK p \in q.found, step \in {"read", "insert"} :
          profReq' = [profReq EXCEPT ![r].found = @ \ {p}, ![r].next = step]
    BY <1>5 DEF AssignInsert
  <2> DEFINE row == [q EXCEPT !.found = @ \ {p}, !.next = step]
  <2>2. /\ profReq' = [profReq EXCEPT ![r] = row] /\ row.user = q.user /\ row.users = q.users
        /\ row.task = q.task /\ row.next = step
    BY <1>1, <2>1 DEF ProfRequest
  <2>3. /\ q.next = "insert" /\ UNCHANGED <<userVars, templateVars>>
        /\ u # q.user => profile'[u] = profile[u]
    BY <1>5 DEF AssignInsert, At, RowsTyped
  <2> HIDE DEF row
  <2> QED BY <1>3, <2>2, <2>3 DEF Consolidating
<1>6. CASE ReadMatching(r)
  <2>1. PICK step \in {"prune", "upsert"} :
          \E ts : profReq' = [profReq EXCEPT ![r].next = step, ![r].found = ts]
    BY <1>6 DEF ReadMatching, NextTemplate
  <2> PICK found : profReq' = [profReq EXCEPT ![r].next = step, ![r].found = found]
    BY <2>1
  <2> DEFINE row == [q EXCEPT !.next = step, !.found = found]
  <2>2. /\ profReq' = [profReq EXCEPT ![r] = row] /\ row.user = q.user /\ row.users = q.users
        /\ row.task = q.task /\ row.next = step
    BY <1>1, <2>1 DEF ProfRequest
  <2>3. q.next = "read" /\ UNCHANGED <<userVars, templateVars, profile>>
    BY <1>6 DEF ReadMatching, At
  <2> HIDE DEF row
  <2> QED BY <1>3, <2>2, <2>3 DEF Consolidating
<1>7. CASE UpsertProfile(r)
  <2>1. PICK p \in q.found :
          profReq' = [profReq EXCEPT ![r].next = "record", ![r].at = p, ![r].found = @ \ {p}]
    BY <1>7 DEF UpsertProfile
  <2> DEFINE row == [q EXCEPT !.next = "record", !.at = p, !.found = @ \ {p}]
  <2>2. /\ profReq' = [profReq EXCEPT ![r] = row] /\ row.user = q.user /\ row.users = q.users
        /\ row.task = q.task /\ row.next = "record"
    BY <1>1, <2>1 DEF ProfRequest
  <2>3. /\ q.next = "upsert" /\ UNCHANGED <<userVars, templateVars>>
        /\ u # q.user => profile'[u] = profile[u]
    BY <1>7 DEF UpsertProfile, At, RowsTyped
  <2> HIDE DEF row
  <2> QED BY <1>3, <2>2, <2>3 DEF Consolidating
<1>8. CASE RecordSources(r)
  <2>1. PICK step \in {"prune", "upsert"} : profReq' = [profReq EXCEPT ![r].next = step, ![r].at = None]
    BY <1>8 DEF RecordSources, NextTemplate
  <2> DEFINE row == [q EXCEPT !.next = step, !.at = None]
  <2>2. /\ profReq' = [profReq EXCEPT ![r] = row] /\ row.user = q.user /\ row.users = q.users
        /\ row.task = q.task /\ row.next = step
    BY <1>1, <2>1 DEF ProfRequest
  <2>3. /\ q.next = "record" /\ UNCHANGED <<userVars, templateVars>>
        /\ u # q.user => profile'[u] = profile[u]
    BY <1>8 DEF RecordSources, At, RowsTyped
  <2> HIDE DEF row
  <2> QED BY <1>3, <2>2, <2>3 DEF Consolidating
<1>9. CASE Prune(r)
  <2>1. /\ q.next = "prune" /\ UNCHANGED <<userVars, templateVars>>
        /\ u # q.user => profile'[u] = profile[u]
        /\ profReq' = [profReq EXCEPT ![r] = Done(q)] /\ profReq'[r] = Done(q)
    BY <1>1, <1>9 DEF Prune, At, RowsTyped
  <2>2. u # q.user => Unmoved(u)
    BY <2>1, SameUsers
  <2>3. u # q.user /\ Awaits(q, u) => Awaits(Done(q), u)
    BY <1>1, <2>1 DEF Awaits, Done, Consolidating, ProfRequest
  <2> QED BY <1>9, <2>1, <2>2, <2>3 DEF Follows
<1> QED BY <1>2, <1>4, <1>5, <1>6, <1>7, <1>8, <1>9

LEMMA AssignFollows ==
  ASSUME ProfilesInv, NEW r \in ProfRequests, NEW u \in Users,
         \/ SetTemplateStatus(r) \/ AssignTemplate(r) \/ UnassignTemplate(r)
         \/ InsertTarget(r) \/ AssignStops(r)
  PROVE  /\ \E row : profReq' = [profReq EXCEPT ![r] = row]
         /\ \/ Follows(r, u)
            \/ AssignStops(r) /\ (profReq[r].users = {} \/ u \in profReq[r].users)
<1> USE DEF ProfilesInv
<1>1. ASSUME profReq' = [profReq EXCEPT ![r] = ForAll] PROVE Awaits(profReq'[r], u)
  BY <1>1, RequestsFor DEF RequestsHold, Awaits
<1>2. CASE SetTemplateStatus(r)
  BY <1>1, <1>2 DEF SetTemplateStatus, Start, Follows
<1>3. CASE AssignTemplate(r)
  <2>1. /\ UNCHANGED <<userVars, templateVars, profile>> /\ Idle(r)
        /\ \E row : profReq' = [profReq EXCEPT ![r] = row]
    BY <1>3 DEF AssignTemplate, Begin, Start
  <2> QED BY <2>1, SameUsers, IdleAwaitsNobody DEF Follows, Idle
\* What becomes of the bindings of the users us, or of everybody.
<1>4. ASSUME NEW us \in SUBSET Users, NEW targets \in SUBSET (Templates \X Sources), Covers(us, targets),
             NEW b \in Templates \X Sources, us = {} \/ b[2] \in us,
             profReq' = [profReq EXCEPT ![r] = Assigning(us, targets)],
             bindings' \in {bindings, bindings \cup {b}, bindings \ {b}},
             UNCHANGED <<userVars, templateStatus, templateName, profile>>
      PROVE  Awaits(profReq'[r], u) \/ (Unmoved(u) /\ us # {} /\ u \notin us)
  <2>1. profReq'[r] = Assigning(us, targets)
    BY <1>4 DEF RequestsHold
  <2>2. us = {} \/ u \in us => Awaits(profReq'[r], u)
    BY <1>4, <2>1, AssigningHolds DEF Awaits
  <2>3. ASSUME us # {}, u \notin us PROVE Unmoved(u)
    <3>1. ~Applies(b[2], u)
      BY <1>4, <2>3, KindsOfTargets DEF Applies, UsersTyped
    <3>2. \A x \in Sources : Applies(x, u)' <=> Applies(x, u)
      BY <1>4 DEF Applies, userVars
    <3>3. \A x \in Sources, y \in Templates : <<y, x>> = b => x = b[2]
      OBVIOUS
    <3>4. \A x \in Sources : \A y \in Templates :
            <<y, x>> \in bindings' /\ Applies(x, u) <=> <<y, x>> \in bindings /\ Applies(x, u)
      BY <1>4, <3>1, <3>3
    <3> QED BY <1>4, <3>2, <3>4, UnmovedWhen DEF userVars
  <2> QED BY <2>2, <2>3
<1>5. CASE UnassignTemplate(r)
  <2>1. PICK t \in Templates, s \in Sources :
          /\ Start(r, ForTargets({s} \cap Users)) /\ bindings' \in {bindings, bindings \ {<<t, s>>}}
          /\ UNCHANGED <<userVars, templateStatus, templateName, profile>>
    BY <1>5 DEF UnassignTemplate
  <2>2. profReq' = [profReq EXCEPT ![r] = Assigning({s} \cap Users, {})] /\ Idle(r)
    BY <2>1 DEF Start, Assigning
  <2>3. Awaits(profReq'[r], u) \/ Unmoved(u)
    <3>1. /\ {s} \cap Users \in SUBSET Users /\ Covers({s} \cap Users, {})
          /\ <<t, s>> \in Templates \X Sources
          /\ {s} \cap Users = {} \/ <<t, s>>[2] \in {s} \cap Users
      BY DEF Covers
    <3> QED BY <1>4, <2>1, <2>2, <3>1
  <2> QED BY <2>2, <2>3, IdleAwaitsNobody DEF Follows, Idle
<1>6. CASE InsertTarget(r)
  <2>1. PICK b \in profReq[r].targets :
          /\ profReq' = [profReq EXCEPT ![r] = Assigning(@.users, @.targets \ {b})]
          /\ bindings' = bindings \cup {b} /\ At(r, "target")
          /\ UNCHANGED <<userVars, templateStatus, templateName, profile>>
    BY <1>6 DEF InsertTarget
  <2>2. PICK us \in SUBSET Users, targets \in SUBSET (Templates \X Sources) :
          us = profReq[r].users /\ targets = profReq[r].targets /\ Covers(us, targets)
    BY <2>1 DEF At, RequestsHold, Holds, ProfRequest
  <2>3. profReq' = [profReq EXCEPT ![r] = Assigning(us, targets \ {b})]
    BY <2>1, <2>2 DEF RequestsHold
  <2>4. Covers(us, targets \ {b}) /\ (us = {} \/ b[2] \in us) /\ b \in Templates \X Sources
    BY <2>1, <2>2 DEF Covers
  <2>5. Awaits(profReq'[r], u) \/ (Unmoved(u) /\ us # {} /\ u \notin us)
    BY <1>4, <2>1, <2>3, <2>4
  <2>6. us # {} /\ u \notin us => ~Awaits(profReq[r], u)
    BY <2>1, <2>2 DEF Awaits, At, Consolidating
  <2> QED BY <2>3, <2>5, <2>6 DEF Follows
<1>7. CASE AssignStops(r)
  <2>1. /\ profReq' = [profReq EXCEPT ![r] = IdleProf] /\ At(r, "target")
        /\ UNCHANGED <<userVars, templateVars, profile>>
    BY <1>7 DEF AssignStops
  <2>2. Awaits(profReq[r], u) => profReq[r].users = {} \/ u \in profReq[r].users
    BY <2>1 DEF Awaits, At, Consolidating
  <2>3. Unmoved(u)
    BY <2>1, SameUsers
  <2>4. Follows(r, u) \/ Awaits(profReq[r], u)
    BY <2>3 DEF Follows
  <2> QED BY <1>7, <2>1, <2>2, <2>4
<1> QED BY <1>2, <1>3, <1>5, <1>6, <1>7 DEF SetTemplateStatus, Start

\* What r does to its user in the last step of its work on him.
Finishes(r, u) ==
  \/ u = profReq[r].user /\ (DisableManaged(r) \/ Prune(r) \/ OwnerEdit(r) \/ OwnerRemove(r))
  \/ AssignStops(r) /\ (profReq[r].users = {} \/ u \in profReq[r].users)

LEMMA OwnerFollows ==
  ASSUME ProfilesInv, NEW r \in ProfRequests, NEW u \in Users, OwnerEdit(r) \/ OwnerRemove(r)
  PROVE  /\ \A p \in ProfRequests \ {r} : profReq'[p] \in {profReq[p], IdleProf}
         /\ \A p \in ProfRequests \ {r} : At(p, "owner") \/ profReq'[p] = profReq[p]
         /\ profReq'[r] = IdleProf
         /\ Follows(r, u) \/ Finishes(r, u)
<1> USE DEF ProfilesInv
<1> DEFINE v == profReq[r].user
           n == profReq[r].arg
<1>1. profReq[r].next = "owner" /\ v \in Users /\ n \in Names /\ profReq[r].task \in {"edit", "remove"}
  BY DEF OwnerEdit, OwnerRemove, At, RequestsHold, Holds
<1>2. UNCHANGED <<userVars, templateVars>> /\ \E row : profile' = [profile EXCEPT ![v][n] = row]
  BY DEF OwnerEdit, OwnerRemove, WithProfile
<1>3. u # v => Unmoved(u)
  <2>1. u # v => profile'[u] = profile[u]
    BY <1>2 DEF RowsTyped
  <2> QED BY <1>2, <2>1, SameUsers
<1>4. ~Awaits(profReq[r], u)
  BY <1>1 DEF Awaits, Consolidating
<1>5. Follows(r, u) \/ Finishes(r, u)
  BY <1>3, <1>4 DEF Follows, Finishes
<1>6. /\ \A p \in ProfRequests \ {r} : profReq'[p] \in {profReq[p], IdleProf}
      /\ \A p \in ProfRequests \ {r} : At(p, "owner") \/ profReq'[p] = profReq[p]
      /\ profReq'[r] = IdleProf
  <2>1. CASE OwnerEdit(r)
    BY <2>1 DEF OwnerEdit, RequestsHold
  <2>2. CASE OwnerRemove(r)
    BY <1>1, <2>2 DEF OwnerRemove, Forget, At
  <2> QED BY <2>1, <2>2
<1> QED BY <1>5, <1>6

\* Steps of requests, and steps that are done at once.
RequestStep(r) ==
  \/ SetUserStatus(r) \/ UpdateUser(r) \/ AssignUserRole(r) \/ AddRoleMembers(r)
  \/ BatchUsers(r) \/ CreateUser(r) \/ ConfirmUserImport(r)
  \/ ReconcileUser(r) \/ RemoveUserRole(r) \/ RemoveRoleMember(r)
  \/ TakeStatus(r) \/ TakeMove(r) \/ TakeBind(r) \/ TakeReconcile(r)
  \/ TakeImport(r) \/ ImportStops(r) \/ BindStandardRole(r)
  \/ DisableManaged(r) \/ EnableManaged(r)
  \/ ListUsers(r) \/ AssignRead(r) \/ AssignInsert(r) \/ ReadMatching(r)
  \/ UpsertProfile(r) \/ RecordSources(r) \/ Prune(r)
  \/ SetTemplateStatus(r) \/ AssignTemplate(r) \/ UnassignTemplate(r)
  \/ InsertTarget(r) \/ AssignStops(r) \/ OwnerCheck(r) \/ OwnerEdit(r) \/ OwnerRemove(r)
AtOnce ==
  \/ CreateTemplate \/ RenameTemplate \/ BindTemplate
  \/ CreateProfile \/ CreatePersonalAgent \/ SetProfileStatus \/ DeleteProfile

LEMMA ProfilesNextIs == ProfilesNext => RestartProf \/ AtOnce \/ \E r \in ProfRequests : RequestStep(r)
BY DEF ProfilesNext, RequestStep, AtOnce

LEMMA RequestFollows ==
  ASSUME ProfilesInv, NEW r \in ProfRequests, NEW u \in Users, RequestStep(r)
  PROVE  /\ \A p \in ProfRequests \ {r} :
              profReq'[p] = profReq[p] \/ (At(p, "owner") /\ profReq'[p] = IdleProf)
         /\ \A p \in ProfRequests \ {r} : profReq'[p] = profReq[p] \/ OwnerEdit(r) \/ OwnerRemove(r)
         /\ Follows(r, u) \/ Finishes(r, u)
<1>1. CASE OwnerEdit(r) \/ OwnerRemove(r)
  BY <1>1, OwnerFollows
<1>2. ASSUME \E row : profReq' = [profReq EXCEPT ![r] = row]
      PROVE  \A p \in ProfRequests \ {r} : profReq'[p] = profReq[p]
  BY <1>2 DEF ProfilesInv, RequestsHold
<1>3. CASE \/ SetUserStatus(r) \/ UpdateUser(r) \/ AssignUserRole(r) \/ AddRoleMembers(r)
           \/ BatchUsers(r) \/ CreateUser(r) \/ ConfirmUserImport(r) \/ ReconcileUser(r)
           \/ OwnerCheck(r)
  BY <1>2, <1>3, BeginFollows
<1>4. CASE RemoveUserRole(r) \/ RemoveRoleMember(r)
  BY <1>2, <1>4, RemoveRowsFollows
<1>5. CASE TakeStatus(r) \/ TakeMove(r) \/ TakeBind(r) \/ TakeReconcile(r) \/ TakeImport(r)
  BY <1>2, <1>5, TakeFollows
<1>6. CASE ImportStops(r) \/ BindStandardRole(r) \/ DisableManaged(r) \/ EnableManaged(r)
  BY <1>2, <1>6, LifecycleFollows DEF Finishes
<1>7. CASE \/ ListUsers(r) \/ AssignRead(r) \/ AssignInsert(r) \/ ReadMatching(r)
           \/ UpsertProfile(r) \/ RecordSources(r) \/ Prune(r)
  BY <1>2, <1>7, ConsolidationFollows DEF Finishes
<1>8. CASE \/ SetTemplateStatus(r) \/ AssignTemplate(r) \/ UnassignTemplate(r)
           \/ InsertTarget(r) \/ AssignStops(r)
  BY <1>2, <1>8, AssignFollows DEF Finishes
<1> QED BY <1>1, <1>3, <1>4, <1>5, <1>6, <1>7, <1>8 DEF RequestStep

-----------------------------------------------------------------------------
(* No profile without a source.                                              *)

\* An active managed profile that no source gives the user.
Unearned(u, n) ==
  profile[u][n].managed /\ profile[u][n].status = "active" /\ profile[u][n].template \notin Matching(u)

\* Whoever has one is going to be consolidated.
UnearnedAwaited(u) ==
  u \notin handled /\ userStatus[u] = "active" /\ (\E n \in Names : Unearned(u, n))
    => \E r \in ProfRequests : Awaits(profReq[r], u)

EarnedInv == ProfilesInv /\ \A u \in Users : UnearnedAwaited(u)

LEMMA UnmovedUnearned ==
  ASSUME NEW u, Unmoved(u)
  PROVE  \A n : Unearned(u, n)' <=> Unearned(u, n)
BY DEF Unmoved, Unearned

\* Seeded profiles have the standard role as their source.
LEMMA InitEarned ==
  ASSUME ProfilesInit, NEW u \in Users, NEW n \in Names
  PROVE  ~Unearned(u, n)
<1> DEFINE named == {t \in DOMAIN SeededName : SeededName[t] = n}
           t == CHOOSE t \in DOMAIN SeededName : SeededName[t] = n
<1>1. CASE u \in SeededUsers /\ named # {}
  <2>1. t \in DOMAIN SeededName /\ profile[u][n].template = t
    BY <1>1 DEF ProfilesInit
  <2> HIDE DEF t
  <2>2. t \in Templates /\ templateStatus[t] = "active"
    BY <2>1, Seeds DEF ProfilesInit
  <2>3. Applies(StandardRole, u) /\ StandardRole \in Sources /\ <<t, StandardRole>> \in bindings
    BY <1>1, <2>1, StandardRoleExists DEF ProfilesInit, Applies, Sources
  <2>4. t \in Matching(u)
    BY <2>2, <2>3 DEF Matching, SourcesOf
  <2> QED BY <2>1, <2>4 DEF Unearned
<1>2. CASE ~(u \in SeededUsers /\ named # {})
  <2>1. profile[u][n] = NoProfile
    BY <1>2 DEF ProfilesInit
  <2> QED BY <2>1 DEF NoProfile, Unearned
<1> QED BY <1>1, <1>2

\* While one request works the others stay where they are, so whoever awaits a
\* consolidation by another still does.
LEMMA OthersAwait ==
  ASSUME ProfilesInv, NEW u \in Users, NEW p \in ProfRequests, Awaits(profReq[p], u),
         profReq'[p] = profReq[p] \/ (At(p, "owner") /\ profReq'[p] = IdleProf)
  PROVE  Awaits(profReq'[p], u)
<1>1. ~At(p, "owner")
  BY DEF Awaits, At, Consolidating, ProfilesInv, RequestsHold, Holds
<1> QED BY <1>1

\* The last statements of a request leave no such profile behind.
LEMMA FinishedEarned ==
  ASSUME ProfilesInv, NEW r \in ProfRequests, NEW u \in Users, NEW n \in Names,
         DisableManaged(r) \/ Prune(r), u = profReq[r].user
  PROVE  ~Unearned(u, n)'
<1> USE DEF ProfilesInv
<1>1. profile[u][n] \in ProfileRow /\ profile \in [Users -> [Names -> ProfileRow]]
  BY DEF RowsTyped
<1>2. CASE DisableManaged(r)
  <2>1. profile'[u][n] = IF profile[u][n].managed THEN [profile[u][n] EXCEPT !.status = "disabled"]
                                                  ELSE profile[u][n]
    BY <1>1, <1>2 DEF DisableManaged, SetManaged
  <2> QED BY <1>1, <2>1 DEF Unearned, ProfileRow
<1>3. CASE Prune(r)
  <2>1. profile'[u] = PruneManaged(profile[u], u) /\ UNCHANGED <<userVars, templateVars>>
    BY <1>1, <1>3 DEF Prune
  <2>2. profile'[u][n] = IF profile[u][n].managed /\ profile[u][n].template \notin Matching(u)
                         THEN [profile[u][n] EXCEPT !.status = "disabled"] ELSE profile[u][n]
    BY <2>1 DEF PruneManaged
  <2>3. Matching(u)' = Matching(u)
    BY <2>1 DEF Matching, SourcesOf, Applies, userVars, templateVars
  <2> QED BY <1>1, <2>2, <2>3 DEF Unearned, ProfileRow
<1> QED BY <1>2, <1>3

\* An owner changes a managed profile only by an edit that was checked before it
\* became one.
LEMMA OwnerUnearned ==
  ASSUME ProfilesInv, NEW r \in ProfRequests, NEW u \in Users, NEW n \in Names,
         OwnerEdit(r) \/ OwnerRemove(r), u = profReq[r].user, u \notin StaleWrites, Unearned(u, n)'
  PROVE  Unearned(u, n) /\ ~Awaits(profReq[r], u) /\ UNCHANGED userStatus
<1> USE DEF ProfilesInv
<1> DEFINE m == profReq[r].arg
<1>1. At(r, "owner") /\ m \in Names /\ profReq[r].task \in {"edit", "remove"}
  BY DEF OwnerEdit, OwnerRemove, At, RequestsHold, Holds
<1>2. UNCHANGED <<userVars, templateVars>> /\ \E row : profile' = [profile EXCEPT ![u][m] = row]
  BY <1>1 DEF OwnerEdit, OwnerRemove, WithProfile
<1>3. profile[u][m].managed => profile'[u][m] = profile[u][m]
  BY <1>1 DEF StaleWrites
<1>4. ~profile[u][m].managed => ~profile'[u][m].managed
  <2>1. CASE OwnerEdit(r)
    <3>1. PICK st \in {"active", "disabled"} :
            profile' = [profile EXCEPT ![u][m] = [profile[u][m] EXCEPT !.status = st]]
      BY <2>1 DEF OwnerEdit, WithProfile
    <3>2. profile'[u][m] = [profile[u][m] EXCEPT !.status = st] /\ profile[u][m] \in ProfileRow
      BY <1>1, <3>1 DEF RowsTyped
    <3> QED BY <3>2 DEF ProfileRow
  <2>2. CASE OwnerRemove(r)
    BY <1>1, <2>2 DEF OwnerRemove, WithProfile, RowsTyped, NoProfile
  <2> QED BY <2>1, <2>2
<1>5. n # m => profile'[u][n] = profile[u][n]
  BY <1>1, <1>2 DEF RowsTyped
<1>6. Matching(u)' = Matching(u)
  BY <1>2 DEF Matching, SourcesOf, Applies, userVars, templateVars
<1>7. Unearned(u, n)
  BY <1>3, <1>4, <1>5, <1>6 DEF Unearned
<1>8. ~Awaits(profReq[r], u)
  BY <1>1 DEF Awaits, At, Consolidating
<1> QED BY <1>2, <1>7, <1>8 DEF userVars

LEMMA RequestRestartsNothing ==
  ASSUME NEW r \in ProfRequests, RequestStep(r)
  PROVE  profRestarts' = profRestarts
BY DEF RequestStep, SetUserStatus, UpdateUser, AssignUserRole, AddRoleMembers, BatchUsers, CreateUser,
   ConfirmUserImport, ReconcileUser, Begin, RemoveUserRole, RemoveRoleMember, RemoveRows, TakeStatus,
   TakeMove, TakeBind, TakeReconcile, TakeImport, TakeNext, ImportStops, BindStandardRole, DisableManaged,
   EnableManaged, ListUsers, AssignRead, AssignInsert, ReadMatching, UpsertProfile, RecordSources, Prune,
   SetTemplateStatus, AssignTemplate, UnassignTemplate, InsertTarget, AssignStops,
   OwnerCheck, OwnerEdit, OwnerRemove, WithProfile

\* An assignment that stops marks whom it may have reached.
LEMMA StoppedByHand ==
  ASSUME ProfilesInv, NEW r \in ProfRequests, NEW u \in Users, AssignStops(r),
         profReq[r].users = {} \/ u \in profReq[r].users
  PROVE  u \in ByHand
<1>1. profReq'[r] = IdleProf /\ At(r, "target") /\ ~Booted
  BY DEF AssignStops, ProfilesInv, RequestsHold, Booted
<1> QED BY <1>1 DEF ByHand, Abandoned

LEMMA RequestEarned ==
  ASSUME ProfilesInv, NEW r \in ProfRequests, NEW u \in Users, RequestStep(r), UnearnedAwaited(u),
         profRestarts' = profRestarts, handled' = (handled \ Reconciled) \cup ByHand
  PROVE  UnearnedAwaited(u)'
<1> SUFFICES ASSUME NEW n \in Names, u \notin handled', userStatus'[u] = "active", Unearned(u, n)',
                    ~Awaits(profReq'[r], u)
             PROVE  \E p \in ProfRequests : Awaits(profReq'[p], u)
  BY DEF UnearnedAwaited
<1>1. u \notin ByHand /\ (u \notin handled \/ u \in Reconciled)
  OBVIOUS
<1>6. ~(AssignStops(r) /\ (profReq[r].users = {} \/ u \in profReq[r].users))
  BY <1>1, StoppedByHand
<1>2. /\ \A p \in ProfRequests \ {r} :
           profReq'[p] = profReq[p] \/ (At(p, "owner") /\ profReq'[p] = IdleProf)
      /\ Follows(r, u) \/ Finishes(r, u)
  BY RequestFollows
<1>3. Unearned(u, n) /\ ~Awaits(profReq[r], u) /\ userStatus[u] = "active"
  <2>1. CASE Follows(r, u)
    BY <2>1, UnmovedUnearned DEF Follows, Unmoved
  <2>2. CASE Finishes(r, u)
    BY <1>1, <1>6, <2>2, FinishedEarned, OwnerUnearned DEF Finishes, ByHand
  <2> QED BY <1>2, <2>1, <2>2
<1>4. u \notin handled
  <2>1. ASSUME NEW p \in ProfRequests, At(p, "prune"), profReq[p].user = u, profReq'[p] # profReq[p]
        PROVE  FALSE
    BY <1>2, <1>3, <2>1 DEF At, Awaits, Consolidating
  <2> QED BY <1>1, <2>1 DEF Reconciled, Booted
<1>5. PICK p \in ProfRequests : Awaits(profReq[p], u)
  BY <1>3, <1>4 DEF UnearnedAwaited
<1> QED BY <1>2, <1>3, <1>5, OthersAwait

\* What is changed at once and not to be consolidated marks those it concerns.
LEMMA AtOnceUnmoved ==
  ASSUME ProfilesInv, NEW u \in Users, AtOnce, u \notin ByHand
  PROVE  /\ Unmoved(u) /\ UNCHANGED profRestarts
         /\ \A p \in ProfRequests : profReq'[p] = profReq[p] \/ (At(p, "owner") /\ profReq'[p] = IdleProf)
<1> USE DEF ProfilesInv
<1>1. /\ templateName' = templateName /\ (bindings' = bindings \/ profReq' # profReq)
      /\ profile'[u] = profile[u] \/ calls' = calls
  BY DEF ByHand
<1>2. ASSUME Serve PROVE calls' # calls
  BY <1>2 DEF Serve, CountsTyped
<1>3. CASE CreateTemplate
  <2>1. PICK t \in Templates, n \in Names :
          templateStatus[t] = "none" /\ templateName' = [templateName EXCEPT ![t] = n]
    BY <1>3 DEF CreateTemplate
  <2>2. templateName'[t] = n /\ templateName[t] = None
    BY <2>1 DEF TemplatesTyped, TemplatesNamed
  <2> QED BY <1>1, <2>2, Seeds
<1>4. CASE RenameTemplate
  BY <1>1, <1>4, SameUsers DEF RenameTemplate, templateVars
<1>5. CASE BindTemplate
  <2>1. /\ profReq' = profReq /\ bindings' = bindings
        /\ UNCHANGED <<userVars, templateStatus, templateName, profile, profRestarts>>
    BY <1>1, <1>5 DEF BindTemplate
  <2> QED BY <2>1, SameUsers DEF templateVars
<1>6. CASE CreateProfile \/ CreatePersonalAgent \/ SetProfileStatus \/ DeleteProfile
  <2>1. /\ Serve /\ UNCHANGED <<userVars, templateVars, profRestarts>>
        /\ profReq' = profReq \/ \E v \in Users, n \in Names : Forget(v, n)
    BY <1>6 DEF CreateProfile, CreatePersonalAgent, SetProfileStatus, DeleteProfile, NewProfile, WithProfile
  <2>2. profile'[u] = profile[u]
    BY <1>1, <1>2, <2>1
  <2> QED BY <2>1, <2>2, SameUsers DEF Forget
<1> QED BY <1>3, <1>4, <1>5, <1>6 DEF AtOnce

LEMMA AtOnceEarned ==
  ASSUME ProfilesInv, NEW u \in Users, UnearnedAwaited(u), u \notin ByHand,
         handled' = (handled \ Reconciled) \cup ByHand, Unmoved(u), UNCHANGED profRestarts,
         \A p \in ProfRequests : profReq'[p] = profReq[p] \/ (At(p, "owner") /\ profReq'[p] = IdleProf)
  PROVE  UnearnedAwaited(u)'
<1>1. u \notin Reconciled
  BY DEF Reconciled, Booted, At
<1>2. (\E n \in Names : Unearned(u, n)') => \E n \in Names : Unearned(u, n)
  BY UnmovedUnearned
<1>3. \A p \in ProfRequests : Awaits(profReq[p], u) => Awaits(profReq'[p], u)
  BY OthersAwait
<1> QED BY <1>1, <1>2, <1>3 DEF UnearnedAwaited, Unmoved

LEMMA RestartEarned ==
  ASSUME ProfilesInv, NEW u \in Users, RestartProf
  PROVE  UnearnedAwaited(u)'
<1> SUFFICES ASSUME NEW n \in Names, userStatus'[u] = "active", Unearned(u, n)'
             PROVE  FALSE
  BY DEF UnearnedAwaited
<1>1. profile[u] \in [Names -> ProfileRow] /\ userStatus[u] = "active"
  BY DEF ProfilesInv, RowsTyped, RestartProf
<1>2. profile'[u] = Merged(profile[u], Matching(u)', templateName', SourcesFor(u)')
  BY <1>1, BootConsolidates
<1> DEFINE row == Merged(profile[u], Matching(u)', templateName', SourcesFor(u)')[n]
<1>3. row.managed /\ row.status = "active" => row.template \in Matching(u)'
  BY <1>1, MergedAt, ConsolidatedMerges
<1> QED BY <1>2, <1>3 DEF Unearned

LEMMA EarnedStep ==
  ASSUME EarnedInv, [MCNext]_dirVars
  PROVE  EarnedInv'
<1>1. ASSUME UNCHANGED profVars PROVE ProfilesInv'
  BY <1>1, SameTables DEF profVars, ProfilesInv, EarnedInv
<1>2. ASSUME NEW u \in Users, UNCHANGED profVars
      PROVE  Unmoved(u) /\ UNCHANGED <<profRestarts, profReq, userVars>>
  BY <1>2, SameUsers DEF profVars
<1>3. CASE UNCHANGED dirVars
  <2>1. UNCHANGED <<profVars, handled>>
    BY <1>3 DEF dirVars
  <2>2. ASSUME NEW u \in Users PROVE UnearnedAwaited(u)'
    BY <1>2, <2>1, UnmovedUnearned DEF EarnedInv, UnearnedAwaited, userVars
  <2> QED BY <1>1, <2>1, <2>2 DEF EarnedInv
<1>4. CASE MCNext
  <2>1. handled' = (handled \ Reconciled) \cup ByHand /\ (ProfilesNext \/ UNCHANGED profVars)
    BY <1>4 DEF MCNext
  <2>2. ProfilesInv /\ ProfilesInv'
    BY <1>1, <2>1, ProfilesStep DEF EarnedInv
  <2>3. ASSUME NEW u \in Users PROVE UnearnedAwaited(u)'
    <3>1. UnearnedAwaited(u) /\ (u \in ByHand => UnearnedAwaited(u)')
      BY <2>1 DEF EarnedInv, UnearnedAwaited
    <3>2. CASE UNCHANGED profVars
      BY <1>2, <2>1, <2>2, <3>1, <3>2, AtOnceEarned
    <3>3. CASE RestartProf
      BY <2>2, <3>3, RestartEarned
    <3>4. CASE AtOnce
      BY <2>1, <2>2, <3>1, <3>4, AtOnceUnmoved, AtOnceEarned
    <3>5. ASSUME NEW r \in ProfRequests, RequestStep(r) PROVE UnearnedAwaited(u)'
      BY <2>1, <2>2, <3>1, <3>5, RequestEarned, RequestRestartsNothing
    <3> QED BY <2>1, <3>2, <3>3, <3>4, <3>5, ProfilesNextIs
  <2> QED BY <2>2, <2>3 DEF EarnedInv
<1> QED BY <1>3, <1>4

LEMMA EarnedInductive == MCSpec => []EarnedInv
<1>1. MCInit => EarnedInv
  BY InitProfiles, InitEarned DEF MCInit, EarnedInv, UnearnedAwaited
<1>2. EarnedInv /\ [MCNext]_dirVars => EarnedInv'
  BY EarnedStep
<1> QED BY <1>1, <1>2, PTL DEF MCSpec, dirVars

\* However many requests change users, roles, templates and profiles at once,
\* wherever the server is stopped: when all are served, no active user keeps an
\* active managed profile without a source, but after a change by hand.
\* (consolidateManagedAgents and the handlers that call it)
THEOREM ProfilesEarned == MCSpec => []NoUnearnedProfile
<1>1. EarnedInv => NoUnearnedProfile
  <2> SUFFICES ASSUME EarnedInv, Quiet, NEW u \in Users, NEW n \in Names, u \notin handled,
                      userStatus[u] = "active", Unearned(u, n)
               PROVE  FALSE
    BY DEF NoUnearnedProfile, Unearned
  <2> QED BY IdleAwaitsNobody DEF EarnedInv, UnearnedAwaited, Quiet, Idle
<1> QED BY <1>1, EarnedInductive, PTL

-----------------------------------------------------------------------------
(* Types of the policies.                                                    *)

LEMMA InsertAtTyped ==
  ASSUME NEW S, NEW s \in Seq(S), NEW i \in 1..Len(s) + 1, NEW row \in S
  PROVE  InsertAt(s, i, row) \in Seq(S)
BY DEF InsertAt

LEMMA SelfServiceTyped ==
  ASSUME PoliciesTypeOK, SelfServiceNext
  PROVE  PoliciesTypeOK'
<1>1. /\ selfPolicies' \in Seq(SelfPolicy)
      /\ UNCHANGED <<accessPolicies, kbBindings, skillVars, templatePolicyVars>>
  <2>1. CASE CreateSelfServicePolicy
    BY <2>1, InsertAtTyped DEF CreateSelfServicePolicy, PoliciesTypeOK, kbVars
  <2>2. CASE UpdateSelfServicePolicy
    BY <2>2 DEF UpdateSelfServicePolicy, PoliciesTypeOK, kbVars
  <2> QED BY <2>1, <2>2 DEF SelfServiceNext
<1> QED BY <1>1 DEF PoliciesTypeOK, skillVars, templatePolicyVars

LEMMA KnowledgeTyped ==
  ASSUME PoliciesTypeOK, KnowledgeNext
  PROVE  PoliciesTypeOK'
<1>1. /\ accessPolicies' \in Seq(AccessPolicy) /\ kbBindings' \subseteq KbBinding
      /\ UNCHANGED <<selfPolicies, skillVars, templatePolicyVars>>
  <2>1. CASE SaveKnowledgePolicy
    <3>1. PICK row \in AccessPolicy :
            \/ \E i \in DOMAIN accessPolicies : accessPolicies' = [accessPolicies EXCEPT ![i] = row]
            \/ \E i \in 1..Len(accessPolicies) + 1 : accessPolicies' = InsertAt(accessPolicies, i, row)
      BY <2>1 DEF SaveKnowledgePolicy
    <3>2. accessPolicies' \in Seq(AccessPolicy)
      <4>1. accessPolicies \in Seq(AccessPolicy)
        BY DEF PoliciesTypeOK
      <4>2. CASE \E i \in 1..Len(accessPolicies) + 1 : accessPolicies' = InsertAt(accessPolicies, i, row)
        BY <4>1, <4>2, InsertAtTyped
      <4>3. CASE \E i \in DOMAIN accessPolicies : accessPolicies' = [accessPolicies EXCEPT ![i] = row]
        BY <4>1, <4>3
      <4> QED BY <3>1, <4>2, <4>3
    <3> QED BY <2>1, <3>2 DEF SaveKnowledgePolicy, PoliciesTypeOK
  <2>2. CASE BindKnowledge \/ UnbindKnowledge
    BY <2>2 DEF BindKnowledge, UnbindKnowledge, PoliciesTypeOK
  <2> QED BY <2>1, <2>2 DEF KnowledgeNext
<1> QED BY <1>1 DEF PoliciesTypeOK, skillVars, templatePolicyVars

LEMMA SkillsTyped ==
  ASSUME PoliciesTypeOK, SkillsNext
  PROVE  PoliciesTypeOK'
<1>1. CASE SetTemplateSkill
  BY <1>1 DEF SetTemplateSkill, PoliciesTypeOK, kbVars, templatePolicyVars
<1>2. CASE InstallSkill
  BY <1>2 DEF InstallSkill, PoliciesTypeOK, kbVars, templatePolicyVars
<1> QED BY <1>1, <1>2 DEF SkillsNext

LEMMA TemplatesStepTyped ==
  ASSUME PoliciesTypeOK, TemplatesNext
  PROVE  PoliciesTypeOK'
<1>1. CASE WriteRuntimeTemplate
  BY <1>1 DEF WriteRuntimeTemplate, PoliciesTypeOK, kbVars, skillVars
<1>2. CASE DemoteRivals
  BY <1>2, PolicyBounds DEF DemoteRivals, PoliciesTypeOK, kbVars, skillVars
<1>3. CASE SetRuntimeTemplateStatus
  BY <1>3 DEF SetRuntimeTemplateStatus, PoliciesTypeOK, kbVars, skillVars
<1>4. CASE ChangeRuntimeBindings
  <2>1. \A b \in RuntimeBinding, p \in Priorities : [b EXCEPT !.priority = p] \in RuntimeBinding
    BY DEF RuntimeBinding
  <2>2. runtimeBindings' \subseteq RuntimeBinding
    BY <1>4, <2>1 DEF ChangeRuntimeBindings, PoliciesTypeOK
  <2> QED BY <1>4, <2>2 DEF ChangeRuntimeBindings, PoliciesTypeOK, kbVars, skillVars
<1>5. CASE AssignRuntimeTemplate
  BY <1>5 DEF AssignRuntimeTemplate, PoliciesTypeOK, kbVars, skillVars
<1>6. CASE RestartTemplates
  BY <1>6, SeededTemplateExists, PolicyBounds DEF RestartTemplates, PoliciesTypeOK, kbVars, skillVars
<1> QED BY <1>1, <1>2, <1>3, <1>4, <1>5, <1>6 DEF TemplatesNext

LEMMA InitPolicies == PoliciesInit => PoliciesTypeOK
<1> SUFFICES ASSUME PoliciesInit PROVE PoliciesTypeOK
  OBVIOUS
<1>1. selfPolicies \in Seq(SelfPolicy)
  <2>1. PICK m \in {"disabled", "allowed"} : selfPolicies = <<[target |-> Everyone, says |-> m]>>
    BY DEF PoliciesInit
  <2>2. [target |-> Everyone, says |-> m] \in SelfPolicy
    BY DEF SelfPolicy, Modes, Sources
  <2> QED BY <2>1, <2>2
<1>2. accessPolicies \in Seq(AccessPolicy)
  BY DEF PoliciesInit
<1>3. assignments \in Seq(Assignment)
  <2>1. PICK k \in 0..MaxAssignments : assignments \in [1..k -> Assignment]
    BY DEF PoliciesInit
  <2> QED BY <2>1, PolicyBounds
<1> QED BY <1>1, <1>2, <1>3, SeededTemplateExists, PolicyBounds DEF PoliciesInit, PoliciesTypeOK

LEMMA PoliciesTypeKept ==
  ASSUME PoliciesTypeOK, [MCNext]_dirVars
  PROVE  PoliciesTypeOK'
<1>1. CASE UNCHANGED policyVars
  BY <1>1 DEF PoliciesTypeOK, policyVars, kbVars, skillVars, templatePolicyVars
<1>2. CASE SelfServiceNext \/ KnowledgeNext \/ SkillsNext \/ TemplatesNext
  BY <1>2, SelfServiceTyped, KnowledgeTyped, SkillsTyped, TemplatesStepTyped
<1> QED BY <1>1, <1>2 DEF MCNext, dirVars

\* Every variable of the four modules keeps its type.
THEOREM DirectoryTyped == MCSpec => []DirectoryTypeOK
<1>1. MCInit => PoliciesTypeOK
  BY InitPolicies DEF MCInit
<1>2. PoliciesTypeOK /\ [MCNext]_dirVars => PoliciesTypeOK'
  BY PoliciesTypeKept
<1>3. MCSpec => []PoliciesTypeOK
  BY <1>1, <1>2, PTL DEF MCSpec, dirVars
<1>4. EarnedInv /\ RolesInv /\ PoliciesTypeOK => DirectoryTypeOK
  BY ProfilesInvTypes DEF EarnedInv, RolesInv, DirectoryTypeOK
<1> QED BY <1>3, <1>4, EarnedInductive, RolesInductive, PTL

-----------------------------------------------------------------------------
(* One consolidation, on the rows of one user.                               *)

NamesOf(ts, names) == {<<t, names[t]>> : t \in ts}
WellNamed(matching, names) ==
  /\ \A t \in matching : names[t] \in Names
  /\ \A one, two \in matching : names[one] = names[two] => one = two

\* The row of a template after its statements: the first, both.
Taken(row, t) == row.status = "active" /\ row.managed /\ row.template = t
Complete(row, t, sources) ==
  row = [status |-> "active", managed |-> TRUE, template |-> t, shown |-> sources[t]]

\* How far a request that nobody disturbs has come with the rows of its user.
Goes(q, status, rows, matching, names, sources) ==
  /\ q.next = "disable" => status # "active"
  /\ q.next = "owner" => ~rows[q.arg].managed
  /\ q.next = "prune" => q.found = {}
  /\ q.next = "record" => q.at \in NamesOf(matching, names) /\ Taken(rows[q.at[2]], q.at[1])
  /\ q.next \in {"upsert", "record", "prune"} =>
       /\ q.found \subseteq NamesOf(matching, names)
       /\ \A t \in matching : \/ <<t, names[t]>> \in q.found
                              \/ q.next = "record" /\ q.at = <<t, names[t]>>
                              \/ Complete(rows[names[t]], t, sources)

LEMMA UpsertGoes ==
  ASSUME NEW q, NEW status, NEW rows \in [Names -> ProfileRow], NEW matching \in SUBSET Templates,
         NEW names, NEW sources \in [Templates -> SUBSET Sources], WellNamed(matching, names),
         Goes(q, status, rows, matching, names, sources), q.next = "upsert",
         NEW p \in q.found, NEW after, after.next = "record", after.at = p, after.found = q.found \ {p},
         NEW rows2, rows2 = [rows EXCEPT ![p[2]] = UpsertRow(@, p[1])]
  PROVE  Goes(after, status, rows2, matching, names, sources)
<1>1. PICK t \in matching : p = <<t, names[t]>>
  BY DEF Goes, NamesOf
<1>2. names[t] \in Names /\ p[1] = t /\ p[2] = names[t]
  BY <1>1 DEF WellNamed
<1>3. rows2[names[t]] = UpsertRow(rows[names[t]], t) /\ \A n \in Names \ {names[t]} : rows2[n] = rows[n]
  BY <1>2
<1>4. rows[names[t]] \in ProfileRow
  BY <1>2
<1>5. Taken(rows2[p[2]], p[1])
  BY <1>2, <1>3, <1>4 DEF UpsertRow, Taken, ProfileRow
<1>6. ASSUME NEW other \in matching
      PROVE  \/ <<other, names[other]>> \in after.found \/ after.at = <<other, names[other]>>
             \/ Complete(rows2[names[other]], other, sources)
  <2>1. CASE other = t
    BY <1>1, <2>1
  <2>2. CASE other # t
    <3>1. names[other] \in Names \ {names[t]} /\ <<other, names[other]>> # p
      BY <1>1, <2>2 DEF WellNamed
    <3>2. <<other, names[other]>> \in q.found \/ Complete(rows[names[other]], other, sources)
      BY DEF Goes
    <3> QED BY <1>3, <3>1, <3>2
  <2> QED BY <2>1, <2>2
<1>7. p \in NamesOf(matching, names) /\ after.found \subseteq NamesOf(matching, names)
  BY DEF Goes
<1> QED BY <1>5, <1>6, <1>7 DEF Goes

LEMMA RecordGoes ==
  ASSUME NEW q, NEW status, NEW rows \in [Names -> ProfileRow], NEW matching \in SUBSET Templates,
         NEW names, NEW sources \in [Templates -> SUBSET Sources], WellNamed(matching, names),
         Goes(q, status, rows, matching, names, sources), q.next = "record",
         NEW after, after.next = NextTemplate(q.found), after.found = q.found,
         NEW rows2, rows2 = [rows EXCEPT ![q.at[2]] =
                      IF @.status = "none" THEN @ ELSE [@ EXCEPT !.shown = sources[q.at[1]]]]
  PROVE  Goes(after, status, rows2, matching, names, sources)
<1>1. PICK t \in matching : q.at = <<t, names[t]>>
  BY DEF Goes, NamesOf
<1>2. names[t] \in Names /\ q.at[1] = t /\ q.at[2] = names[t] /\ Taken(rows[names[t]], t)
  BY <1>1 DEF WellNamed, Goes
<1>3. /\ rows2[names[t]] = [rows[names[t]] EXCEPT !.shown = sources[t]]
      /\ \A n \in Names \ {names[t]} : rows2[n] = rows[n]
  BY <1>2 DEF Taken
<1>4. rows[names[t]] \in ProfileRow
  BY <1>2
<1>5. Complete(rows2[names[t]], t, sources)
  BY <1>2, <1>3, <1>4 DEF Complete, Taken, ProfileRow
<1>6. ASSUME NEW other \in matching
      PROVE  <<other, names[other]>> \in after.found \/ Complete(rows2[names[other]], other, sources)
  <2>1. CASE other = t
    BY <1>5, <2>1
  <2>2. CASE other # t
    <3>1. names[other] \in Names \ {names[t]} /\ <<other, names[other]>> # q.at
      BY <1>1, <2>2 DEF WellNamed
    <3>2. <<other, names[other]>> \in q.found \/ Complete(rows[names[other]], other, sources)
      BY <3>1 DEF Goes
    <3> QED BY <1>3, <3>1, <3>2
  <2> QED BY <2>1, <2>2
<1>7. after.found \subseteq NamesOf(matching, names)
  BY DEF Goes
<1>8. after.next \in {"prune", "upsert"} /\ (after.next = "prune" => after.found = {})
  BY DEF NextTemplate
<1> QED BY <1>6, <1>7, <1>8 DEF Goes

\* The last statement leaves what an undisturbed consolidation makes of the rows.
LEMMA PruneSettles ==
  ASSUME NEW q, NEW status, NEW rows \in [Names -> ProfileRow], NEW matching \in SUBSET Templates,
         NEW names, NEW sources \in [Templates -> SUBSET Sources], WellNamed(matching, names),
         Goes(q, status, rows, matching, names, sources), q.next = "prune",
         NEW rows2, rows2 = [n \in Names |-> IF rows[n].managed /\ rows[n].template \notin matching
                                             THEN [rows[n] EXCEPT !.status = "disabled"] ELSE rows[n]]
  PROVE  rows2 = Merged(rows2, matching, names, sources)
<1> DEFINE merged == Merged(rows, matching, names, sources)
<1>1. ASSUME NEW n \in Names PROVE rows2[n] = merged[n]
  <2> DEFINE here == {t \in matching : names[t] = n}
  <2>1. PICK t : t = CHOOSE x \in here : TRUE
    OBVIOUS
  <2>2. merged[n] = IF here # {}
             THEN [status |-> "active", managed |-> TRUE, template |-> t, shown |-> sources[t]]
             ELSE IF rows[n].managed /\ rows[n].template \notin matching
                  THEN [rows[n] EXCEPT !.status = "disabled"] ELSE rows[n]
    BY <2>1 DEF Merged
  <2> HIDE DEF merged
  <2>3. CASE here # {}
    <3>1. t \in matching /\ names[t] = n
      BY <2>1, <2>3
    <3>2. rows[n] = [status |-> "active", managed |-> TRUE, template |-> t, shown |-> sources[t]]
      BY <3>1 DEF Goes, Complete
    <3>3. rows[n].template = t /\ rows[n] = merged[n]
      BY <2>2, <2>3, <3>2
    <3> QED BY <3>1, <3>3
  <2>4. CASE here = {}
    BY <2>2, <2>4
  <2> QED BY <2>3, <2>4
<1>2. merged = [n \in Names |-> merged[n]]
  BY DEF Merged
<1> HIDE DEF merged
<1>3. rows2 = merged
  BY <1>1, <1>2
<1> QED BY <1>3, MergedTwice DEF merged

-----------------------------------------------------------------------------
(* Requests one after the other.                                             *)

\* A step of a request leaves the others alone, but for an edit whose row is gone.
LEMMA OthersStay ==
  ASSUME ProfilesInv, NEW r \in ProfRequests, RequestStep(r), NEW p \in ProfRequests \ {r}
  PROVE  profReq'[p] = profReq[p] \/ (At(p, "owner") /\ profReq'[p] = IdleProf)
<1>1. profReq \in [ProfRequests -> ProfRequest]
  BY DEF ProfilesInv, RequestsHold
<1>2. CASE \/ SetUserStatus(r) \/ UpdateUser(r) \/ AssignUserRole(r) \/ AddRoleMembers(r)
           \/ BatchUsers(r) \/ CreateUser(r) \/ ConfirmUserImport(r) \/ ReconcileUser(r)
           \/ RemoveUserRole(r) \/ RemoveRoleMember(r) \/ OwnerCheck(r)
           \/ SetTemplateStatus(r) \/ AssignTemplate(r) \/ UnassignTemplate(r)
  <2>1. \E request : Start(r, request)
    BY <1>2 DEF SetUserStatus, UpdateUser, AssignUserRole, AddRoleMembers, BatchUsers, CreateUser,
       ConfirmUserImport, ReconcileUser, Begin, RemoveUserRole, RemoveRoleMember, RemoveRows,
       OwnerCheck, SetTemplateStatus, AssignTemplate, UnassignTemplate
  <2> QED BY <1>1, <2>1 DEF Start
<1>3. CASE TakeStatus(r) \/ TakeMove(r) \/ TakeBind(r) \/ TakeReconcile(r) \/ TakeImport(r)
  <2>1. \E u, step : TakeNext(r, u, step)
    BY <1>3 DEF TakeStatus, TakeMove, TakeBind, TakeReconcile, TakeImport
  <2> QED BY <1>1, <2>1 DEF TakeNext
<1>4. CASE BindStandardRole(r) \/ EnableManaged(r)
  <2>1. \E step : Goto(r, step)
    BY <1>4 DEF BindStandardRole, EnableManaged
  <2> QED BY <1>1, <2>1 DEF Goto
<1>5. CASE \/ ImportStops(r) \/ DisableManaged(r) \/ Prune(r) \/ ListUsers(r)
           \/ InsertTarget(r) \/ AssignStops(r)
  BY <1>1, <1>5 DEF ImportStops, DisableManaged, Prune, ListUsers, InsertTarget, AssignStops
<1>6. CASE AssignRead(r) \/ ReadMatching(r)
  BY <1>1, <1>6 DEF AssignRead, ReadMatching
<1>7. CASE AssignInsert(r) \/ UpsertProfile(r) \/ RecordSources(r)
  BY <1>1, <1>7 DEF AssignInsert, UpsertProfile, RecordSources
<1>8. CASE OwnerEdit(r)
  BY <1>1, <1>8 DEF OwnerEdit
<1>9. CASE OwnerRemove(r)
  BY <1>1, <1>9 DEF OwnerRemove, Forget
<1> QED BY <1>2, <1>3, <1>4, <1>5, <1>6, <1>7, <1>8, <1>9 DEF RequestStep

\* What the consolidations of u would leave as it is.
Settled(u) == profile[u] = Merged(profile[u], Matching(u), templateName, SourcesFor(u))

Progress(r) == \A u \in Users : profReq[r].user = u =>
  Goes(profReq[r], userStatus[u], profile[u], Matching(u), templateName, SourcesFor(u))

Alone == \A p, r \in ProfRequests : ~Idle(p) /\ ~Idle(r) => p = r

SettledAwaited(u) ==
  u \notin handled /\ userStatus[u] = "active" => Settled(u) \/ \E r \in ProfRequests : Awaits(profReq[r], u)

SettledInv ==
  /\ ProfilesInv
  /\ ~disturbed => Alone /\ (\A r \in ProfRequests : Progress(r)) /\ (\A u \in Users : SettledAwaited(u))

Working == {"disable", "owner", "upsert", "record", "prune"}

LEMMA ElsewhereGoes ==
  ASSUME NEW r, profReq'[r].next \notin Working
  PROVE  Progress(r)'
BY DEF Progress, Goes, Working

LEMMA SameSources ==
  ASSUME NEW u, UNCHANGED <<userVars, templateVars>>
  PROVE  Matching(u)' = Matching(u) /\ SourcesFor(u)' = SourcesFor(u) /\ templateName' = templateName
BY DEF Matching, SourcesFor, SourcesOf, Applies, userVars, templateVars

LEMMA SettledIs == ASSUME NEW u PROVE Settled(u) <=> profile[u] = Consolidated(profile[u], u)
BY ConsolidatedMerges DEF Settled

LEMMA UserKnown ==
  ASSUME ProfilesInv, NEW u \in Users
  PROVE  /\ profile[u] \in [Names -> ProfileRow] /\ WellNamed(Matching(u), templateName)
         /\ Matching(u) \in SUBSET Templates /\ SourcesFor(u) \in [Templates -> SUBSET Sources]
  BY MatchingTemplates, ConsolidatedMerges DEF ProfilesInv, RowsTyped, WellNamed

\* Which steps lead to a statement whose outcome depends on earlier ones.
LEMMA WorkingSteps ==
  ASSUME ProfilesInv, NEW r \in ProfRequests, RequestStep(r)
  PROVE  \/ profReq'[r].next \notin Working
         \/ TakeStatus(r) \/ OwnerCheck(r) \/ ReadMatching(r) \/ UpsertProfile(r) \/ RecordSources(r)
<1> DEFINE q == profReq[r]
<1>1. profReq \in [ProfRequests -> ProfRequest] /\ q \in ProfRequest
  BY DEF ProfilesInv, RequestsHold
<1>2. ASSUME NEW request, Start(r, request), request.next \in {"take", "read", "list"}
      PROVE  profReq'[r].next \notin Working
  BY <1>1, <1>2 DEF Start, Working
<1>3. CASE \/ SetUserStatus(r) \/ UpdateUser(r) \/ AssignUserRole(r) \/ AddRoleMembers(r)
           \/ BatchUsers(r) \/ CreateUser(r) \/ ConfirmUserImport(r) \/ ReconcileUser(r)
  <2>1. \/ \E task, us, arg : Start(r, ForUsers(task, us, arg))
        \/ \E u : Start(r, ForUser(u))
    BY <1>3 DEF SetUserStatus, UpdateUser, AssignUserRole, AddRoleMembers, BatchUsers, CreateUser,
       ConfirmUserImport, ReconcileUser, Begin
  <2> QED BY <1>2, <2>1, RequestsFor
<1>4. CASE RemoveUserRole(r) \/ RemoveRoleMember(r)
  <2>1. \E u : Start(r, ForUser(u))
    BY <1>4 DEF RemoveUserRole, RemoveRoleMember, RemoveRows
  <2> QED BY <1>2, <2>1, RequestsFor
<1>5. CASE SetTemplateStatus(r) \/ UnassignTemplate(r)
  <2>1. \/ Start(r, ForAll)
        \/ \E task, us, arg : Start(r, ForUsers(task, us, arg))
    BY <1>5 DEF SetTemplateStatus, UnassignTemplate, ForTargets
  <2> QED BY <1>2, <2>1, RequestsFor
<1>13. ASSUME NEW us, NEW targets PROVE Assigning(us, targets).next \notin Working
  BY RequestsFor DEF Assigning, ForTargets, IdleProf, Working
<1>14. CASE AssignTemplate(r) \/ InsertTarget(r)
  <2>1. \E us, targets : profReq' = [profReq EXCEPT ![r] = Assigning(us, targets)]
    BY <1>14 DEF AssignTemplate, Begin, Start, InsertTarget
  <2> QED BY <1>1, <1>13, <2>1
<1>6. CASE TakeMove(r) \/ TakeBind(r) \/ TakeReconcile(r) \/ TakeImport(r)
  <2>1. \E u, step : TakeNext(r, u, step) /\ step \in {"read", "bind_standard"}
    BY <1>6 DEF TakeMove, TakeBind, TakeReconcile, TakeImport
  <2>2. PICK u, step : TakeNext(r, u, step) /\ step \in {"read", "bind_standard"}
    BY <2>1
  <2>3. profReq'[r].next = step
    BY <1>1, <2>2 DEF TakeNext, ProfRequest
  <2> QED BY <2>2, <2>3 DEF Working
<1>7. CASE BindStandardRole(r) \/ EnableManaged(r)
  <2>1. PICK step \in AfterActive : Goto(r, step)
    BY <1>7 DEF BindStandardRole, EnableManaged
  <2>2. profReq'[r].next = step
    BY <1>1, <2>1 DEF Goto, ProfRequest
  <2> QED BY <2>2 DEF Working, AfterActive
<1>8. CASE DisableManaged(r) \/ Prune(r)
  <2>1. profReq'[r] = Done(q)
    BY <1>1, <1>8 DEF DisableManaged, Prune
  <2>2. Done(q).next \in {"idle", "take"}
    BY <1>1, IdleHolds DEF Done, ProfRequest
  <2> QED BY <2>1, <2>2 DEF Working
<1>9. CASE ListUsers(r)
  <2>1. profReq'[r] = IdleProf \/ \E us : profReq'[r] = ForUsers("reconcile", us, None)
    BY <1>1, <1>9 DEF ListUsers
  <2> QED BY <2>1, IdleHolds, RequestsFor DEF Working
<1>10. CASE ImportStops(r) \/ AssignStops(r) \/ OwnerEdit(r) \/ OwnerRemove(r)
  <2>1. profReq'[r] = IdleProf
    BY <1>1, <1>10 DEF ImportStops, AssignStops, OwnerEdit, OwnerRemove, Forget, At
  <2> QED BY <2>1, IdleHolds DEF Working
<1>11. CASE AssignRead(r)
  <2>1. PICK step \in {"read", "insert"} :
          \E ts : profReq' = [profReq EXCEPT ![r].next = step, ![r].found = ts]
    BY <1>11 DEF AssignRead
  <2> PICK found : profReq' = [profReq EXCEPT ![r].next = step, ![r].found = found]
    BY <2>1
  <2>2. profReq'[r].next = step
    BY <1>1, <2>1 DEF ProfRequest
  <2> QED BY <2>2 DEF Working
<1>12. CASE AssignInsert(r)
  <2>1. PICK p \in q.found, step \in {"read", "insert"} :
          profReq' = [profReq EXCEPT ![r].found = @ \ {p}, ![r].next = step]
    BY <1>12 DEF AssignInsert
  <2>2. profReq'[r].next = step
    BY <1>1, <2>1 DEF ProfRequest
  <2> QED BY <2>2 DEF Working
<1> QED BY <1>3, <1>4, <1>5, <1>6, <1>7, <1>8, <1>9, <1>10, <1>11, <1>12, <1>14 DEF RequestStep

LEMMA ProgressStep ==
  ASSUME ProfilesInv, NEW r \in ProfRequests, RequestStep(r), Progress(r)
  PROVE  Progress(r)'
<1> DEFINE q == profReq[r]
           after == profReq'[r]
<1>1. profReq \in [ProfRequests -> ProfRequest] /\ q \in ProfRequest /\ Holds(q)
  BY DEF ProfilesInv, RequestsHold
<1>2. CASE TakeStatus(r)
  <2>1. PICK v \in Users :
          /\ q.task \in UserStatuses /\ TakeNext(r, v, AfterStatus[q.task])
          /\ userStatus' = [userStatus EXCEPT ![v] = q.task]
    BY <1>2 DEF TakeStatus
  <2>2. /\ after.next = AfterStatus[q.task] /\ after.user = v
        /\ userStatus'[v] = q.task
    BY <1>1, <2>1 DEF TakeNext, ProfRequest, ProfilesInv, UsersTyped
  <2>3. CASE q.task = "suspended"
    <3>1. after.next = "disable"
      BY <2>2, <2>3 DEF AfterStatus
    <3> HIDE DEF q, after
    <3> QED BY <2>2, <2>3, <3>1 DEF Progress, Goes, after
  <2>4. CASE q.task # "suspended"
    <3>1. after.next \in {"idle", "enable"}
      BY <2>1, <2>2, <2>4 DEF AfterStatus, UserStatuses
    <3> QED BY <3>1, ElsewhereGoes DEF Working
  <2> QED BY <2>3, <2>4
<1>3. CASE OwnerCheck(r)
  <2>1. PICK u \in Users, n \in Names, task \in {"edit", "remove"} :
          /\ ~profile[u][n].managed /\ UNCHANGED profile
          /\ profReq' = [profReq EXCEPT ![r] =
               [IdleProf EXCEPT !.next = "owner", !.task = task, !.user = u, !.arg = n]]
    BY <1>3 DEF OwnerCheck, Start
  <2>2. after.next = "owner" /\ after.user = u /\ after.arg = n
    BY <1>1, <2>1 DEF IdleProf
  <2> HIDE DEF q, after
  <2> QED BY <2>1, <2>2 DEF Progress, Goes, after
<1>4. ASSUME NEW u \in Users, after.user = u,
             Goes(after, userStatus'[u], profile'[u], Matching(u)', templateName', SourcesFor(u)')
      PROVE  Progress(r)'
  BY <1>4 DEF Progress
<1>5. CASE ReadMatching(r)
  <2>1. PICK u \in Users : u = q.user
    BY <1>1, <1>5 DEF ReadMatching, At, Holds, Consolidating
  <2>2. PICK found : found = NamesOf(Matching(u), templateName)
    OBVIOUS
  <2>3. /\ profReq' = [profReq EXCEPT ![r].next = NextTemplate(found), ![r].found = found]
        /\ UNCHANGED <<userVars, templateVars, profile>>
    BY <1>5, <2>1, <2>2 DEF ReadMatching, Named, NamesOf
  <2>4. after.user = u /\ after.found = found /\ after.next = NextTemplate(found)
    BY <1>1, <2>1, <2>3 DEF ProfRequest
  <2> HIDE DEF after
  <2>5. Goes(after, userStatus'[u], profile'[u], Matching(u), templateName, SourcesFor(u))
    BY <2>2, <2>4 DEF Goes, NextTemplate, NamesOf
  <2> QED BY <1>4, <2>3, <2>4, <2>5, SameSources
<1>6. CASE UpsertProfile(r)
  <2>1. PICK u \in Users : u = q.user
    BY <1>1, <1>6 DEF UpsertProfile, At, Holds, Consolidating
  <2>2. PICK p \in q.found :
          /\ profile' = [profile EXCEPT ![u][p[2]] = UpsertRow(@, p[1])]
          /\ profReq' = [profReq EXCEPT ![r].next = "record", ![r].at = p, ![r].found = @ \ {p}]
          /\ UNCHANGED <<userVars, templateVars>> /\ q.next = "upsert"
    BY <1>6, <2>1 DEF UpsertProfile, At
  <2>3. after.user = u /\ after.found = q.found \ {p} /\ after.next = "record" /\ after.at = p
    BY <1>1, <2>1, <2>2 DEF ProfRequest
  <2>4. profile'[u] = [profile[u] EXCEPT ![p[2]] = UpsertRow(@, p[1])]
    BY <2>2 DEF ProfilesInv, RowsTyped
  <2>5. Goes(q, userStatus[u], profile[u], Matching(u), templateName, SourcesFor(u))
    BY <2>1 DEF Progress
  <2> HIDE DEF after, q
  <2>6. Goes(after, userStatus[u], profile'[u], Matching(u), templateName, SourcesFor(u))
    <3>1. q.next = "upsert" /\ p \in q.found
      BY <2>2
    <3>2. /\ profile[u] \in [Names -> ProfileRow] /\ WellNamed(Matching(u), templateName)
          /\ Matching(u) \in SUBSET Templates /\ SourcesFor(u) \in [Templates -> SUBSET Sources]
      BY UserKnown
    <3> QED BY <2>3, <2>4, <2>5, <3>1, <3>2, UpsertGoes
  <2> QED BY <1>4, <2>2, <2>3, <2>6, SameSources DEF userVars
<1>7. CASE RecordSources(r)
  <2>1. PICK u \in Users : u = q.user
    BY <1>1, <1>7 DEF RecordSources, At, Holds, Consolidating
  <2>2. /\ profile' = [profile EXCEPT ![u][q.at[2]] =
             IF @.status = "none" THEN @ ELSE [@ EXCEPT !.shown = SourcesOf(q.at[1], u)]]
        /\ profReq' = [profReq EXCEPT ![r].next = NextTemplate(q.found), ![r].at = None]
        /\ UNCHANGED <<userVars, templateVars>> /\ q.next = "record" /\ q.at \in Templates \X Names
    BY <1>1, <1>7, <2>1 DEF RecordSources, At, Holds
  <2>3. after.user = u /\ after.found = q.found /\ after.next = NextTemplate(q.found)
    BY <1>1, <2>1, <2>2 DEF ProfRequest
  <2>4. profile'[u] = [profile[u] EXCEPT ![q.at[2]] =
          IF @.status = "none" THEN @ ELSE [@ EXCEPT !.shown = SourcesFor(u)[q.at[1]]]]
    <3>1. SourcesFor(u)[q.at[1]] = SourcesOf(q.at[1], u)
      BY <2>2 DEF SourcesFor
    <3> QED BY <2>2, <3>1 DEF ProfilesInv, RowsTyped
  <2>5. Goes(q, userStatus[u], profile[u], Matching(u), templateName, SourcesFor(u))
    BY <2>1 DEF Progress
  <2> HIDE DEF after, q
  <2>6. Goes(after, userStatus[u], profile'[u], Matching(u), templateName, SourcesFor(u))
    BY <2>2, <2>3, <2>4, <2>5, UserKnown, RecordGoes
  <2> QED BY <1>4, <2>2, <2>3, <2>6, SameSources DEF userVars
<1> QED BY <1>2, <1>3, <1>5, <1>6, <1>7, WorkingSteps, ElsewhereGoes

\* An edit of a profile that is not managed leaves the managed ones settled.
LEMMA UnmanagedSettles ==
  ASSUME NEW rows \in [Names -> ProfileRow], NEW matching \in SUBSET Templates, NEW names,
         NEW sources \in [Templates -> SUBSET Sources], NEW m \in Names, ~rows[m].managed,
         NEW row, ~row.managed, rows = Merged(rows, matching, names, sources),
         NEW rows2, rows2 = [rows EXCEPT ![m] = row]
  PROVE  rows2 = Merged(rows2, matching, names, sources)
<1> DEFINE merged == Merged(rows, matching, names, sources)
           merged2 == Merged(rows2, matching, names, sources)
<1>1. ASSUME NEW n \in Names PROVE rows2[n] = merged2[n]
  <2> DEFINE here == {t \in matching : names[t] = n}
  <2>1. PICK t : t = CHOOSE x \in here : TRUE
    OBVIOUS
  <2>2. /\ merged[n] = IF here # {}
             THEN [status |-> "active", managed |-> TRUE, template |-> t, shown |-> sources[t]]
             ELSE IF rows[n].managed /\ rows[n].template \notin matching
                  THEN [rows[n] EXCEPT !.status = "disabled"] ELSE rows[n]
        /\ merged2[n] = IF here # {}
             THEN [status |-> "active", managed |-> TRUE, template |-> t, shown |-> sources[t]]
             ELSE IF rows2[n].managed /\ rows2[n].template \notin matching
                  THEN [rows2[n] EXCEPT !.status = "disabled"] ELSE rows2[n]
    BY <2>1 DEF Merged
  <2>3. rows[n] = merged[n]
    OBVIOUS
  <2> HIDE DEF merged, merged2, here
  <2>4. CASE n = m
    <3>1. here = {}
      <4>1. here # {} => rows[n].managed
        BY <2>2, <2>3
      <4> QED BY <2>4, <4>1
    <3> QED BY <2>2, <2>4, <3>1
  <2>5. CASE n # m
    <3>1. rows2[n] = rows[n]
      BY <2>5
    <3> QED BY <2>2, <2>3, <3>1
  <2> QED BY <2>4, <2>5
<1>2. merged2 = [n \in Names |-> merged2[n]]
  BY DEF Merged
<1> HIDE DEF merged2
<1>3. rows2 = merged2
  BY <1>1, <1>2
<1> QED BY <1>3 DEF merged2

LEMMA OwnerSettles ==
  ASSUME ProfilesInv, NEW r \in ProfRequests, NEW u \in Users, Progress(r),
         OwnerEdit(r) \/ OwnerRemove(r), u = profReq[r].user
  PROVE  (Settled(u) => Settled(u)') /\ ~Awaits(profReq[r], u) /\ UNCHANGED userStatus
<1> DEFINE m == profReq[r].arg
<1>1. At(r, "owner") /\ m \in Names /\ profReq[r].task \in {"edit", "remove"}
  BY DEF OwnerEdit, OwnerRemove, At, RequestsHold, Holds, ProfilesInv
<1>2. ~profile[u][m].managed
  BY <1>1 DEF Progress, Goes, At
<1>3. profile \in [Users -> [Names -> ProfileRow]] /\ profile[u][m] \in ProfileRow
  BY <1>1 DEF ProfilesInv, RowsTyped
<1>4. PICK row : /\ profile' = [profile EXCEPT ![u][m] = row] /\ ~row.managed
                 /\ UNCHANGED <<userVars, templateVars>>
  <2>1. CASE OwnerEdit(r)
    <3>1. PICK st \in {"active", "disabled"} :
            /\ profile' = [profile EXCEPT ![u][m] = [profile[u][m] EXCEPT !.status = st]]
            /\ UNCHANGED <<userVars, templateVars>>
      BY <2>1 DEF OwnerEdit, WithProfile
    <3>2. ~[profile[u][m] EXCEPT !.status = st].managed
      BY <1>2, <1>3 DEF ProfileRow
    <3> QED BY <3>1, <3>2
  <2>2. CASE OwnerRemove(r)
    <3>1. profile' = [profile EXCEPT ![u][m] = NoProfile] /\ UNCHANGED <<userVars, templateVars>>
      BY <2>2 DEF OwnerRemove, WithProfile
    <3>2. ~NoProfile.managed
      BY DEF NoProfile
    <3> QED BY <3>1, <3>2
  <2> QED BY <2>1, <2>2
<1>5. profile'[u] = [profile[u] EXCEPT ![m] = row]
  BY <1>3, <1>4
<1> HIDE DEF m
<1>6. Settled(u) => profile'[u] = Merged(profile'[u], Matching(u), templateName, SourcesFor(u))
  BY <1>1, <1>2, <1>4, <1>5, UserKnown, UnmanagedSettles DEF Settled
<1>7. Settled(u) => Settled(u)'
  BY <1>4, <1>6, SameSources DEF Settled
<1>8. ~Awaits(profReq[r], u)
  BY <1>1 DEF Awaits, At, Consolidating
<1> QED BY <1>4, <1>7, <1>8 DEF userVars

\* A user nobody has to consolidate stays settled; the last statement of his
\* consolidation settles him.
LEMMA RequestSettles ==
  ASSUME ProfilesInv, NEW r \in ProfRequests, NEW u \in Users, RequestStep(r), Progress(r),
         SettledAwaited(u), handled' = (handled \ Reconciled) \cup ByHand
  PROVE  SettledAwaited(u)'
<1> SUFFICES ASSUME u \notin handled', userStatus'[u] = "active", ~Awaits(profReq'[r], u)
             PROVE  Settled(u)' \/ \E p \in ProfRequests : Awaits(profReq'[p], u)
  BY DEF SettledAwaited
<1>1. /\ \A p \in ProfRequests \ {r} :
           profReq'[p] = profReq[p] \/ (At(p, "owner") /\ profReq'[p] = IdleProf)
      /\ Follows(r, u) \/ Finishes(r, u)
  BY RequestFollows
<1>2. ASSUME ~Awaits(profReq[r], u), userStatus[u] = "active", Settled(u) => Settled(u)'
      PROVE  Settled(u)' \/ \E p \in ProfRequests : Awaits(profReq'[p], u)
  <2>1. ASSUME NEW p \in ProfRequests, At(p, "prune"), profReq[p].user = u, profReq'[p] # profReq[p]
        PROVE  FALSE
    BY <1>1, <1>2, <2>1 DEF At, Awaits, Consolidating
  <2>2. u \notin handled
    BY <2>1, RequestRestartsNothing DEF Reconciled, Booted
  <2>3. CASE Settled(u)
    BY <1>2, <2>3
  <2>4. CASE \E p \in ProfRequests : Awaits(profReq[p], u)
    BY <1>1, <1>2, <2>4, OthersAwait
  <2> QED BY <1>2, <2>2, <2>3, <2>4 DEF SettledAwaited
<1>3. CASE Follows(r, u)
  <2>1. Unmoved(u) /\ ~Awaits(profReq[r], u)
    BY <1>3 DEF Follows
  <2> QED BY <1>2, <2>1 DEF Unmoved, Settled
<1>4. CASE u = profReq[r].user /\ (OwnerEdit(r) \/ OwnerRemove(r))
  <2>1. (Settled(u) => Settled(u)') /\ ~Awaits(profReq[r], u) /\ UNCHANGED userStatus
    BY <1>4, OwnerSettles
  <2> QED BY <1>2, <2>1
<1>5. CASE u = profReq[r].user /\ DisableManaged(r)
  BY <1>5 DEF DisableManaged, At, Progress, Goes, userVars
<1>6. CASE u = profReq[r].user /\ Prune(r)
  <2> DEFINE q == profReq[r]
  <2>1. /\ profile'[u] = PruneManaged(profile[u], u) /\ UNCHANGED <<userVars, templateVars>>
        /\ q.next = "prune"
    BY <1>6 DEF Prune, At, ProfilesInv, RowsTyped
  <2>2. profile'[u] = [n \in Names |-> IF profile[u][n].managed /\ profile[u][n].template \notin Matching(u)
                                       THEN [profile[u][n] EXCEPT !.status = "disabled"] ELSE profile[u][n]]
    BY <2>1 DEF PruneManaged
  <2>3. Goes(q, userStatus[u], profile[u], Matching(u), templateName, SourcesFor(u))
    BY <1>6 DEF Progress
  <2> HIDE DEF q
  <2>4. profile'[u] = Merged(profile'[u], Matching(u), templateName, SourcesFor(u))
    <3>1. /\ profile[u] \in [Names -> ProfileRow] /\ WellNamed(Matching(u), templateName)
          /\ Matching(u) \in SUBSET Templates /\ SourcesFor(u) \in [Templates -> SUBSET Sources]
      BY UserKnown
    <3> QED BY <2>1, <2>2, <2>3, <3>1, PruneSettles
  <2> QED BY <2>1, <2>4, SameSources DEF Settled
<1>7. ~(AssignStops(r) /\ (profReq[r].users = {} \/ u \in profReq[r].users))
  <2>1. u \notin ByHand
    OBVIOUS
  <2> QED BY <2>1, StoppedByHand
<1> QED BY <1>1, <1>3, <1>4, <1>5, <1>6, <1>7 DEF Finishes

LEMMA AtOnceSettled ==
  ASSUME ProfilesInv, NEW u \in Users, SettledAwaited(u), u \notin ByHand,
         handled' = (handled \ Reconciled) \cup ByHand, Unmoved(u), UNCHANGED profRestarts,
         \A p \in ProfRequests : profReq'[p] = profReq[p] \/ (At(p, "owner") /\ profReq'[p] = IdleProf)
  PROVE  SettledAwaited(u)'
<1>1. u \notin Reconciled
  BY DEF Reconciled, Booted, At
<1>2. Settled(u) => Settled(u)'
  BY DEF Unmoved, Settled
<1>3. \A p \in ProfRequests : Awaits(profReq[p], u) => Awaits(profReq'[p], u)
  BY OthersAwait
<1> QED BY <1>1, <1>2, <1>3 DEF SettledAwaited, Unmoved

LEMMA RestartSettles ==
  ASSUME ProfilesInv, NEW u \in Users, RestartProf
  PROVE  SettledAwaited(u)'
<1> SUFFICES ASSUME userStatus'[u] = "active" PROVE Settled(u)'
  BY DEF SettledAwaited
<1>1. profile[u] \in [Names -> ProfileRow] /\ userStatus[u] = "active"
  BY DEF ProfilesInv, RowsTyped, RestartProf
<1>2. profile'[u] = Merged(profile[u], Matching(u)', templateName', SourcesFor(u)')
  BY <1>1, BootConsolidates
<1>3. /\ Matching(u)' \in SUBSET Templates
      /\ SourcesFor(u)' \in [Templates -> SUBSET Sources]
  BY ConsolidatedMerges
<1>4. profile'[u] = Merged(profile'[u], Matching(u)', templateName', SourcesFor(u)')
  BY <1>1, <1>2, <1>3, MergedTwice
<1> QED BY <1>4 DEF Settled

\* Every request is alone where none is interrupted.
LEMMA StaysAlone ==
  ASSUME ProfilesInv, ~Interrupted
  PROVE  /\ \A r \in ProfRequests : RequestStep(r) => \A p \in ProfRequests \ {r} : Idle(p)'
         /\ AtOnce \/ UNCHANGED profVars => \A p \in ProfRequests : Idle(p)'
<1>1. \A p \in ProfRequests : ~Idle(p) => profReq'[p] # profReq[p] /\ calls' = calls
  BY DEF Interrupted
<1>2. ASSUME NEW r \in ProfRequests, RequestStep(r), NEW p \in ProfRequests \ {r} PROVE Idle(p)'
  BY <1>1, <1>2, OthersStay, IdleHolds DEF Idle
<1>3. CASE UNCHANGED profVars
  BY <1>1, <1>3 DEF profVars, Idle
<1>4. CASE AtOnce
  <2>1. calls' # calls
    <3>1. Serve
      BY <1>4 DEF AtOnce, CreateTemplate, RenameTemplate, BindTemplate, CreateProfile,
         CreatePersonalAgent, SetProfileStatus, DeleteProfile, NewProfile
    <3> QED BY <3>1 DEF Serve, ProfilesInv, CountsTyped
  <2>2. \A p \in ProfRequests : Idle(p)
    BY <1>1, <2>1
  <2>3. profReq' = profReq \/ \E u \in Users, n \in Names : Forget(u, n)
    BY <1>4 DEF AtOnce, CreateTemplate, RenameTemplate, BindTemplate, CreateProfile,
       CreatePersonalAgent, SetProfileStatus, DeleteProfile, NewProfile
  <2> QED BY <2>2, <2>3, IdleHolds DEF Forget, Idle
<1> QED BY <1>2, <1>3, <1>4

LEMMA SettledStep ==
  ASSUME SettledInv, [MCNext]_dirVars
  PROVE  SettledInv'
<1>1. ProfilesInv /\ ((ProfilesNext /\ MCNext) \/ UNCHANGED profVars)
  BY DEF SettledInv, MCNext, dirVars
<1>2. ProfilesInv'
  BY <1>1, ProfilesStep
<1>3. CASE RestartProf /\ MCNext
  <2>1. \A p \in ProfRequests : Idle(p)' /\ profReq'[p].next \notin Working
    BY <1>3, IdleHolds DEF RestartProf, Idle, Working
  <2> QED BY <1>1, <1>2, <1>3, <2>1, RestartSettles, ElsewhereGoes DEF SettledInv, Alone
<1>4. ASSUME UNCHANGED profRestarts, MCNext
      PROVE  /\ ~disturbed' => ~disturbed /\ ~Interrupted
             /\ handled' = (handled \ Reconciled) \cup ByHand
  BY <1>4 DEF MCNext, Booted
<1>5. ASSUME \A p \in ProfRequests : Idle(p)'
      PROVE  Alone' /\ \A p \in ProfRequests : Progress(p)'
  BY <1>5, ElsewhereGoes DEF Alone, Idle, Working
<1>6. ASSUME AtOnce \/ UNCHANGED profVars, MCNext, ~disturbed'
      PROVE  Alone' /\ (\A p \in ProfRequests : Progress(p)') /\ (\A u \in Users : SettledAwaited(u)')
  <2>1. UNCHANGED profRestarts
    BY <1>6 DEF profVars, AtOnce, CreateTemplate, RenameTemplate, BindTemplate, CreateProfile,
       CreatePersonalAgent, SetProfileStatus, DeleteProfile, NewProfile, WithProfile
  <2>2. ~disturbed /\ ~Interrupted /\ handled' = (handled \ Reconciled) \cup ByHand
    BY <1>4, <1>6, <2>1
  <2>3. \A p \in ProfRequests : Idle(p)'
    BY <1>1, <1>6, <2>2, StaysAlone
  <2>4. ASSUME NEW u \in Users PROVE SettledAwaited(u)'
    <3>1. SettledAwaited(u) /\ (u \in ByHand => SettledAwaited(u)')
      BY <2>2 DEF SettledInv, SettledAwaited
    <3>2. u \notin ByHand =>
            /\ Unmoved(u)
            /\ \A p \in ProfRequests : profReq'[p] = profReq[p] \/ (At(p, "owner") /\ profReq'[p] = IdleProf)
      <4>1. CASE AtOnce
        BY <1>1, <4>1, AtOnceUnmoved
      <4>2. CASE UNCHANGED profVars
        BY <4>2, SameUsers DEF profVars
      <4> QED BY <1>6, <4>1, <4>2
    <3> QED BY <1>1, <2>1, <2>2, <3>1, <3>2, AtOnceSettled
  <2> QED BY <1>5, <2>3, <2>4
<1>7. ASSUME NEW r \in ProfRequests, RequestStep(r), MCNext, ~disturbed'
      PROVE  Alone' /\ (\A p \in ProfRequests : Progress(p)') /\ (\A u \in Users : SettledAwaited(u)')
  <2>1. ~disturbed /\ ~Interrupted /\ handled' = (handled \ Reconciled) \cup ByHand
    BY <1>4, <1>7, RequestRestartsNothing
  <2>2. \A p \in ProfRequests \ {r} : Idle(p)'
    BY <1>1, <1>7, <2>1, StaysAlone
  <2>3. Progress(r) /\ Progress(r)'
    BY <1>1, <1>7, <2>1, ProgressStep DEF SettledInv
  <2>4. \A p \in ProfRequests : Progress(p)'
    BY <2>2, <2>3, ElsewhereGoes DEF Idle, Working
  <2>5. ASSUME NEW u \in Users PROVE SettledAwaited(u)'
    BY <1>1, <1>7, <2>1, <2>3, RequestSettles DEF SettledInv
  <2> QED BY <2>2, <2>4, <2>5 DEF Alone
<1>8. CASE UNCHANGED dirVars
  <2>1. UNCHANGED <<profVars, disturbed, handled>>
    BY <1>8 DEF dirVars
  <2>2. /\ Alone' <=> Alone
        /\ \A p \in ProfRequests : Progress(p)' <=> Progress(p)
        /\ \A u \in Users : SettledAwaited(u)' <=> SettledAwaited(u)
    <3>1. \A u \in Users : Unmoved(u)
      BY <2>1, SameUsers DEF profVars
    <3> QED BY <2>1, <3>1 DEF Alone, Idle, Progress, SettledAwaited, Settled, Unmoved, profVars, userVars
  <2> QED BY <1>2, <2>1, <2>2 DEF SettledInv
<1> QED BY <1>1, <1>2, <1>3, <1>6, <1>7, <1>8, ProfilesNextIs DEF SettledInv

\* What the seeds make is settled.
LEMMA InitSettled ==
  ASSUME ProfilesInit, NEW u \in SeededUsers
  PROVE  Settled(u)
<1> DEFINE rows == profile[u]
           merged == Merged(profile[u], Matching(u), templateName, SourcesFor(u))
<1>1. u \in Users /\ ProfilesInv
  BY Seeds, InitProfiles
<1>2. /\ rows \in [Names -> ProfileRow] /\ WellNamed(Matching(u), templateName)
      /\ Matching(u) \in SUBSET Templates /\ SourcesFor(u) \in [Templates -> SUBSET Sources]
  BY <1>1, UserKnown
<1>3. \A t \in Matching(u) : t \in DOMAIN SeededName /\ templateName[t] = SeededName[t]
  BY <1>2 DEF Matching, ProfilesInit
<1>4. ASSUME NEW t \in DOMAIN SeededName
      PROVE  t \in Matching(u) /\ SourcesFor(u)[t] = {StandardRole} /\ templateName[t] = SeededName[t]
  <2>1. t \in Templates /\ templateStatus[t] = "active" /\ templateName[t] = SeededName[t]
    BY Seeds DEF ProfilesInit
  <2>2. \A s \in Sources : <<t, s>> \in bindings <=> s = StandardRole
    BY DEF ProfilesInit
  <2>3. StandardRole \in Sources /\ Applies(StandardRole, u)
    BY <1>1, StandardRoleExists DEF Sources, Applies, ProfilesInit
  <2>4. SourcesOf(t, u) = {StandardRole}
    BY <2>2, <2>3 DEF SourcesOf
  <2> QED BY <2>1, <2>4 DEF Matching, SourcesFor
<1>5. ASSUME NEW n \in Names PROVE rows[n] = merged[n]
  <2> DEFINE here == {t \in Matching(u) : templateName[t] = n}
             named == {t \in DOMAIN SeededName : SeededName[t] = n}
  <2>1. PICK t : t = CHOOSE x \in here : TRUE
    OBVIOUS
  <2>2. merged[n] = IF here # {}
             THEN [status |-> "active", managed |-> TRUE, template |-> t, shown |-> SourcesFor(u)[t]]
             ELSE IF rows[n].managed /\ rows[n].template \notin Matching(u)
                  THEN [rows[n] EXCEPT !.status = "disabled"] ELSE rows[n]
    BY <2>1 DEF Merged
  <2>3. here = named
    BY <1>3, <1>4
  <2>4. PICK s : s = CHOOSE x \in DOMAIN SeededName : SeededName[x] = n
    OBVIOUS
  <2>5. rows[n] = IF named # {}
          THEN [status |-> "active", managed |-> TRUE, shown |-> {StandardRole}, template |-> s]
          ELSE NoProfile
    BY <1>1, <2>4 DEF ProfilesInit
  <2> HIDE DEF merged, rows
  <2>6. CASE named # {}
    <3>1. t \in here
      BY <2>1, <2>3, <2>6
    <3>2. s \in named
      BY <2>4, <2>6
    <3>3. t = s
      BY <2>3, <3>1, <3>2, Seeds
    <3>4. SourcesFor(u)[t] = {StandardRole}
      BY <1>4, <2>3, <3>1
    <3> QED BY <2>2, <2>3, <2>5, <2>6, <3>3, <3>4
  <2>7. CASE named = {}
    BY <2>2, <2>3, <2>5, <2>7 DEF NoProfile
  <2> QED BY <2>6, <2>7
<1>6. merged = [n \in Names |-> merged[n]]
  BY DEF Merged
<1> HIDE DEF merged
<1>7. rows = merged
  BY <1>2, <1>5, <1>6
<1> QED BY <1>7 DEF Settled, merged

LEMMA SettledInductive == MCSpec => []SettledInv
<1>1. MCInit => SettledInv
  <2> SUFFICES ASSUME MCInit PROVE SettledInv
    OBVIOUS
  <2>1. ProfilesInit /\ ProfilesInv
    BY InitProfiles DEF MCInit
  <2>2. \A r \in ProfRequests : Idle(r) /\ profReq[r].user = None /\ profReq[r].next = "idle"
    BY <2>1 DEF ProfilesInit, IdleProf, Idle
  <2>3. \A r \in ProfRequests : Progress(r)
    BY <2>2 DEF Progress, Goes
  <2>4. \A u \in Users : userStatus[u] = "active" => u \in SeededUsers
    BY <2>1 DEF ProfilesInit
  <2> QED BY <2>1, <2>2, <2>3, <2>4, InitSettled DEF SettledInv, Alone, SettledAwaited
<1>2. SettledInv /\ [MCNext]_dirVars => SettledInv'
  BY SettledStep
<1> QED BY <1>1, <1>2, PTL DEF MCSpec, dirVars

\* Whatever one request after the other changes of a user, of a template or of
\* its assignments, and wherever a boot cuts the last one off: when none is left,
\* the managed profiles of every active user are those the templates call for,
\* but for users whose profiles were changed by hand, or who were assigned one
\* by a request that stopped before it consolidated them.
\* (consolidateManagedAgents and the handlers that call it)
THEOREM ProfilesFollowSources == MCSpec => []ProfilesFollowSourcesInSequence
<1>1. SettledInv => ProfilesFollowSourcesInSequence
  <2> SUFFICES ASSUME SettledInv, Quiet, ~disturbed, NEW u \in Users, u \notin handled,
                      userStatus[u] = "active"
               PROVE  profile[u] = Consolidated(profile[u], u)
    BY DEF ProfilesFollowSourcesInSequence
  <2>1. Settled(u)
    BY IdleAwaitsNobody DEF SettledInv, SettledAwaited, Quiet, Idle
  <2> QED BY <2>1, SettledIs
<1> QED BY <1>1, SettledInductive, PTL

-----------------------------------------------------------------------------
(* What a fold over a sequence computes.                                     *)

\* Every nonempty set of naturals has a least element.
LEMMA LeastNumber ==
  ASSUME NEW T \in SUBSET Nat, T # {}
  PROVE  \E n \in T : \A m \in T : n <= m
<1>1. IsWellFoundedOn(OpToRel(<, Nat), Nat)
  BY NatLessThanWellFounded
<1>2. PICK n \in T : \A m \in T : ~(<<m, n>> \in OpToRel(<, Nat))
  BY <1>1, WFMin
<1>3. \A m \in T : ~(m < n)
  BY <1>2 DEF OpToRel
<1> QED BY <1>3

\* A nonempty set of numbers up to n has a greatest element, which is its Max.
LEMMA GreatestNumber ==
  ASSUME NEW n \in Nat, NEW s \in SUBSET (1..n), s # {}
  PROVE  Max(s) \in s /\ \A x \in s : x <= Max(s)
<1> DEFINE T == {n - x : x \in s}
<1>1. T \in SUBSET Nat
  <2>1. \A x \in s : n - x \in Nat
    OBVIOUS
  <2> QED BY <2>1
<1>2. PICK m \in T : \A k \in T : m <= k
  <2>1. T # {}
    OBVIOUS
  <2> HIDE DEF T
  <2> QED BY <1>1, <2>1, LeastNumber
<1>3. PICK x \in s : m = n - x
  BY <1>2
<1>4. \A y \in s : x >= y
  <2> TAKE y \in s
  <2>1. m <= n - y
    BY <1>2
  <2>2. x \in Nat /\ y \in Nat /\ n - x <= n - y
    BY <1>3, <2>1
  <2> HIDE DEF T
  <2> QED BY <2>2
<1> QED BY <1>4 DEF Max

\* What FoldLeft is defined by: f of the positions up to n, where the greatest
\* one is worked off last.
IsFold(f, n, base, G) ==
  f = [s \in SUBSET (1..n) |-> IF s = {} THEN base ELSE G[Max(s)][f[s \ {Max(s)}]]]

LEMMA FoldExtends ==
  ASSUME NEW n \in Nat, NEW m \in 1..n, NEW S, NEW base \in S, NEW G \in [1..n -> [S -> S]],
         NEW f \in [SUBSET (1..(m - 1)) -> S], IsFold(f, m - 1, base, G)
  PROVE  \E g \in [SUBSET (1..m) -> S] : IsFold(g, m, base, G)
<1> DEFINE g == [s \in SUBSET (1..m) |-> IF m \in s THEN G[m][f[s \ {m}]] ELSE f[s]]
<1>1. ASSUME NEW s \in SUBSET (1..m)
      PROVE  g[s] \in S /\ g[s] = IF s = {} THEN base ELSE G[Max(s)][g[s \ {Max(s)}]]
  <2>1. CASE m \in s
    <3>1. m \in Nat /\ s # {} /\ \A x \in s : x <= m
      BY <2>1
    <3>2. Max(s) \in s /\ \A x \in s : x <= Max(s)
      BY <3>1, GreatestNumber
    <3>3. Max(s) = m
      <4>1. PICK x \in s : x = Max(s) /\ \A y \in s : y <= x
        BY <3>2
      <4>2. x \in Nat /\ x <= m /\ m <= x
        BY <2>1, <3>1, <4>1
      <4> QED BY <3>1, <4>1, <4>2
    <3>4. /\ s \ {m} \in SUBSET (1..(m - 1)) /\ s \ {m} \in SUBSET (1..m)
      BY <3>1
    <3>5. g[s] = G[m][f[s \ {m}]] /\ g[s \ {m}] = f[s \ {m}]
      BY <2>1, <3>4
    <3>6. f[s \ {m}] \in S /\ G[m] \in [S -> S]
      BY <3>4
    <3> HIDE DEF g
    <3> QED BY <3>1, <3>3, <3>5, <3>6
  <2>2. CASE m \notin s
    <3>1. s \in SUBSET (1..(m - 1)) /\ g[s] = f[s]
      BY <2>2
    <3>2. f[s] = IF s = {} THEN base ELSE G[Max(s)][f[s \ {Max(s)}]]
      BY <3>1 DEF IsFold
    <3>3. g[s \ {Max(s)}] = f[s \ {Max(s)}]
      BY <2>2
    <3>4. f[s] \in S
      BY <3>1
    <3> HIDE DEF g
    <3> QED BY <3>1, <3>2, <3>3, <3>4
  <2> QED BY <2>1, <2>2
<1>2. g \in [SUBSET (1..m) -> S]
  <2>1. DOMAIN g = SUBSET (1..m) /\ g = [s \in SUBSET (1..m) |-> g[s]]
    OBVIOUS
  <2> HIDE DEF g
  <2> QED BY <1>1, <2>1
<1>3. IsFold(g, m, base, G)
  <2>1. g = [s \in SUBSET (1..m) |-> g[s]]
    OBVIOUS
  <2> HIDE DEF g
  <2> QED BY <1>1, <2>1 DEF IsFold
<1> HIDE DEF g
<1> QED BY <1>2, <1>3

LEMMA FoldExists ==
  ASSUME NEW n \in Nat, NEW S, NEW base \in S, NEW G \in [1..n -> [S -> S]]
  PROVE  \E f \in [SUBSET (1..n) -> S] : IsFold(f, n, base, G)
<1> DEFINE Some(m) == \E f \in [SUBSET (1..m) -> S] : IsFold(f, m, base, G)
           T == {m \in 0..n : ~Some(m)}
<1>1. Some(0)
  <2> DEFINE f == [s \in SUBSET (1..0) |-> base]
  <2>1. \A s \in SUBSET (1..0) : s = {}
    OBVIOUS
  <2>2. f \in [SUBSET (1..0) -> S]
    OBVIOUS
  <2>3. IsFold(f, 0, base, G)
    BY <2>1 DEF IsFold
  <2> HIDE DEF f
  <2> QED BY <2>2, <2>3
<1>2. \A m \in 1..n : Some(m - 1) => Some(m)
  BY FoldExtends
<1> HIDE DEF Some
<1>3. T = {}
  <2> SUFFICES ASSUME T # {} PROVE FALSE
    OBVIOUS
  <2>1. T \in SUBSET Nat
    OBVIOUS
  <2>2. PICK m \in T : \A k \in T : m <= k
    <3> HIDE DEF T
    <3> QED BY <2>1, LeastNumber
  <2>3. m \in 0..n /\ ~Some(m)
    OBVIOUS
  <2>4. m \in 1..n /\ m - 1 \in 0..n
    BY <1>1, <2>3
  <2>5. m - 1 \in T
    BY <1>2, <2>3, <2>4
  <2>6. m <= m - 1
    BY <2>2, <2>5
  <2> QED BY <2>4, <2>6
<1>4. Some(n)
  BY <1>3
<1> QED BY <1>4 DEF Some

\* The positions worked off one after the other.
LEMMA FoldUnrolls ==
  ASSUME NEW n \in Nat, NEW base, NEW G, NEW f, IsFold(f, n, base, G)
  PROVE  \E b : /\ b[0] = base /\ b[n] = f[1..n]
                /\ \A i \in 1..n : b[i] = G[i][b[i - 1]] /\ b[i - 1] = f[1..(i - 1)]
<1> DEFINE b == [i \in 0..n |-> f[1..i]]
<1>1. b[0] = base
  <2>1. 1..0 = {} /\ 1..0 \in SUBSET (1..n)
    OBVIOUS
  <2> QED BY <2>1 DEF IsFold
<1>2. b[n] = f[1..n]
  OBVIOUS
<1>3. ASSUME NEW i \in 1..n PROVE b[i] = G[i][b[i - 1]] /\ b[i - 1] = f[1..(i - 1)]
  <2> DEFINE s == 1..i
  <2>1. s \in SUBSET (1..n) /\ i \in s /\ \A x \in s : x <= i
    OBVIOUS
  <2>2. Max(s) \in s /\ \A x \in s : x <= Max(s)
    BY <2>1, GreatestNumber
  <2>3. Max(s) = i /\ s \ {i} = 1..(i - 1)
    BY <2>1, <2>2
  <2>4. f[s] = G[Max(s)][f[s \ {Max(s)}]]
    BY <2>1 DEF IsFold
  <2>5. b[i] = f[s] /\ b[i - 1] = f[1..(i - 1)]
    OBVIOUS
  <2> HIDE DEF b, s
  <2> QED BY <2>3, <2>4, <2>5
<1> HIDE DEF b
<1> QED BY <1>1, <1>2, <1>3

-----------------------------------------------------------------------------
(* The row that decides.                                                     *)

\* What one row does to the best row before it.
Better(row, best, u) ==
  IF Applies(row.target, u) /\ (IF best = None THEN TRUE ELSE Beats(row, best)) THEN row ELSE best

LEMMA MostSpecificUnrolls ==
  ASSUME NEW R, NEW rows \in Seq(R), NEW u
  PROVE  \E b : /\ b[0] = None /\ b[Len(rows)] = MostSpecific(rows, u)
                /\ \A i \in 1..Len(rows) : b[i] = Better(rows[i], b[i - 1], u)
<1> PICK n \in Nat : n = Len(rows)
  OBVIOUS
<1>1. DOMAIN rows = 1..n /\ \A i \in 1..n : rows[i] \in R
  OBVIOUS
<1> DEFINE Folds(f) == f = [s \in SUBSET (1..n) |->
             IF s = {} THEN None ELSE Better(rows[Max(s)], f[s \ {Max(s)}], u)]
<1>2. \E f : Folds(f)
  <2> DEFINE S == R \cup {None}
             G == [i \in 1..n |-> [x \in S |-> Better(rows[i], x, u)]]
  <2>1. \A i \in 1..n, x \in S : Better(rows[i], x, u) \in S
    BY <1>1 DEF Better
  <2>2. G \in [1..n -> [S -> S]] /\ None \in S
    BY <2>1
  <2>3. \A i \in 1..n, x \in S : G[i][x] = Better(rows[i], x, u)
    OBVIOUS
  <2> HIDE DEF S, G
  <2>4. PICK f \in [SUBSET (1..n) -> S] : IsFold(f, n, None, G)
    BY <2>2, FoldExists
  <2>5. ASSUME NEW s \in SUBSET (1..n), s # {}
        PROVE  G[Max(s)][f[s \ {Max(s)}]] = Better(rows[Max(s)], f[s \ {Max(s)}], u)
    <3>1. Max(s) \in 1..n
      BY <2>5, GreatestNumber
    <3>2. f[s \ {Max(s)}] \in S
      OBVIOUS
    <3> QED BY <2>3, <3>1, <3>2
  <2>6. Folds(f)
    BY <2>4, <2>5 DEF IsFold
  <2> HIDE DEF Folds
  <2> QED BY <2>6
<1>3. PICK f : Folds(f) /\ MostSpecific(rows, u) = f[1..n]
  BY <1>1, <1>2 DEF MostSpecific, FoldLeft, MapThenFoldSet, Better
<1>4. PICK b : /\ b[0] = None /\ b[n] = f[1..n]
               /\ \A i \in 1..n : b[i] = Better(rows[i], b[i - 1], u)
  <2> DEFINE S == {f[s] : s \in SUBSET (1..n)}
             G == [i \in 1..n |-> [x \in S |-> Better(rows[i], x, u)]]
  <2>1. \A i \in 1..n, x \in S : G[i][x] = Better(rows[i], x, u)
    OBVIOUS
  <2>2. \A s \in SUBSET (1..n) : f[s] \in S
    OBVIOUS
  <2> HIDE DEF S, G
  <2>3. ASSUME NEW s \in SUBSET (1..n), s # {}
        PROVE  G[Max(s)][f[s \ {Max(s)}]] = Better(rows[Max(s)], f[s \ {Max(s)}], u)
    <3>1. Max(s) \in 1..n
      BY <2>3, GreatestNumber
    <3>2. f[s \ {Max(s)}] \in S
      BY <2>2
    <3> QED BY <2>1, <3>1, <3>2
  <2>4. IsFold(f, n, None, G)
    BY <1>3, <2>3 DEF IsFold
  <2>5. PICK b : /\ b[0] = None /\ b[n] = f[1..n]
                 /\ \A i \in 1..n : b[i] = G[i][b[i - 1]] /\ b[i - 1] = f[1..(i - 1)]
    BY <2>4, FoldUnrolls
  <2>6. \A i \in 1..n : b[i] = Better(rows[i], b[i - 1], u)
    <3> TAKE i \in 1..n
    <3>1. f[1..(i - 1)] \in S
      BY <2>2
    <3> QED BY <2>1, <2>5, <3>1
  <2> QED BY <2>5, <2>6
<1> QED BY <1>3, <1>4

LEMMA RankIsNumber ==
  ASSUME NEW t \in Sources
  PROVE  Rank(t) \in 1..4
BY KindsOfTargets DEF Sources, Rank

\* Of the rows that apply the one that decides has the highest rank.
LEMMA MostSpecificPicks ==
  ASSUME NEW R, NEW rows \in Seq(R), NEW u, \A row \in R : row # None /\ row.target \in Sources
  PROVE  \/ /\ MostSpecific(rows, u) = None
            /\ \A j \in DOMAIN rows : ~Applies(rows[j].target, u)
         \/ \E i \in DOMAIN rows :
              /\ MostSpecific(rows, u) = rows[i] /\ Applies(rows[i].target, u)
              /\ \A j \in DOMAIN rows :
                   Applies(rows[j].target, u) => Rank(rows[j].target) <= Rank(rows[i].target)
<1> PICK n \in Nat : n = Len(rows)
  OBVIOUS
<1>1. DOMAIN rows = 1..n /\ \A i \in 1..n : rows[i] \in R
  OBVIOUS
<1>2. PICK b : /\ b[0] = None /\ b[n] = MostSpecific(rows, u)
               /\ \A i \in 1..n : b[i] = Better(rows[i], b[i - 1], u)
  BY MostSpecificUnrolls
<1> DEFINE Reaches(i) == Applies(rows[i].target, u)
           RankOf(i) == Rank(rows[i].target)
           Picks(k) == \/ b[k] = None /\ \A j \in 1..k : ~Reaches(j)
                       \/ \E i \in 1..k : /\ b[k] = rows[i] /\ Reaches(i)
                                           /\ \A j \in 1..k : Reaches(j) => RankOf(j) <= RankOf(i)
           T == {k \in 0..n : ~Picks(k)}
<1>3. \A i \in 1..n : rows[i] # None /\ RankOf(i) \in 1..4
  BY <1>1, RankIsNumber
<1>4. Picks(0)
  BY <1>2
<1>5. ASSUME NEW k \in 1..n, Picks(k - 1) PROVE Picks(k)
  <2>1. CASE ~Reaches(k)
    BY <1>2, <1>5, <2>1 DEF Better
  <2>2. CASE Reaches(k) /\ b[k - 1] = None
    <3>1. b[k] = rows[k] /\ \A j \in 1..(k - 1) : ~Reaches(j)
      BY <1>1, <1>2, <1>3, <1>5, <2>2 DEF Better
    <3> QED BY <1>3, <2>2, <3>1
  <2>3. CASE Reaches(k) /\ b[k - 1] # None
    <3>1. PICK i \in 1..(k - 1) : /\ b[k - 1] = rows[i] /\ Reaches(i)
                                  /\ \A j \in 1..(k - 1) : Reaches(j) => RankOf(j) <= RankOf(i)
      BY <1>5, <2>3
    <3>2. b[k] = IF RankOf(k) >= RankOf(i) THEN rows[k] ELSE rows[i]
      BY <1>2, <2>3, <3>1 DEF Better, Beats
    <3> HIDE DEF RankOf, Reaches
    <3>3. CASE RankOf(k) >= RankOf(i)
      <4>1. \A j \in 1..k : Reaches(j) => RankOf(j) <= RankOf(k)
        BY <1>3, <3>1, <3>3
      <4> QED BY <2>3, <3>2, <3>3, <4>1
    <3>4. CASE ~(RankOf(k) >= RankOf(i))
      <4>1. \A j \in 1..k : Reaches(j) => RankOf(j) <= RankOf(i)
        BY <1>3, <3>1, <3>4
      <4> QED BY <3>1, <3>2, <3>4, <4>1
    <3> QED BY <3>3, <3>4
  <2> QED BY <2>1, <2>2, <2>3
<1>6. Picks(n)
  <2> HIDE DEF Picks
  <2>1. T = {}
    <3> SUFFICES ASSUME T # {} PROVE FALSE
      OBVIOUS
    <3>1. T \in SUBSET Nat
      OBVIOUS
    <3>2. PICK k \in T : \A m \in T : k <= m
      <4> HIDE DEF T
      <4> QED BY <3>1, LeastNumber
    <3>3. k \in 0..n /\ ~Picks(k)
      OBVIOUS
    <3>4. k \in 1..n /\ k - 1 \in 0..n
      BY <1>4, <3>3
    <3>5. k - 1 \in T
      BY <1>5, <3>3, <3>4
    <3>6. k <= k - 1
      BY <3>2, <3>5
    <3> QED BY <3>4, <3>6
  <2> QED BY <2>1
<1> QED BY <1>1, <1>2, <1>6

\* The row that decides says what an order of the rows cannot change.
LEMMA OutcomeAllowed ==
  ASSUME NEW R, NEW rows \in Seq(R), NEW u \in Users, NEW otherwise,
         \A row \in R : row # None /\ row.target \in Sources,
         department[u] \in Departments \cup {None}
  PROVE  (IF MostSpecific(rows, u) = None THEN otherwise ELSE MostSpecific(rows, u).says)
           \in Outcomes(rows, u, otherwise)
<1> DEFINE applying == {i \in DOMAIN rows : Applies(rows[i].target, u)}
<1>1. CASE /\ MostSpecific(rows, u) = None
           /\ \A j \in DOMAIN rows : ~Applies(rows[j].target, u)
  <2>1. applying = {}
    BY <1>1
  <2> QED BY <1>1, <2>1 DEF Outcomes
<1>2. ASSUME NEW i \in DOMAIN rows, MostSpecific(rows, u) = rows[i], Applies(rows[i].target, u),
             \A j \in DOMAIN rows :
               Applies(rows[j].target, u) => Rank(rows[j].target) <= Rank(rows[i].target)
      PROVE  (IF MostSpecific(rows, u) = None THEN otherwise ELSE MostSpecific(rows, u).says)
               \in Outcomes(rows, u, otherwise)
  <2>1. \A j \in DOMAIN rows : rows[j] # None /\ rows[j].target \in Sources
    OBVIOUS
  <2>2. ~Narrower(rows[i].target, rows, u)
    <3> SUFFICES ASSUME NEW j \in DOMAIN rows, Applies(rows[j].target, u),
                        \/ rows[j].target = u /\ rows[i].target # u
                        \/ rows[j].target \in Roles /\ rows[i].target \in {Everyone} \cup Departments
                        \/ rows[j].target \in Departments /\ rows[i].target = Everyone
                 PROVE  FALSE
      BY DEF Narrower
    <3>1. PICK s \in Sources, t \in Sources : s = rows[i].target /\ t = rows[j].target
      BY <2>1
    <3>2. Rank(t) <= Rank(s)
      BY <1>2, <3>1
    <3>3. \/ t = u /\ s # u
          \/ t \in Roles /\ s \in {Everyone} \cup Departments
          \/ t \in Departments /\ s = Everyone
      BY <3>1
    <3>4. s \notin Users \ {u}
      BY <1>2, <3>1, KindsOfTargets DEF Applies
    <3> QED BY <3>2, <3>3, <3>4, KindsOfTargets DEF Rank, Sources
  <2>3. i \in applying /\ rows[i].says \in
          {rows[k].says : k \in {k \in applying : ~Narrower(rows[k].target, rows, u)}}
    BY <1>2, <2>2
  <2> QED BY <1>2, <2>1, <2>3 DEF Outcomes
<1> QED BY <1>1, <1>2, MostSpecificPicks

\* While no demotion failed, at most one default waits for none.
OneDefault == demotionErrors = 0 => \A t, x \in defaults \ demoting : t = x

LEMMA OneDefaultKept ==
  ASSUME PoliciesTypeOK, OneDefault, TemplatesNext
  PROVE  OneDefault'
<1>1. CASE WriteRuntimeTemplate
  BY <1>1 DEF WriteRuntimeTemplate, OneDefault
<1>2. CASE DemoteRivals
  BY <1>2 DEF DemoteRivals, OneDefault, PoliciesTypeOK
<1>3. CASE RestartTemplates
  BY <1>3 DEF RestartTemplates, OneDefault
<1>4. CASE SetRuntimeTemplateStatus \/ ChangeRuntimeBindings \/ AssignRuntimeTemplate
  BY <1>4 DEF SetRuntimeTemplateStatus, ChangeRuntimeBindings, AssignRuntimeTemplate, OneDefault
<1> QED BY <1>1, <1>2, <1>3, <1>4 DEF TemplatesNext

\* The bindings of the highest priority agree, or all are in conflict.
LEMMA BindingsResolve ==
  ASSUME NEW rows \in SUBSET RuntimeBinding, rows # {}
  PROVE  \E x : {IF Rivals(b, rows) = {} THEN b.template ELSE "conflict" :
                   b \in {b \in rows : \A c \in rows : c.priority <= b.priority}} = {x}
<1> DEFINE best == {b \in rows : \A c \in rows : c.priority <= b.priority}
           Says(b) == IF Rivals(b, rows) = {} THEN b.template ELSE "conflict"
<1>1. \A b \in rows : b.priority \in {0, 1}
  BY DEF RuntimeBinding, Priorities
<1>2. PICK a \in best : TRUE
  <2>1. CASE \E b \in rows : b.priority = 1
    BY <1>1, <2>1
  <2>2. CASE \A b \in rows : b.priority # 1
    BY <1>1, <2>2
  <2> QED BY <2>1, <2>2
<1>3. ASSUME NEW b \in best PROVE Says(b) = Says(a)
  <2>1. a \in rows /\ b \in rows /\ a.priority = b.priority
    BY <1>1
  <2>2. CASE a.template = b.template
    <3>1. Rivals(a, rows) = Rivals(b, rows)
      BY <2>1, <2>2 DEF Rivals
    <3> QED BY <2>2, <3>1
  <2>3. CASE a.template # b.template
    <3>1. b \in Rivals(a, rows) /\ a \in Rivals(b, rows)
      BY <2>1, <2>3 DEF Rivals
    <3> QED BY <3>1
  <2> QED BY <2>2, <2>3
<1> HIDE DEF Says, best
<1>4. {Says(b) : b \in best} = {Says(a)}
  BY <1>3
<1> QED BY <1>4 DEF Says, best

\* The template of a runtime does not depend on the order of the rows.
LEMMA OneResolution ==
  ASSUME PoliciesTypeOK, OneDefault, NEW u \in Users,
         (demoting = {} /\ demotionErrors = 0) \/ Candidates(u) # {}
  PROVE  Cardinality(Resolutions(u)) = 1
<1>1. \E x : Resolutions(u) = {x}
  <2>1. CASE assigned[u] # None
    BY <2>1 DEF Resolutions
  <2>2. CASE assigned[u] = None /\ Candidates(u) # {}
    <3>1. Candidates(u) \in SUBSET RuntimeBinding
      BY DEF Candidates, PoliciesTypeOK
    <3>2. PICK x : {IF Rivals(b, Candidates(u)) = {} THEN b.template ELSE "conflict" :
                     b \in {b \in Candidates(u) : \A c \in Candidates(u) : c.priority <= b.priority}} = {x}
      BY <2>2, <3>1, BindingsResolve
    <3>3. Resolutions(u) = {x}
      BY <2>2, <3>2 DEF Resolutions
    <3> QED BY <3>3
  <2>3. CASE assigned[u] = None /\ Candidates(u) = {}
    <3>1. \A t, x \in ActiveDefaults : t = x
      BY <2>3 DEF OneDefault, ActiveDefaults
    <3>2. Resolutions(u) = IF ActiveDefaults # {} THEN ActiveDefaults ELSE {"unresolved"}
      BY <2>3 DEF Resolutions
    <3>3. CASE ActiveDefaults = {}
      BY <3>2, <3>3
    <3>4. CASE ActiveDefaults # {}
      <4>1. PICK t \in ActiveDefaults : TRUE
        BY <3>4
      <4>2. ActiveDefaults = {t}
        BY <3>1, <4>1
      <4> QED BY <3>2, <3>4, <4>2
    <3> QED BY <3>3, <3>4
  <2> QED BY <2>1, <2>2, <2>3
<1> QED BY <1>1, FS_Singleton

LEMMA Decides ==
  ASSUME PoliciesTypeOK, OneDefault, department \in [Users -> Departments \cup {None}]
  PROVE  MostSpecificPolicyDecides
<1> SUFFICES ASSUME NEW u \in Users
    PROVE  /\ EffectiveSelfService(u) \in Outcomes(selfPolicies, u, "disabled")
           /\ KnowledgeAccess(u) \in Outcomes(accessPolicies, u,
                IF \E b \in kbBindings : ~b.blocked /\ BindingReaches(b.target, u)
                  THEN "read" ELSE "none")
           /\ (demoting = {} /\ demotionErrors = 0) \/ Candidates(u) # {} =>
                Cardinality(Resolutions(u)) = 1
  BY DEF MostSpecificPolicyDecides
<1>1. \A row \in SelfPolicy : row # None /\ row.target \in Sources
  BY RowsAreSomething DEF SelfPolicy
<1>2. \A row \in AccessPolicy : row # None /\ row.target \in Sources
  BY RowsAreSomething DEF AccessPolicy
<1>3. selfPolicies \in Seq(SelfPolicy) /\ accessPolicies \in Seq(AccessPolicy)
  BY DEF PoliciesTypeOK
<1>4. EffectiveSelfService(u) \in Outcomes(selfPolicies, u, "disabled")
  <2>1. (IF MostSpecific(selfPolicies, u) = None THEN "disabled" ELSE MostSpecific(selfPolicies, u).says)
           \in Outcomes(selfPolicies, u, "disabled")
    BY <1>1, <1>3, OutcomeAllowed
  <2> QED BY <2>1 DEF EffectiveSelfService
<1>5. ASSUME NEW otherwise,
             otherwise = IF \E b \in kbBindings : ~b.blocked /\ BindingReaches(b.target, u)
                           THEN "read" ELSE "none"
      PROVE  KnowledgeAccess(u) \in Outcomes(accessPolicies, u, otherwise)
  <2>1. (IF MostSpecific(accessPolicies, u) = None THEN otherwise ELSE MostSpecific(accessPolicies, u).says)
           \in Outcomes(accessPolicies, u, otherwise)
    BY <1>2, <1>3, OutcomeAllowed
  <2> QED BY <1>5, <2>1 DEF KnowledgeAccess
<1> QED BY <1>4, <1>5, OneResolution

-----------------------------------------------------------------------------
(* A blocked skill.                                                          *)

\* What one assignment does to what was said before it.
Overridden(a, best, u, n) ==
  IF AssignmentReaches(a.target, u, n) /\ Overrides(a.says, best) THEN a.says ELSE best

\* Every assignment in the list says one of the policies of a skill.
LEMMA AssignmentsSay ==
  ASSUME PoliciesTypeOK
  PROVE  /\ DOMAIN assignments = 1..Len(assignments)
         /\ \A i \in 1..Len(assignments) : assignments[i].says \in SkillPolicies
<1>1. assignments \in Seq(Assignment)
  BY DEF PoliciesTypeOK
<1>2. \A a \in Assignment : a.says \in SkillPolicies
  BY DEF Assignment
<1>3. /\ DOMAIN assignments = 1..Len(assignments)
      /\ \A i \in 1..Len(assignments) : assignments[i] \in Assignment
  BY <1>1
<1> QED BY <1>2, <1>3

LEMMA TemplateSays ==
  ASSUME PoliciesTypeOK, NEW t \in Templates
  PROVE  TemplateSkill(t) \in SkillPolicies \cup {None}
BY DEF PoliciesTypeOK, TemplateSkill, SkillPolicies

LEMMA EffectiveSkillUnrolls ==
  ASSUME PoliciesTypeOK, NEW u \in Users, NEW n \in Names, profile[u][n].template \in Templates \cup {None}
  PROVE  \E b : /\ b[0] = IF profile[u][n].template = None THEN None
                           ELSE TemplateSkill(profile[u][n].template)
                /\ b[Len(assignments)] = EffectiveSkill(u, n)
                /\ \A i \in 1..Len(assignments) :
                     b[i] = Overridden(assignments[i], b[i - 1], u, n)
<1> DEFINE base == IF profile[u][n].template = None THEN None
                     ELSE TemplateSkill(profile[u][n].template)
<1> PICK k \in Nat : k = Len(assignments)
  BY DEF PoliciesTypeOK
<1>1. DOMAIN assignments = 1..k /\ \A i \in 1..k : assignments[i].says \in SkillPolicies
  BY AssignmentsSay
<1>2. base \in SkillPolicies \cup {None}
  BY TemplateSays
<1> DEFINE Folds(f) == f = [s \in SUBSET (1..k) |->
             IF s = {} THEN base ELSE Overridden(assignments[Max(s)], f[s \ {Max(s)}], u, n)]
<1>3. \E f : Folds(f)
  <2> DEFINE S == SkillPolicies \cup {None}
             G == [i \in 1..k |-> [x \in S |-> Overridden(assignments[i], x, u, n)]]
  <2>1. \A i \in 1..k, x \in S : Overridden(assignments[i], x, u, n) \in S
    BY <1>1 DEF Overridden
  <2>2. G \in [1..k -> [S -> S]] /\ base \in S
    BY <1>2, <2>1
  <2>3. \A i \in 1..k, x \in S : G[i][x] = Overridden(assignments[i], x, u, n)
    OBVIOUS
  <2> HIDE DEF S, G, base
  <2>4. PICK f \in [SUBSET (1..k) -> S] : IsFold(f, k, base, G)
    BY <2>2, FoldExists
  <2>5. ASSUME NEW s \in SUBSET (1..k), s # {}
        PROVE  G[Max(s)][f[s \ {Max(s)}]] = Overridden(assignments[Max(s)], f[s \ {Max(s)}], u, n)
    <3>1. Max(s) \in 1..k
      BY <2>5, GreatestNumber
    <3>2. f[s \ {Max(s)}] \in S
      OBVIOUS
    <3> QED BY <2>3, <3>1, <3>2
  <2>6. Folds(f)
    BY <2>4, <2>5 DEF IsFold
  <2> HIDE DEF Folds
  <2> QED BY <2>6
<1>4. PICK f : Folds(f) /\ EffectiveSkill(u, n) = f[1..k]
  BY <1>1, <1>3 DEF EffectiveSkill, FoldLeft, MapThenFoldSet, Overridden
<1>5. PICK b : /\ b[0] = base /\ b[k] = f[1..k]
               /\ \A i \in 1..k : b[i] = Overridden(assignments[i], b[i - 1], u, n)
  <2> DEFINE S == {f[s] : s \in SUBSET (1..k)}
             G == [i \in 1..k |-> [x \in S |-> Overridden(assignments[i], x, u, n)]]
  <2>1. \A i \in 1..k, x \in S : G[i][x] = Overridden(assignments[i], x, u, n)
    OBVIOUS
  <2>2. \A s \in SUBSET (1..k) : f[s] \in S
    OBVIOUS
  <2> HIDE DEF S, G, base
  <2>3. ASSUME NEW s \in SUBSET (1..k), s # {}
        PROVE  G[Max(s)][f[s \ {Max(s)}]] = Overridden(assignments[Max(s)], f[s \ {Max(s)}], u, n)
    <3>1. Max(s) \in 1..k
      BY <2>3, GreatestNumber
    <3>2. f[s \ {Max(s)}] \in S
      BY <2>2
    <3> QED BY <2>1, <3>1, <3>2
  <2>4. IsFold(f, k, base, G)
    BY <1>4, <2>3 DEF IsFold
  <2>5. PICK b : /\ b[0] = base /\ b[k] = f[1..k]
                 /\ \A i \in 1..k : b[i] = G[i][b[i - 1]] /\ b[i - 1] = f[1..(i - 1)]
    BY <2>4, FoldUnrolls
  <2>6. \A i \in 1..k : b[i] = Overridden(assignments[i], b[i - 1], u, n)
    <3> TAKE i \in 1..k
    <3>1. f[1..(i - 1)] \in S
      BY <2>2
    <3> QED BY <2>1, <2>5, <3>1
  <2> QED BY <2>5, <2>6
<1> QED BY <1>4, <1>5

\* Nothing that is said overrides blocked.
LEMMA BlockedStays ==
  ASSUME PoliciesTypeOK, \A u \in Users, n \in Names : profile[u][n].template \in Templates \cup {None}
  PROVE  BlockedSkillStaysOff
<1> SUFFICES ASSUME NEW u \in Users, NEW n \in Names,
                    \/ /\ profile[u][n].template # None
                       /\ TemplateSkill(profile[u][n].template) = "blocked"
                    \/ \E i \in DOMAIN assignments : /\ assignments[i].says = "blocked"
                                                     /\ AssignmentReaches(assignments[i].target, u, n)
             PROVE  ~SkillEnabled(u, n)
  BY RowsAreSomething DEF BlockedSkillStaysOff, TemplateSkill, SkillPolicies
<1> PICK k \in Nat : k = Len(assignments)
  BY DEF PoliciesTypeOK
<1>1. DOMAIN assignments = 1..k /\ \A i \in 1..k : assignments[i].says \in SkillPolicies
  BY AssignmentsSay
<1>2. PICK b : /\ b[0] = IF profile[u][n].template = None THEN None
                           ELSE TemplateSkill(profile[u][n].template)
               /\ b[k] = EffectiveSkill(u, n)
               /\ \A i \in 1..k : b[i] = Overridden(assignments[i], b[i - 1], u, n)
  BY EffectiveSkillUnrolls
<1>3. b[0] \in SkillPolicies \cup {None}
  BY <1>2, TemplateSays
<1>4. \A i \in 1..k : b[i - 1] \in SkillPolicies \cup {None} => b[i] \in SkillPolicies \cup {None}
  BY <1>1, <1>2 DEF Overridden
<1>5. PICK m \in 0..k : b[m] = "blocked" \/ (m # 0 /\ (b[m - 1] \in SkillPolicies \cup {None} => b[m] = "blocked"))
  <2>1. CASE profile[u][n].template # None /\ TemplateSkill(profile[u][n].template) = "blocked"
    BY <1>2, <2>1
  <2>2. ASSUME NEW i \in 1..k, assignments[i].says = "blocked", AssignmentReaches(assignments[i].target, u, n)
        PROVE  i # 0 /\ (b[i - 1] \in SkillPolicies \cup {None} => b[i] = "blocked")
    <3>1. b[i] = IF Overrides("blocked", b[i - 1]) THEN "blocked" ELSE b[i - 1]
      BY <1>2, <2>2 DEF Overridden
    <3>2. b[i - 1] \in SkillPolicies \cup {None} => Overrides("blocked", b[i - 1])
      BY DEF Overrides, SkillPriority, SkillPolicies
    <3> QED BY <3>1, <3>2
  <2> QED BY <1>1, <2>1, <2>2
<1>6. ASSUME NEW i \in 1..k, b[i - 1] = "blocked" PROVE b[i] = "blocked"
  <2>1. assignments[i].says \in SkillPolicies
    BY <1>1
  <2>2. Overrides(assignments[i].says, "blocked") => assignments[i].says = "blocked"
    BY <2>1, RowsAreSomething DEF Overrides, SkillPriority, SkillPolicies
  <2> QED BY <1>2, <1>6, <2>2 DEF Overridden
<1> DEFINE SoFar(i) == b[i] \in SkillPolicies \cup {None} /\ (i >= m => b[i] = "blocked")
           T == {i \in 0..k : ~SoFar(i)}
<1>7. SoFar(0)
  BY <1>3, <1>5
<1>8. ASSUME NEW i \in 1..k, SoFar(i - 1) PROVE SoFar(i)
  <2>1. b[i] \in SkillPolicies \cup {None}
    BY <1>4, <1>8
  <2>2. CASE i = m
    BY <1>5, <1>8, <2>1, <2>2
  <2>3. CASE i > m
    <3>1. b[i - 1] = "blocked"
      BY <1>8, <2>3
    <3> QED BY <1>6, <2>1, <3>1
  <2>4. CASE i < m
    BY <2>1, <2>4
  <2> QED BY <2>2, <2>3, <2>4
<1>9. SoFar(k)
  <2> HIDE DEF SoFar
  <2>1. T = {}
    <3> SUFFICES ASSUME T # {} PROVE FALSE
      OBVIOUS
    <3>1. T \in SUBSET Nat
      OBVIOUS
    <3>2. PICK i \in T : \A j \in T : i <= j
      <4> HIDE DEF T
      <4> QED BY <3>1, LeastNumber
    <3>3. i \in 0..k /\ ~SoFar(i)
      OBVIOUS
    <3>4. i \in 1..k /\ i - 1 \in 0..k
      BY <1>7, <3>3
    <3>5. i - 1 \in T
      BY <1>8, <3>3, <3>4
    <3>6. i <= i - 1
      BY <3>2, <3>5
    <3> QED BY <3>4, <3>6
  <2> QED BY <2>1
<1>10. EffectiveSkill(u, n) = "blocked"
  BY <1>2, <1>5, <1>9
<1> QED BY <1>10, RowsAreSomething DEF SkillEnabled, SkillPolicies

-----------------------------------------------------------------------------
(* What the resolvers decide.                                                *)

LEMMA OneDefaultInductive == MCSpec => []OneDefault
<1>1. MCInit => OneDefault
  BY DEF MCInit, PoliciesInit, OneDefault
<1>2. DirectoryTypeOK /\ OneDefault /\ [MCNext]_dirVars => OneDefault'
  <2> SUFFICES ASSUME DirectoryTypeOK, OneDefault, [MCNext]_dirVars PROVE OneDefault'
    OBVIOUS
  <2>1. CASE UNCHANGED templatePolicyVars
    BY <2>1 DEF OneDefault, templatePolicyVars
  <2>2. CASE SelfServiceNext \/ KnowledgeNext \/ SkillsNext
    BY <2>1, <2>2 DEF SelfServiceNext, CreateSelfServicePolicy, UpdateSelfServicePolicy,
       KnowledgeNext, SaveKnowledgePolicy, BindKnowledge, UnbindKnowledge,
       SkillsNext, SetTemplateSkill, InstallSkill
  <2>3. CASE TemplatesNext
    BY <2>3, OneDefaultKept DEF DirectoryTypeOK
  <2>4. CASE UNCHANGED policyVars
    BY <2>1, <2>4 DEF policyVars
  <2> QED BY <2>2, <2>3, <2>4 DEF MCNext, dirVars
<1> QED BY <1>1, <1>2, DirectoryTyped, PTL DEF MCSpec, dirVars

\* In whatever order the rows were inserted or are read: the policy of the most
\* specific row that applies decides, and one template for each runtime.
\* (effectiveSelfServicePolicy, effectiveKnowledgeAccessV033,
\* resolveRuntimeTemplate)
THEOREM MostSpecificDecides == MCSpec => []MostSpecificPolicyDecides
<1>1. DirectoryTypeOK /\ OneDefault => MostSpecificPolicyDecides
  BY Decides DEF DirectoryTypeOK, ProfilesTypeOK
<1> QED BY <1>1, DirectoryTyped, OneDefaultInductive, PTL

\* However many assignments a skill has and whatever else they say of it: it is
\* enabled for nobody for whom one of them blocks it, or the template if it is
\* among the skills that the template lists.
\* (effectiveSkills, effectiveSkillsV033Completion)
THEOREM BlockedSkillsOff == MCSpec => []BlockedSkillStaysOff
<1>1. DirectoryTypeOK => BlockedSkillStaysOff
  <2> SUFFICES ASSUME DirectoryTypeOK PROVE BlockedSkillStaysOff
    OBVIOUS
  <2>1. \A row \in ProfileRow : row.template \in Templates \cup {None}
    BY DEF ProfileRow
  <2>2. \A u \in Users, n \in Names : profile[u][n].template \in Templates \cup {None}
    BY <2>1 DEF DirectoryTypeOK, ProfilesTypeOK
  <2> QED BY <2>2, BlockedStays DEF DirectoryTypeOK
<1> QED BY <1>1, DirectoryTyped, PTL
=============================================================================
