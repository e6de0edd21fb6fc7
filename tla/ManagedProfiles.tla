--------------------------- MODULE ManagedProfiles ---------------------------
(***************************************************************************)
(* Users, role bindings, agent templates and the managed profiles that are *)
(* consolidated from them.                                                 *)
(*                                                                         *)
(* Nearly every handler here ends in consolidateManagedAgents, which no    *)
(* transaction protects: it reads the templates that match a user, writes  *)
(* a profile and its sources for each, and disables the managed profiles   *)
(* whose template matches no longer.  profReq[r] says which statement      *)
(* request r executes next and what it has read.  A handler that works on  *)
(* several users (a batch, an import, a consolidation of everybody) keeps  *)
(* in users those whose turn is still to come.                             *)
(*                                                                         *)
(* suspended stands for suspended, disabled and archived, which no         *)
(* statement here tells apart.  The status of the user's runtime belongs   *)
(* to Runtimes, the request for approval of a protected role to            *)
(* ApprovalCenter; both handlers that bind roles consolidate only when     *)
(* they bind.  <Definition>_<Slip> is the definition after it with a       *)
(* plausible mistake.                                                      *)
(***************************************************************************)
EXTENDS Organization, Integers, FiniteSets

CONSTANTS
  StandardRole,    \* the role every new user is bound to
  Templates, Names,
  SeededUsers,     \* users and templates the boot seeds, the users with
  SeededDepartment,\* their department, the templates with their names
  SeededName,
  ProfRequests,    \* requests the server handles at the same time
  MaxRoleRows,     \* bound: rows of role_bindings for one user and role
  MaxCalls,        \* bound: requests that are served, a boot standing for one
  MaxProfRestarts  \* bound: restarts of the server

ASSUME StandardRoleExists == StandardRole \in Roles
ASSUME Seeds ==
  /\ SeededUsers \subseteq Users /\ SeededDepartment \in Departments \cup {None}
  /\ DOMAIN SeededName \subseteq Templates /\ SeededName \in [DOMAIN SeededName -> Names]
  /\ \A t1, t2 \in DOMAIN SeededName : SeededName[t1] = SeededName[t2] => t1 = t2
  /\ None \notin Names
ASSUME ProfBounds == MaxRoleRows \in Nat \ {0} /\ MaxCalls \in Nat /\ MaxProfRestarts \in Nat

VARIABLES
  userStatus,      \* users.status, "none" without a row
  department,      \* users.department_id
  roleRows,        \* how many rows of role_bindings a user and a role have
  templateStatus,  \* profile_templates.status, "none" without a row
  templateName,    \* profile_templates.name, UNIQUE in the organization
  bindings,        \* profile_template_bindings: templates with a source, which
                   \* may have more than one row
  profile,         \* profiles, UNIQUE (user_id, name)
  profReq,         \* what each request has read and still has to do
  calls, profRestarts

userVars == <<userStatus, department, roleRows>>
templateVars == <<templateStatus, templateName, bindings>>
profVars == <<userVars, templateVars, profile, profReq, calls, profRestarts>>

UserStatuses == {"pending", "active", "suspended"}
ProfileRow == [status : {"none", "active", "disabled"}, managed : BOOLEAN,
               template : Templates \cup {None}, shown : SUBSET Sources]
NoProfile == [status |-> "none", managed |-> FALSE, template |-> None, shown |-> {}]
Personal == [NoProfile EXCEPT !.status = "active"]

Tasks == UserStatuses \cup {"reconcile", "move", "bind", "import", "edit", "remove", "none"}
Steps == {"idle", "target", "list", "take", "bind_standard", "disable", "enable", "assign",
          "insert", "read", "upsert", "record", "prune", "owner"}
ProfRequest ==
  [next : Steps, task : Tasks, users : SUBSET Users, user : Users \cup {None},
   arg : Departments \cup Roles \cup Names \cup {None},
   targets : SUBSET (Templates \X Sources),
   found : SUBSET (Templates \X Names), at : (Templates \X Names) \cup {None}]
IdleProf == [next |-> "idle", task |-> "none", users |-> {}, user |-> None,
             arg |-> None, targets |-> {}, found |-> {}, at |-> None]

ProfilesTypeOK ==
  /\ userStatus \in [Users -> UserStatuses \cup {"none"}]
  /\ department \in [Users -> Departments \cup {None}]
  /\ roleRows \in [Users -> [Roles -> 0..MaxRoleRows]]
  /\ templateStatus \in [Templates -> {"none", "active", "disabled"}]
  /\ templateName \in [Templates -> Names \cup {None}]
  /\ bindings \subseteq Templates \X Sources
  /\ profile \in [Users -> [Names -> ProfileRow]]
  /\ profReq \in [ProfRequests -> ProfRequest]
  /\ calls \in 0..MaxCalls
  /\ profRestarts \in 0..MaxProfRestarts

\* The seeds bind their users and templates to the standard role.
ProfilesInit ==
  /\ userStatus = [u \in Users |-> IF u \in SeededUsers THEN "active" ELSE "none"]
  /\ department = [u \in Users |-> IF u \in SeededUsers THEN SeededDepartment ELSE None]
  /\ roleRows = [u \in Users |->
       [r \in Roles |-> IF u \in SeededUsers /\ r = StandardRole THEN 1 ELSE 0]]
  /\ templateStatus = [t \in Templates |-> IF t \in DOMAIN SeededName THEN "active" ELSE "none"]
  /\ templateName = [t \in Templates |-> IF t \in DOMAIN SeededName THEN SeededName[t] ELSE None]
  /\ bindings = (DOMAIN SeededName) \X {StandardRole}
  /\ profile = [u \in Users |-> [n \in Names |->
       IF u \in SeededUsers /\ \E t \in DOMAIN SeededName : SeededName[t] = n
       THEN [status |-> "active", managed |-> TRUE, shown |-> {StandardRole},
             template |-> CHOOSE t \in DOMAIN SeededName : SeededName[t] = n]
       ELSE NoProfile]]
  /\ profReq = [r \in ProfRequests |-> IdleProf]
  /\ calls = 0
  /\ profRestarts = 0

-----------------------------------------------------------------------------
(* Which templates a user should have.                                       *)

Applies(s, u) ==
  \/ s \in {Everyone, u, department[u]}
  \/ s \in Roles /\ roleRows[u][s] > 0

SourcesOf(t, u) == {s \in Sources : <<t, s>> \in bindings /\ Applies(s, u)}

Matching(u) == {t \in Templates : templateStatus[t] = "active" /\ SourcesOf(t, u) # {}}

\* What a consolidation nothing interrupts makes of the profiles of a user.
Consolidated(rows, u) ==
  [n \in Names |->
     LET row == rows[n]
         here == {t \in Matching(u) : templateName[t] = n}
     IN IF here # {}
        THEN LET t == CHOOSE t \in here : TRUE
             IN [status |-> "active", managed |-> TRUE, template |-> t, shown |-> SourcesOf(t, u)]
        ELSE IF row.managed /\ row.template \notin Matching(u)
             THEN [row EXCEPT !.status = "disabled"] ELSE row]

-----------------------------------------------------------------------------
(* How a request proceeds.                                                    *)

Exists(u) == userStatus[u] # "none"
Idle(r) == profReq[r].next = "idle"
At(r, step) == profReq[r].next = step
Goto(r, step) == profReq' = [profReq EXCEPT ![r].next = step]

MayServe == calls + profRestarts < MaxCalls
Serve == MayServe /\ calls' = calls + 1
Start(r, request) == Idle(r) /\ Serve /\ profReq' = [profReq EXCEPT ![r] = request]

ForUsers(task, us, arg) ==
  [IdleProf EXCEPT !.next = "take", !.task = task, !.users = us, !.arg = arg]
ForUser(u) == [IdleProf EXCEPT !.next = "read", !.user = u]
ForAll == [IdleProf EXCEPT !.next = "list"]

\* The request is done with its user and turns to the next.
Done(request) ==
  IF request.users = {} THEN IdleProf
  ELSE [request EXCEPT !.next = "take", !.user = None, !.found = {}, !.at = None]

-----------------------------------------------------------------------------
(* Users.                                                                     *)

Begin(r, request) == Start(r, request) /\ UNCHANGED <<userVars, templateVars, profile, profRestarts>>
Existing == {u \in Users : Exists(u)}
Places == Departments \cup {None}

SetUserStatus(r) == \E u \in Existing, st \in UserStatuses : Begin(r, ForUsers(st, {u}, None))

UpdateUser(r) == \E u \in Existing, d \in Places : Begin(r, ForUsers("move", {u}, d))

AssignUserRole(r) == \E u \in Existing, role \in Roles : Begin(r, ForUsers("bind", {u}, role))

AddRoleMembers(r) == \E us \in SUBSET Existing \ {{}}, role \in Roles :
  Begin(r, ForUsers("bind", us, role))

BatchUsers(r) == \E us \in SUBSET Existing \ {{}} :
  \/ \E st \in {"active", "suspended"} : Begin(r, ForUsers(st, us, None))
  \/ \E d \in Places : Begin(r, ForUsers("move", us, d))
  \/ \E role \in Roles : Begin(r, ForUsers("bind", us, role))

CreateUser(r) == \E u \in Users \ Existing, d \in Places : Begin(r, ForUsers("import", {u}, d))

\* validateImportRows: every row has a new name and an existing department.
ValidImport(us, d) == us # {} /\ us \cap Existing = {} /\ d \in Departments

ConfirmUserImport(r) == \E us \in SUBSET Users, d \in Places :
  ValidImport(us, d) /\ Begin(r, ForUsers("import", us, d))

ReconcileUser(r) == \E u \in Existing : Begin(r, ForUser(u))

\* A binding has no key but its id.
RemoveRows(r, u, role, left) ==
  /\ Start(r, ForUser(u))
  /\ roleRows' = [roleRows EXCEPT ![u][role] = left]
  /\ UNCHANGED <<userStatus, department, templateVars, profile, profRestarts>>

RemoveUserRole(r) == \E u \in Users, role \in Roles : RemoveRows(r, u, role, 0)

RemoveRoleMember(r) == \E u \in Users, role \in Roles :
  roleRows[u][role] > 0 /\ RemoveRows(r, u, role, roleRows[u][role] - 1)

TakeNext(r, u, step) ==
  /\ At(r, "take") /\ u \in profReq[r].users
  /\ profReq' = [profReq EXCEPT ![r].next = step, ![r].user = u, ![r].users = @ \ {u}]
  /\ UNCHANGED <<templateVars, profile, calls, profRestarts>>

\* A pending user keeps the profiles as they are.
AfterStatus == [pending |-> "idle", suspended |-> "disable", active |-> "enable"]
TakeStatus(r) == \E u \in Users :
  /\ profReq[r].task \in UserStatuses
  /\ TakeNext(r, u, AfterStatus[profReq[r].task])
  /\ userStatus' = [userStatus EXCEPT ![u] = profReq[r].task]
  /\ UNCHANGED <<department, roleRows>>

TakeMove(r) == \E u \in Users :
  /\ profReq[r].task = "move"
  /\ TakeNext(r, u, "read")
  /\ department' = [department EXCEPT ![u] = profReq[r].arg]
  /\ UNCHANGED <<userStatus, roleRows>>

TakeBind(r) == \E u \in Users :
  /\ profReq[r].task = "bind"
  /\ roleRows[u][profReq[r].arg] < MaxRoleRows
  /\ TakeNext(r, u, "read")
  /\ roleRows' = [roleRows EXCEPT ![u][profReq[r].arg] = @ + 1]
  /\ UNCHANGED <<userStatus, department>>

TakeReconcile(r) == \E u \in Users :
  /\ profReq[r].task = "reconcile"
  /\ TakeNext(r, u, "read")
  /\ UNCHANGED userVars

TakeImport(r) == \E u \in Users :
  /\ profReq[r].task = "import" /\ ~Exists(u)
  /\ TakeNext(r, u, "bind_standard")
  /\ userStatus' = [userStatus EXCEPT ![u] = "active"]
  /\ department' = [department EXCEPT ![u] = profReq[r].arg]
  /\ UNCHANGED roleRows

\* A row is refused, because the file has its name twice or it was taken
\* meanwhile: what was created stays, the rest is dropped.
ImportStops(r) ==
  /\ At(r, "take") /\ profReq[r].task = "import"
  /\ profReq' = [profReq EXCEPT ![r] = IdleProf]
  /\ UNCHANGED <<userVars, templateVars, profile, calls, profRestarts>>

\* assign when the setting runtime_provisioning is Automatic; updateSettings
\* may change it at any time.
AfterActive == {"assign", "read"}

BindStandardRole(r) == LET u == profReq[r].user IN
  /\ At(r, "bind_standard")
  /\ roleRows' = [roleRows EXCEPT ![u][StandardRole] = 1]
  /\ \E step \in AfterActive : Goto(r, step)
  /\ UNCHANGED <<userStatus, department, templateVars, profile, calls, profRestarts>>

SetManaged(u, status) ==
  profile' = [profile EXCEPT ![u] = [n \in Names |->
    IF @[n].managed THEN [@[n] EXCEPT !.status = status] ELSE @[n]]]

DisableManaged(r) ==
  /\ At(r, "disable")
  /\ SetManaged(profReq[r].user, "disabled")
  /\ profReq' = [profReq EXCEPT ![r] = Done(@)]
  /\ UNCHANGED <<userVars, templateVars, calls, profRestarts>>

EnableManaged(r) ==
  /\ At(r, "enable")
  /\ SetManaged(profReq[r].user, "active")
  /\ \E step \in AfterActive : Goto(r, step)
  /\ UNCHANGED <<userVars, templateVars, calls, profRestarts>>

-----------------------------------------------------------------------------
(* Consolidation.                                                             *)

Named(ts) == {<<t, templateName[t]>> : t \in ts}

\* consolidateAllManagedAgents reads who is active once.
ListUsers(r) == LET us == {u \in Users : userStatus[u] = "active"} IN
  /\ At(r, "list")
  /\ profReq' = [profReq EXCEPT ![r] = IF us = {} THEN IdleProf ELSE ForUsers("reconcile", us, None)]
  /\ UNCHANGED <<userVars, templateVars, profile, calls, profRestarts>>

\* assignProfileTemplates knows the organization and departments only.
AssignRead(r) ==
  LET u == profReq[r].user
      ts == {t \in Templates : templateStatus[t] = "active"
                 /\ SourcesOf(t, u) \cap ({Everyone} \cup Departments) # {}}
  IN
  /\ At(r, "assign")
  /\ profReq' = [profReq EXCEPT ![r].next = IF ts = {} THEN "read" ELSE "insert",
                                ![r].found = Named(ts)]
  /\ UNCHANGED <<userVars, templateVars, profile, calls, profRestarts>>

\* INSERT IGNORE leaves a profile of that name as it is.
AssignInsert(r) == LET u == profReq[r].user IN \E p \in profReq[r].found :
  /\ At(r, "insert")
  /\ profile' = [profile EXCEPT ![u][p[2]] =
       IF @.status = "none" THEN [Personal EXCEPT !.managed = TRUE, !.template = p[1]] ELSE @]
  /\ profReq' = [profReq EXCEPT ![r].found = @ \ {p},
                   ![r].next = IF profReq[r].found = {p} THEN "read" ELSE "insert"]
  /\ UNCHANGED <<userVars, templateVars, calls, profRestarts>>

NextTemplate(found) == IF found = {} THEN "prune" ELSE "upsert"

ReadMatching(r) == LET found == Named(Matching(profReq[r].user)) IN
  /\ At(r, "read")
  /\ profReq' = [profReq EXCEPT ![r].next = NextTemplate(found), ![r].found = found]
  /\ UNCHANGED <<userVars, templateVars, profile, calls, profRestarts>>

\* ON DUPLICATE KEY UPDATE takes over whatever profile has the name.
UpsertRow_KeepsStatus(row, t) ==
  [row EXCEPT !.status = IF @ = "none" THEN "active" ELSE @, !.managed = TRUE, !.template = t]
UpsertRow(row, t) == [row EXCEPT !.status = "active", !.managed = TRUE, !.template = t]

UpsertProfile(r) == LET u == profReq[r].user IN \E p \in profReq[r].found :
  /\ At(r, "upsert")
  /\ profile' = [profile EXCEPT ![u][p[2]] = UpsertRow(@, p[1])]
  /\ profReq' = [profReq EXCEPT ![r].next = "record", ![r].at = p, ![r].found = @ \ {p}]
  /\ UNCHANGED <<userVars, templateVars, calls, profRestarts>>

\* recordTemplateSources reads the sources again.
RecordSources(r) == LET u == profReq[r].user  p == profReq[r].at IN
  /\ At(r, "record")
  /\ profile' = [profile EXCEPT ![u][p[2]] =
       IF @.status = "none" THEN @ ELSE [@ EXCEPT !.shown = SourcesOf(p[1], u)]]
  /\ profReq' = [profReq EXCEPT ![r].next = NextTemplate(profReq[r].found), ![r].at = None]
  /\ UNCHANGED <<userVars, templateVars, calls, profRestarts>>

\* One statement that computes the matching templates afresh.
PruneManaged_KeepsUnmatched(rows, u) == rows
PruneManaged(rows, u) ==
  [n \in Names |-> IF rows[n].managed /\ rows[n].template \notin Matching(u)
                   THEN [rows[n] EXCEPT !.status = "disabled"] ELSE rows[n]]

Prune(r) == LET u == profReq[r].user IN
  /\ At(r, "prune")
  /\ profile' = [profile EXCEPT ![u] = PruneManaged(@, u)]
  /\ profReq' = [profReq EXCEPT ![r] = Done(@)]
  /\ UNCHANGED <<userVars, templateVars, calls, profRestarts>>

-----------------------------------------------------------------------------
(* Templates and their assignments.                                           *)

NameFree(n, t) == \A other \in Templates \ {t} : templateName[other] # n

\* createAgentTemplate, createProfileTemplate.
CreateTemplate == \E t \in Templates, n \in Names :
  /\ templateStatus[t] = "none" /\ NameFree(n, t) /\ Serve
  /\ templateStatus' = [templateStatus EXCEPT ![t] = "active"]
  /\ templateName' = [templateName EXCEPT ![t] = n]
  /\ UNCHANGED <<userVars, bindings, profile, profReq, profRestarts>>

\* updateAgentTemplate, updateProfileTemplate: nobody is consolidated.
RenameTemplate == \E t \in Templates, n \in Names :
  /\ templateStatus[t] # "none" /\ NameFree(n, t) /\ Serve
  /\ templateName' = [templateName EXCEPT ![t] = n]
  /\ UNCHANGED <<userVars, templateStatus, bindings, profile, profReq, profRestarts>>

SetTemplateStatus(r) == \E t \in Templates, st \in {"active", "disabled"} :
  /\ templateStatus[t] # "none"
  /\ Start(r, ForAll)
  /\ templateStatus' = [templateStatus EXCEPT ![t] = st]
  /\ UNCHANGED <<userVars, templateName, bindings, profile, profRestarts>>

\* Consolidates the users us after an assignment, everybody if it is to none.
ForTargets(us) == IF us = {} THEN ForAll ELSE ForUsers("reconcile", us, None)

\* targets are the bindings that a request has yet to insert.
Assigning(us, targets) ==
  IF targets = {} THEN ForTargets(us)
  ELSE [IdleProf EXCEPT !.next = "target", !.task = "reconcile", !.users = us, !.targets = targets]

\* The targets of one kind; {} if the organization is another one.
TargetLists ==
  (SUBSET Users) \cup (SUBSET Departments) \cup (SUBSET Roles) \cup {{Everyone}}

AssignTemplate(r) == \E t \in Templates, targets \in TargetLists :
  /\ templateStatus[t] # "none"
  /\ Begin(r, Assigning(targets \cap Users, {t} \X targets))

InsertTarget(r) == \E b \in profReq[r].targets :
  /\ At(r, "target") /\ (b[2] \in Users => Exists(b[2]))
  /\ bindings' = bindings \cup {b}
  /\ profReq' = [profReq EXCEPT ![r] = Assigning(@.users, @.targets \ {b})]
  /\ UNCHANGED <<userVars, templateStatus, templateName, profile, calls, profRestarts>>

\* A target does not exist, or its INSERT is refused: what was inserted stays,
\* and nobody is consolidated.
AssignStops(r) ==
  /\ At(r, "target")
  /\ profReq' = [profReq EXCEPT ![r] = IdleProf]
  /\ UNCHANGED <<userVars, templateVars, profile, calls, profRestarts>>

\* Another row may bind the template to the same source.
UnassignTemplate(r) == \E t \in Templates, s \in Sources :
  /\ <<t, s>> \in bindings
  /\ Start(r, ForTargets({s} \cap Users))
  /\ bindings' \in {bindings, bindings \ {<<t, s>>}}
  /\ UNCHANGED <<userVars, templateStatus, templateName, profile, profRestarts>>

\* bindProfileTemplate consolidates nobody.
BindTemplate == \E t \in Templates, s \in Sources \ Users :
  /\ templateStatus[t] # "none" /\ Serve
  /\ bindings' = bindings \cup {<<t, s>>}
  /\ UNCHANGED <<userVars, templateStatus, templateName, profile, profReq, profRestarts>>

-----------------------------------------------------------------------------
(* Profiles changed by hand.                                                  *)

WithProfile(u, n, row) ==
  /\ profile' = [profile EXCEPT ![u][n] = row]
  /\ UNCHANGED <<userVars, templateVars, profRestarts>>

NewProfile(u, n) ==
  /\ profile[u][n].status = "none" /\ Serve
  /\ WithProfile(u, n, Personal) /\ UNCHANGED profReq

CreateProfile == \E u \in Existing, n \in Names : NewProfile(u, n)

\* The user who asks is authenticated, so active.
CreatePersonalAgent == \E u \in Users, n \in Names : userStatus[u] = "active" /\ NewProfile(u, n)

SetProfileStatus == \E u \in Users, n \in Names, st \in {"active", "disabled"} :
  /\ profile[u][n].status # "none" /\ Serve
  /\ WithProfile(u, n, [profile[u][n] EXCEPT !.status = st]) /\ UNCHANGED profReq

\* A request that was about to write the row by its id finds none.
Forget(u, n) ==
  profReq' = [r \in ProfRequests |->
    IF At(r, "owner") /\ profReq[r].user = u /\ profReq[r].arg = n THEN IdleProf ELSE profReq[r]]

DeleteProfile == \E u \in Users, n \in Names :
  /\ profile[u][n].status # "none" /\ Serve
  /\ WithProfile(u, n, NoProfile) /\ Forget(u, n)

\* updatePersonalAgent, deletePersonalAgent: managed profiles are refused.
OwnerCheck(r) == \E u \in Users, n \in Names, task \in {"edit", "remove"} :
  /\ userStatus[u] = "active"
  /\ profile[u][n].status # "none" /\ ~profile[u][n].managed
  /\ Start(r, [IdleProf EXCEPT !.next = "owner", !.task = task, !.user = u, !.arg = n])
  /\ UNCHANGED <<userVars, templateVars, profile, profRestarts>>

OwnerEdit(r) == LET u == profReq[r].user  n == profReq[r].arg IN \E st \in {"active", "disabled"} :
  /\ At(r, "owner") /\ profReq[r].task = "edit"
  /\ WithProfile(u, n, [profile[u][n] EXCEPT !.status = st])
  /\ profReq' = [profReq EXCEPT ![r] = IdleProf] /\ UNCHANGED calls

OwnerRemove(r) == LET u == profReq[r].user  n == profReq[r].arg IN
  /\ At(r, "owner") /\ profReq[r].task = "remove"
  /\ WithProfile(u, n, NoProfile)
  /\ Forget(u, n) /\ UNCHANGED calls

-----------------------------------------------------------------------------

SeededNames == {SeededName[t] : t \in DOMAIN SeededName}

\* The boot inserts a template for every seeded name nobody has, so also for
\* one that was renamed.
SeedTemplates ==
  \E made \in [Templates -> SeededNames \cup {None}] :
    LET fresh == {t \in Templates : made[t] # None} IN
    /\ \A t \in fresh : templateStatus[t] = "none" /\ NameFree(made[t], t)
    /\ \A t1, t2 \in fresh : made[t1] = made[t2] => t1 = t2
    /\ \A n \in SeededNames : \E t \in Templates : n \in {made[t], templateName[t]}
    /\ templateStatus' = [t \in Templates |-> IF t \in fresh THEN "active" ELSE templateStatus[t]]
    /\ templateName' = [t \in Templates |-> IF t \in fresh THEN made[t] ELSE templateName[t]]

\* The server stops anywhere.  Before it serves again the boot restores the
\* bindings of the seeded users and of whatever templates have the seeded
\* names, and consolidates every active user.
RestartProf ==
  /\ profRestarts < MaxProfRestarts
  /\ profRestarts' = profRestarts + 1
  /\ profReq' = [r \in ProfRequests |-> IdleProf]
  /\ SeedTemplates
  /\ bindings' = bindings \cup
       {<<t, StandardRole>> : t \in {t \in Templates : templateName'[t] \in SeededNames}}
  /\ roleRows' = [u \in Users |-> [r \in Roles |->
       IF u \in SeededUsers /\ r = StandardRole /\ roleRows[u][r] = 0 THEN 1 ELSE roleRows[u][r]]]
  /\ UNCHANGED <<userStatus, department, calls>>
  /\ \E before \in {profile} : profile' = [u \in Users |->
       IF userStatus[u] = "active" THEN Consolidated(before[u], u)' ELSE before[u]]

\* What a request may begin with, how it goes on, and requests of one statement.
ProfilesNext ==
  \/ \E r \in ProfRequests :
       \/ /\ Idle(r) /\ MayServe
          /\ \/ SetUserStatus(r) \/ UpdateUser(r) \/ AssignUserRole(r) \/ AddRoleMembers(r)
             \/ BatchUsers(r) \/ CreateUser(r) \/ ConfirmUserImport(r)
             \/ ReconcileUser(r) \/ RemoveUserRole(r) \/ RemoveRoleMember(r)
             \/ SetTemplateStatus(r) \/ AssignTemplate(r) \/ UnassignTemplate(r)
             \/ OwnerCheck(r)
       \/ /\ ~Idle(r)
          /\ \/ TakeStatus(r) \/ TakeMove(r) \/ TakeBind(r) \/ TakeReconcile(r)
             \/ TakeImport(r) \/ ImportStops(r) \/ BindStandardRole(r)
             \/ InsertTarget(r) \/ AssignStops(r)
             \/ DisableManaged(r) \/ EnableManaged(r)
             \/ ListUsers(r) \/ AssignRead(r) \/ AssignInsert(r) \/ ReadMatching(r)
             \/ UpsertProfile(r) \/ RecordSources(r) \/ Prune(r)
             \/ OwnerEdit(r) \/ OwnerRemove(r)
  \/ /\ MayServe
     /\ \/ CreateTemplate \/ RenameTemplate \/ BindTemplate
        \/ CreateProfile \/ CreatePersonalAgent \/ SetProfileStatus \/ DeleteProfile
  \/ RestartProf

ProfilesSpec == ProfilesInit /\ [][ProfilesNext]_profVars
=============================================================================
