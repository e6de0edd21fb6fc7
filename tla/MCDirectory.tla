----------------------------- MODULE MCDirectory -----------------------------
(* One instance of what the administration keeps about the members of the     *)
(* organization.  The parts share no row that two of them write, so each is   *)
(* explored by itself: part says which one moves.                             *)
EXTENDS Policies, RolePermissions, TLC
VARIABLES
  part,
  disturbed,  \* did a request run into another since the last boot?
  handled,    \* users whose profiles or templates were changed by hand, or by
              \* an assignment that stopped, since their last consolidation
  asked       \* what the last change of a role asked for, None when another
              \* request, an error or a boot interfered

CONSTANTS t1, n1, ro1, ro2, p1, p2
Names1 == (t1 :> n1)
Grants == (ro1 :> {p1})
Revokes == (ro1 :> {p2})
Sym == Permutations(ProfRequests)

Parts == {"profiles", "roles", "self_service", "knowledge", "skills", "templates"}

-----------------------------------------------------------------------------

Quiet == \A r \in ProfRequests : Idle(r)
Interrupted == \E r \in ProfRequests :
  ~Idle(r) /\ (profReq'[r] = profReq[r] \/ calls' # calls)
Booted == profRestarts' # profRestarts
Reconciled ==
  {u \in Users : \/ Booted /\ userStatus[u] = "active"
                 \/ \E r \in ProfRequests : At(r, "prune") /\ profReq[r].user = u /\ profReq'[r] # profReq[r]}

\* Edits of an owner that were checked before the profile became managed.
StaleWrites ==
  {u \in Users : \E r \in ProfRequests, n \in Names :
     /\ At(r, "owner") /\ profReq[r].user = u /\ profReq[r].arg = n
     /\ profile[u][n].managed /\ profile'[u][n] # profile[u][n]}
\* Whom an assignment that stops halfway may leave with a new template.
Abandoned ==
  {u \in Users : \E r \in ProfRequests :
     /\ At(r, "target") /\ profReq'[r] = IdleProf /\ ~Booted
     /\ profReq[r].users = {} \/ u \in profReq[r].users}
ByHand == StaleWrites \cup Abandoned \cup
  (IF templateName' # templateName \/ (bindings' # bindings /\ profReq' = profReq) THEN Users
   ELSE {u \in Users : profile'[u] # profile[u] /\ calls' # calls})

\* The requests at work on role r.
Changing(r) == {q \in RoleRequests : roleReq[q].role = r}
Asked ==
  [r \in RoleIds |->
     CASE roleRestarts' # roleRestarts /\ (r \in DOMAIN SeedGrants \/ Changing(r) # {}) -> None
       [] roleErrors' # roleErrors /\ (\E q \in Changing(r) : roleReq'[q] # roleReq[q]) -> None
       [] Changing(r)' \ Changing(r) # {} ->
            IF Changing(r) # {} THEN None ELSE roleReq'[CHOOSE q \in Changing(r)' : TRUE].codes
       [] OTHER -> asked[r]]

-----------------------------------------------------------------------------

MCInit ==
  /\ part \in Parts
  /\ ProfilesInit /\ RolesInit /\ PoliciesInit
  /\ disturbed = FALSE /\ handled = {} /\ asked = [r \in RoleIds |-> None]
  /\ part # "skills" => ~skillPublished /\ assignments = <<>>
  /\ part \notin {"self_service", "skills"} => selfPolicies[1].says = "disabled"

MCNext ==
  /\ UNCHANGED part
  /\ \/ part = "profiles" /\ ProfilesNext /\ UNCHANGED <<roleVars, policyVars>>
     \/ part = "roles" /\ RolesNext /\ UNCHANGED <<profVars, policyVars>>
     \/ part = "self_service" /\ SelfServiceNext /\ UNCHANGED <<profVars, roleVars>>
     \/ part = "knowledge" /\ KnowledgeNext /\ UNCHANGED <<profVars, roleVars>>
     \/ part = "skills" /\ SkillsNext /\ UNCHANGED <<profVars, roleVars>>
     \/ part = "templates" /\ TemplatesNext /\ UNCHANGED <<profVars, roleVars>>
  /\ disturbed' = (~Booted /\ (disturbed \/ Interrupted))
  /\ handled' = (handled \ Reconciled) \cup ByHand
  /\ asked' = Asked

MCSpec ==
  MCInit /\ [][MCNext]_<<part, profVars, roleVars, policyVars, disturbed, handled, asked>>

-----------------------------------------------------------------------------

\* The types of the four modules.
DirectoryTypeOK == ProfilesTypeOK /\ RolesTypeOK /\ PoliciesTypeOK

\* docs/runtime-lifecycle.md, consolidateManagedAgents: whatever consolidations
\* overlap, once all requests are served no active user keeps an active managed
\* profile whose template is not active or not assigned to him; except after a
\* change by hand or an assignment that stopped halfway, which the next
\* consolidation repairs.
NoUnearnedProfile == Quiet =>
  \A u \in Users \ handled, n \in Names :
    userStatus[u] = "active" /\ profile[u][n].managed /\ profile[u][n].status = "active"
      => profile[u][n].template \in Matching(u)

\* consolidateManagedAgents: when no two requests overlap, every active user
\* ends up with one managed profile for each template that matches, shown with
\* its sources, and with no other active managed profile; whichever of the
\* handlers changed the user, the template or its assignments; except after a
\* change by hand or an assignment that stopped at one of its targets and left
\* those before it without a consolidation.  (assignAgentTemplate)
ProfilesFollowSourcesInSequence == Quiet /\ ~disturbed =>
  \A u \in Users \ handled : userStatus[u] = "active" => profile[u] = Consolidated(profile[u], u)

\* setRolePermissions: when no other request works on the role and no statement
\* is refused, the role has in the end the permissions that were asked for and
\* no other; also after a change that failed halfway or was overlapped.
PermissionsAsAskedInSequence == \A r \in RoleIds :
  asked[r] # None /\ Changing(r) = {} => granted[r] = asked[r] \cap Permissions
=============================================================================
