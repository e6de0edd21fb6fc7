------------------------------- MODULE Policies -------------------------------
(***************************************************************************)
(* Which of several rows decides for a user: self-service of one           *)
(* capability, access to one knowledge base, whether one skill is enabled  *)
(* on a profile, and the template of the user's runtime.                   *)
(*                                                                         *)
(* No query of a resolver asks for an order, so a table is a sequence in   *)
(* the order it is read, and a row is inserted anywhere.  A row names one  *)
(* target, as the pages of the administration send it; what a whitelist    *)
(* lists is left out, as is a template that lists a skill under both of    *)
(* its names.  Departments, roles and profiles of a user are those of      *)
(* ManagedProfiles.  <Definition>_<Slip> is the definition after it with a *)
(* plausible mistake.                                                      *)
(***************************************************************************)
EXTENDS ManagedProfiles, SequencesExt

CONSTANTS
  RuntimeTemplates,
  SeededTemplate,     \* Lightweight, which the seed makes the default
  MaxPolicies, MaxBindings, MaxAssignments, MaxRuntimeBindings,
                      \* bounds: rows of a table
  MaxDemotionErrors   \* bound: refused statements that no handler checks

ASSUME SeededTemplateExists == SeededTemplate \in RuntimeTemplates
ASSUME PolicyBounds == MaxAssignments \in Nat /\ MaxDemotionErrors \in Nat

VARIABLES
  selfPolicies,   \* user_self_service_policies of the capability
  accessPolicies, \* knowledge_user_policies of the knowledge base
  kbBindings,     \* knowledge_bindings of the knowledge base
  skillPublished, \* skills.status = 'published'
  assignments,    \* skill_assignments of the skill; no handler writes them
  skillListed,    \* templates whose default_skills list the skill
  skillSays,      \* what skill_policies of a template say of it, None if nothing
  installed,      \* profile_skill_installs of the skill
  runtimeTemplate,\* runtime_templates.status, "none" without a row
  defaults,       \* templates with is_default
  demoting,       \* templates a request has made the default and whose
                  \* rivals it has not yet demoted
  demotionErrors,
  runtimeBindings,\* runtime_template_bindings
  assigned        \* runtimes.template_id of each user

kbVars == <<accessPolicies, kbBindings>>
skillVars == <<skillPublished, assignments, skillListed, skillSays, installed>>
templatePolicyVars ==
  <<runtimeTemplate, defaults, demoting, demotionErrors, runtimeBindings, assigned>>
policyVars == <<selfPolicies, kbVars, skillVars, templatePolicyVars>>

Modes == {"disabled", "allowed", "whitelist", "admin_managed"}
Levels == {"query_only", "read", "contribute", "manage"}
SkillPolicies == {"blocked", "mandatory", "explicit", "default", "optional"}
SelfPolicy == [target : Sources, says : Modes]
AccessPolicy == [target : Sources, says : Levels]
Assignment == [target : Sources \cup (Users \X Names), says : SkillPolicies]
Priorities == {0, 1}   \* bound: priorities that are told apart
RuntimeBinding ==
  [template : RuntimeTemplates, target : Roles \cup Departments, priority : Priorities]
KbBinding ==
  [target : (Sources \ Users) \cup Templates \cup (Users \X Names), blocked : BOOLEAN]

ASSUME RowsAreSomething == None \notin SelfPolicy \cup AccessPolicy \cup SkillPolicies

PoliciesTypeOK ==
  /\ selfPolicies \in Seq(SelfPolicy)
  /\ accessPolicies \in Seq(AccessPolicy)
  /\ kbBindings \subseteq KbBinding
  /\ skillPublished \in BOOLEAN
  /\ assignments \in Seq(Assignment)
  /\ skillListed \subseteq Templates
  /\ skillSays \in [Templates -> SkillPolicies \cup {None}]
  /\ installed \subseteq Users \X Names
  /\ runtimeTemplate \in [RuntimeTemplates -> {"none", "active", "disabled"}]
  /\ defaults \subseteq RuntimeTemplates /\ demoting \subseteq RuntimeTemplates
  /\ demotionErrors \in 0..MaxDemotionErrors
  /\ runtimeBindings \subseteq RuntimeBinding
  /\ assigned \in [Users -> RuntimeTemplates \cup {None}]

Rank(target) ==
  CASE target = Everyone      -> 1
    [] target \in Departments -> 2
    [] target \in Roles       -> 3
    [] target \in Users       -> 4

\* Of rows of equal rank the one read last wins.
Beats_First(row, best) == FALSE
Beats(row, best) == Rank(row.target) >= Rank(best.target)

\* The row that decides for u, None when no row applies.
MostSpecific(rows, u) ==
  FoldLeft(LAMBDA best, row :
    IF Applies(row.target, u) /\ (IF best = None THEN TRUE ELSE Beats(row, best)) THEN row ELSE best,
    None, rows)

-----------------------------------------------------------------------------
(* Self-service.                                                              *)

EffectiveSelfService(u) ==
  LET best == MostSpecific(selfPolicies, u)
  IN IF best = None THEN "disabled" ELSE best.says

\* createSelfServicePolicy.  In the UNIQUE key of the table some column is NULL
\* in every row of this kind, so it refuses none.
CreateSelfServicePolicy == \E row \in SelfPolicy, i \in 1..Len(selfPolicies) + 1 :
  /\ Len(selfPolicies) < MaxPolicies
  /\ selfPolicies' = InsertAt(selfPolicies, i, row)
  /\ UNCHANGED <<kbVars, skillVars, templatePolicyVars>>

UpdateSelfServicePolicy == \E row \in SelfPolicy, i \in DOMAIN selfPolicies :
  /\ selfPolicies' = [selfPolicies EXCEPT ![i] = row]
  /\ UNCHANGED <<kbVars, skillVars, templatePolicyVars>>

-----------------------------------------------------------------------------
(* Knowledge.                                                                 *)

\* The active profiles of u and the templates they come from.
OwnAgents(u) == UNION {{<<u, n>>, profile[u][n].template} :
  n \in {n \in Names : profile[u][n].status = "active"}} \ {None}

BindingReaches(target, u) ==
  target \in OwnAgents(u) \/ (target \in Sources /\ Applies(target, u))

\* effectiveKnowledgeAccessV033: bindings count only when no policy applies.
KnowledgeAccess(u) ==
  LET best == MostSpecific(accessPolicies, u)
  IN IF best # None THEN best.says
     ELSE IF \E b \in kbBindings : ~b.blocked /\ BindingReaches(b.target, u) THEN "read"
     ELSE "none"

\* The UNIQUE key makes a second policy for a subject an update of the first.
SaveKnowledgePolicy == \E row \in AccessPolicy :
  /\ \/ \E i \in DOMAIN accessPolicies :
          /\ accessPolicies[i].target = row.target
          /\ accessPolicies' = [accessPolicies EXCEPT ![i] = row]
     \/ /\ \A i \in DOMAIN accessPolicies : accessPolicies[i].target # row.target
        /\ Len(accessPolicies) < MaxPolicies
        /\ \E i \in 1..Len(accessPolicies) + 1 : accessPolicies' = InsertAt(accessPolicies, i, row)
  /\ UNCHANGED <<selfPolicies, kbBindings, skillVars, templatePolicyVars>>

\* createKnowledgeBinding, createKnowledgeBindingV2
BindKnowledge == \E binding \in KbBinding \ kbBindings :
  /\ Cardinality(kbBindings) < MaxBindings
  /\ kbBindings' = kbBindings \cup {binding}
  /\ UNCHANGED <<selfPolicies, accessPolicies, skillVars, templatePolicyVars>>

UnbindKnowledge == \E binding \in kbBindings :
  /\ kbBindings' = kbBindings \ {binding}
  /\ UNCHANGED <<selfPolicies, accessPolicies, skillVars, templatePolicyVars>>

-----------------------------------------------------------------------------
(* Skills.                                                                    *)

SkillPriority == [blocked |-> 5, mandatory |-> 4, explicit |-> 3, default |-> 2, optional |-> 1]

AssignmentReaches(target, u, n) == target = <<u, n>> \/ (target \in Sources /\ Applies(target, u))

\* skillVisibleToUserV033
SkillVisible(u, n) ==
  /\ skillPublished
  /\ \/ assignments = <<>>
     \/ \E i \in DOMAIN assignments : AssignmentReaches(assignments[i].target, u, n)

Overrides_LastRead(policy, best) == TRUE
Overrides(policy, best) ==
  IF best = None THEN TRUE ELSE SkillPriority[policy] >= SkillPriority[best]

\* What a template says of a skill is looked up for the skills it lists only.
TemplateSkill(t) ==
  IF t \notin skillListed THEN None
  ELSE IF skillSays[t] = None THEN "default" ELSE skillSays[t]

\* effectiveSkills starts with what the template of the profile says.
EffectiveSkill(u, n) ==
  LET t == profile[u][n].template
  IN FoldLeft(LAMBDA best, a :
       IF AssignmentReaches(a.target, u, n) /\ Overrides(a.says, best) THEN a.says ELSE best,
       IF t = None THEN None ELSE TemplateSkill(t), assignments)

\* effectiveSkillsV033Completion adds what is installed unless it is there.
SkillEnabled(u, n) ==
  LET policy == EffectiveSkill(u, n)
  IN IF policy = None THEN <<u, n>> \in installed ELSE policy # "blocked"

\* createAgentTemplate and updateAgentTemplate write both columns as they are
\* sent, among them a policy for a skill that is not listed.
SetTemplateSkill == \E t \in Templates, policy \in SkillPolicies \cup {None} :
  /\ templateStatus[t] # "none"
  /\ skillListed' \in {skillListed \cup {t}, skillListed \ {t}}
  /\ skillSays' = [skillSays EXCEPT ![t] = policy]
  /\ UNCHANGED <<selfPolicies, kbVars, skillPublished, assignments, installed, templatePolicyVars>>

\* installWorkspaceSkillV033Hotfix; selfPolicies are those of
\* install_optional_skill.
InstallSkill == \E u \in Users, n \in Names :
  /\ profile[u][n].status # "none" /\ SkillVisible(u, n)
  /\ EffectiveSelfService(u) # "disabled"
  /\ installed' = installed \cup {<<u, n>>}
  /\ UNCHANGED <<selfPolicies, kbVars, skillPublished, assignments, skillListed, skillSays,
                 templatePolicyVars>>

-----------------------------------------------------------------------------
(* Runtime templates.                                                         *)

\* Every active template with is_default, LIMIT 1 returns any of them.
ActiveDefaults == {t \in defaults : runtimeTemplate[t] = "active"}

\* The rows that bind u by a role or the department.
Candidates(u) ==
  {b \in runtimeBindings : runtimeTemplate[b.template] = "active" /\ Applies(b.target, u)}

\* Other templates that are bound with the same priority.
Rivals(best, rows) ==
  {b \in rows : b.priority = best.priority /\ b.template # best.template}

\* resolveRuntimeTemplate: what it may answer, depending on the order in which
\* it reads the rows.
Resolutions(u) ==
  LET rows == Candidates(u)
      best == {b \in rows : \A c \in rows : c.priority <= b.priority}
  IN IF assigned[u] # None THEN {assigned[u]}
     ELSE IF rows # {} THEN {IF Rivals(b, rows) = {} THEN b.template ELSE "conflict" : b \in best}
     ELSE IF ActiveDefaults # {} THEN ActiveDefaults
     ELSE {"unresolved"}

\* createRuntimeTemplate and updateRuntimeTemplate write the row of t ...
WriteRuntimeTemplate == \E t \in RuntimeTemplates, isDefault \in BOOLEAN :
  /\ runtimeTemplate' =
       [runtimeTemplate EXCEPT ![t] = IF runtimeTemplate[t] = "none" THEN "active" ELSE @]
  /\ defaults' = (defaults \ {t}) \cup (IF isDefault THEN {t} ELSE {})
  /\ demoting' = demoting \cup (IF isDefault THEN {t} ELSE {})
  /\ UNCHANGED <<selfPolicies, kbVars, skillVars, demotionErrors, runtimeBindings, assigned>>

\* ... and then take the default from the others, ignoring an error.
DemoteRivals == \E t \in demoting :
  /\ demoting' = demoting \ {t}
  /\ \/ defaults' = defaults \cap {t} /\ UNCHANGED demotionErrors
     \/ /\ demotionErrors < MaxDemotionErrors
        /\ demotionErrors' = demotionErrors + 1
        /\ UNCHANGED defaults
  /\ UNCHANGED <<selfPolicies, kbVars, skillVars, runtimeTemplate, runtimeBindings, assigned>>

SetRuntimeTemplateStatus == \E t \in RuntimeTemplates, status \in {"active", "disabled"} :
  /\ runtimeTemplate[t] # "none"
  /\ runtimeTemplate' = [runtimeTemplate EXCEPT ![t] = status]
  /\ UNCHANGED <<selfPolicies, kbVars, skillVars, defaults, demoting, demotionErrors,
                 runtimeBindings, assigned>>

\* addRuntimeTemplateBinding, updateRuntimeTemplateBinding (which changes the
\* priority only) and deleteRuntimeTemplateBinding.  The resolver asks for
\* DISTINCT rows, so that a second row with the same content changes nothing.
ChangeRuntimeBindings ==
  /\ \/ \E b \in RuntimeBinding :
          /\ Cardinality(runtimeBindings) < MaxRuntimeBindings
          /\ runtimeTemplate[b.template] # "none"
          /\ runtimeBindings' = runtimeBindings \cup {b}
     \/ \E b \in runtimeBindings, p \in Priorities :
          runtimeBindings' = (runtimeBindings \ {b}) \cup {[b EXCEPT !.priority = p]}
     \/ \E b \in runtimeBindings : runtimeBindings' = runtimeBindings \ {b}
  /\ UNCHANGED <<selfPolicies, kbVars, skillVars, runtimeTemplate, defaults, demoting,
                 demotionErrors, assigned>>

\* provisionRuntime, ensureAutomaticProvisioned and updateRuntimeSpec: the
\* template that is asked for, else the default, if there is one.
AssignRuntimeTemplate == \E u \in Users :
  /\ userStatus[u] # "none"
  /\ \E t \in {t \in RuntimeTemplates : runtimeTemplate[t] # "none"}
           \cup (IF ActiveDefaults = {} THEN {None} ELSE {}) :
       assigned' = [assigned EXCEPT ![u] = t]
  /\ UNCHANGED <<selfPolicies, kbVars, skillVars, runtimeTemplate, defaults, demoting,
                 demotionErrors, runtimeBindings>>

\* The boot makes the seeded template the default again, and gives it to every
\* runtime that has none.
RestartTemplates ==
  /\ defaults' = {SeededTemplate}
  /\ assigned' = [u \in Users |->
       IF userStatus[u] # "none" /\ assigned[u] = None THEN SeededTemplate ELSE assigned[u]]
  /\ demoting' = {} /\ demotionErrors' = 0
  /\ UNCHANGED <<selfPolicies, kbVars, skillVars, runtimeTemplate, runtimeBindings>>

-----------------------------------------------------------------------------

\* The seed has one policy for the organization.
PoliciesInit ==
  /\ selfPolicies \in {<<[target |-> Everyone, says |-> m]>> : m \in {"disabled", "allowed"}}
  /\ accessPolicies = <<>> /\ kbBindings = {}
  /\ skillPublished \in BOOLEAN
  /\ assignments \in UNION {[1..k -> Assignment] : k \in 0..MaxAssignments}
  /\ skillListed = {} /\ skillSays = [t \in Templates |-> None]
  /\ installed = {}
  /\ runtimeTemplate = [t \in RuntimeTemplates |-> IF t = SeededTemplate THEN "active" ELSE "none"]
  /\ defaults = {SeededTemplate} /\ demoting = {} /\ demotionErrors = 0
  /\ runtimeBindings = {}
  /\ assigned = [u \in Users |-> None]

SelfServiceNext == CreateSelfServicePolicy \/ UpdateSelfServicePolicy
KnowledgeNext == SaveKnowledgePolicy \/ BindKnowledge \/ UnbindKnowledge
SkillsNext == SetTemplateSkill \/ InstallSkill
TemplatesNext == WriteRuntimeTemplate \/ DemoteRivals \/ SetRuntimeTemplateStatus
                 \/ ChangeRuntimeBindings \/ AssignRuntimeTemplate \/ RestartTemplates
PoliciesNext == SelfServiceNext \/ KnowledgeNext \/ SkillsNext \/ TemplatesNext

-----------------------------------------------------------------------------
(* What the resolvers promise.                                                *)

\* Does some row name u more specifically than target does?
Narrower(target, rows, u) == \E i \in DOMAIN rows : Applies(rows[i].target, u) /\
  \/ rows[i].target = u /\ target # u
  \/ rows[i].target \in Roles /\ target \in {Everyone} \cup Departments
  \/ rows[i].target \in Departments /\ target = Everyone

\* What rows allow to be the outcome for u, and what without any row that applies.
Outcomes(rows, u, otherwise) ==
  LET applying == {i \in DOMAIN rows : Applies(rows[i].target, u)}
  IN IF applying = {} THEN {otherwise}
     ELSE {rows[i].says : i \in {i \in applying : ~Narrower(rows[i].target, rows, u)}}

\* docs/user-workspace.md:9 and the comment at v033_knowledge_access.go:5: the
\* most specific policy that applies to a user decides, whatever other rows
\* there are and in whatever order they are read; without one self-service is
\* disabled, and knowledge is readable through a binding that does not block.
\* docs/runtime-lifecycle.md:20: the template of a runtime never depends on that
\* order either, not even where the default decides, unless a request is about
\* to demote the old default or was refused to.
\* (effectiveSelfServicePolicy, effectiveKnowledgeAccessV033,
\* resolveRuntimeTemplate)
MostSpecificPolicyDecides == \A u \in Users :
  /\ EffectiveSelfService(u) \in Outcomes(selfPolicies, u, "disabled")
  /\ KnowledgeAccess(u) \in Outcomes(accessPolicies, u,
       IF \E b \in kbBindings : ~b.blocked /\ BindingReaches(b.target, u) THEN "read" ELSE "none")
  /\ (demoting = {} /\ demotionErrors = 0) \/ Candidates(u) # {} => Cardinality(Resolutions(u)) = 1

\* docs/domain-model.md:35: of all that is said of a skill, blocked prevails: a
\* blocked skill is enabled for nobody it is blocked for, also where a client
\* installed it or the template wants it, and in whatever order the rows are
\* read.  A template blocks only a skill it lists: what its policies say of
\* another the code never reads.
\* (effectiveSkills, effectiveSkillsV033Completion)
BlockedSkillStaysOff == \A u \in Users, n \in Names :
  LET t == profile[u][n].template
      blocked == \/ t # None /\ t \in skillListed /\ skillSays[t] = "blocked"
                 \/ \E i \in DOMAIN assignments :
                      assignments[i].says = "blocked" /\ AssignmentReaches(assignments[i].target, u, n)
  IN blocked => ~SkillEnabled(u, n)
=============================================================================
