------------------------------ MODULE SkillReview ------------------------------
(***************************************************************************)
(* The skill registry of the control plane: skills, their versions and     *)
(* files, the review workflow of the organization, the submissions of      *)
(* versions with their review instances, and publication.                  *)
(*                                                                         *)
(* The tables live in one MySQL database.  A handler that opens a          *)
(* transaction and locks what it decides on (submit, decide, save          *)
(* workflow) is one action.  A handler that issues separate autocommit     *)
(* statements (file edits, publication, skill creation) is one action per  *)
(* statement; what it has read lives in req until it writes.               *)
(*                                                                         *)
(* One file path per version stands for all of them: SKILL.md, the one     *)
(* the boot also writes.                                                   *)
(*                                                                         *)
(* An operator named <Definition>_<Slip> is not part of the model: it is   *)
(* the definition after it with a plausible mistake, kept to check that    *)
(* the properties would notice.                                            *)
(***************************************************************************)
EXTENDS Integers, Sequences, FiniteSets

CONSTANTS
  Skills,         \* ids of skills rows
  Versions,       \* ids of skill_versions rows
  SkillOf,        \* the skill each version belongs to
  Seeded,         \* versions the first boot inserted as published
  Contents,       \* bodies a client can write
  SeedText,       \* the SKILL.md body every boot writes
  Gone,           \* no file row
  Workflows,      \* ids 1..n of skill_review_workflows rows
  Roles, NoRole,  \* reviewer roles, NULL
  StaffedRoles,   \* roles bound to somebody who may review
  StepLists,      \* step lists an administrator can save
  Submissions,    \* ids of skill_submissions rows
  NoVersion,      \* the version of a submission not yet inserted
  Requests,       \* HTTP requests the server handles at the same time
  SubmitSchema,   \* has the schema the columns that submit writes?
  MaxFiles,       \* bound: file rows of one version, from which on none is deleted
  MaxRestarts,    \* bound: restarts of the server
  MaxErrors,      \* bound: statements the database refuses
  MaxFaults       \* bound: restarts and refused statements together

Modes == {"auto", "manual"}
StepDef == [mode : Modes, role : Roles \cup {NoRole}]

\* validateWorkflowStepsV033: a saved list is not empty, and a manual step
\* names a role.
ValidSteps(list) ==
  /\ list # <<>>
  /\ \A i \in DOMAIN list : list[i].mode = "manual" => list[i].role # NoRole

ASSUME SkillOfType == SkillOf \in [Versions -> Skills]
ASSUME SeededType ==
  /\ Seeded \subseteq Versions
  /\ \A v, w \in Seeded : SkillOf[v] = SkillOf[w] => v = w
ASSUME BodiesDistinct == Gone \notin Contents \cup {SeedText}
ASSUME WorkflowsType == Workflows \subseteq Nat /\ 1 \in Workflows
ASSUME RolesType == StaffedRoles \subseteq Roles /\ NoRole \notin Roles
ASSUME StepListsValid ==
  /\ StepLists \subseteq Seq(StepDef)
  /\ \A list \in StepLists : ValidSteps(list)
ASSUME NoVersionType == NoVersion \notin Versions
ASSUME SchemaType == SubmitSchema \in BOOLEAN
ASSUME BoundsType ==
  MaxFiles \in Nat /\ MaxRestarts \in Nat /\ MaxErrors \in Nat /\ MaxFaults \in Nat

VARIABLES
  skillStatus,    \* skills.status, "none" before the row exists
  skillLatest,    \* skills.latest_version, as the id of that version
  vStatus,        \* skill_versions.status
  vImmutable,     \* skill_versions.immutable
  vOrigin,        \* who inserted the version (its artifact_hash tells)
  fileGen,        \* how many file rows the version has had: the id of the last
  fileBody,       \* content of its file
  wfStatus,       \* skill_review_workflows.status
  wfSteps,        \* rows of skill_review_workflow_steps, in order
  subVersion,     \* skill_submissions.skill_version_id
  subStatus,      \* skill_submissions.status
  insStatus,      \* skill_review_instances.status
  steps,          \* rows of skill_review_steps, in order
  req,            \* what each request has read and still has to do
  restarts, errors

skillVars == <<skillStatus, skillLatest>>
versionVars == <<vStatus, vImmutable, vOrigin>>
fileVars == <<fileGen, fileBody>>
wfVars == <<wfStatus, wfSteps>>
reviewVars == <<subVersion, subStatus, insStatus, steps>>
faultVars == <<restarts, errors>>
vars == <<skillVars, versionVars, fileVars, wfVars, reviewVars, req, faultVars>>

-----------------------------------------------------------------------------
(* Types.                                                                  *)

SkillStatuses == {"none", "draft", "published"}
VersionStatuses == {"none", "draft", "in_review", "approved", "published"}
SubStatuses ==
  {"none", "in_review", "approved", "rejected", "changes_requested", "published"}
InsStatuses == {"none", "in_progress", "approved", "rejected", "changes_requested"}
StepStatuses ==
  {"pending", "in_progress", "approved", "rejected", "changes_requested"}
StepRow == [mode : Modes, role : Roles \cup {NoRole}, status : StepStatuses]
Decisions == {"approved", "rejected", "changes_requested"}

Bodies == Contents \cup {SeedText, Gone}

\* A request between two statements, named for the statement that comes next.
Idle == [op |-> "idle"]
Request ==
  {Idle}
  \cup [op : {"insert_version", "publish_version", "publish_skill_latest",
              "publish_skill"}, version : Versions]
  \cup [op : {"upsert_file"}, version : Versions, body : Contents]
  \cup [op : {"update_file"}, version : Versions, file : Nat, body : Contents]
  \cup [op : {"delete_file"}, version : Versions, file : Nat]
  \cup [op : {"publish_submission", "publish_submitted_version"},
        version : Versions, sub : Submissions]

TypeOK ==
  /\ skillStatus \in [Skills -> SkillStatuses]
  /\ skillLatest \in [Skills -> Versions \cup {NoVersion}]
  /\ vStatus \in [Versions -> VersionStatuses]
  /\ vImmutable \in [Versions -> BOOLEAN]
  /\ vOrigin \in [Versions -> {"user", "boot"}]
  /\ fileGen \in [Versions -> Nat]
  /\ fileBody \in [Versions -> Bodies]
  /\ wfStatus \in [Workflows -> {"none", "active", "disabled"}]
  /\ wfSteps \in [Workflows -> StepLists \cup {<<>>}]
  /\ subVersion \in [Submissions -> Versions \cup {NoVersion}]
  /\ subStatus \in [Submissions -> SubStatuses]
  /\ insStatus \in [Submissions -> InsStatuses]
  /\ steps \in [Submissions -> Seq(StepRow)]
  /\ req \in [Requests -> Request]
  /\ restarts \in 0..MaxRestarts
  /\ errors \in 0..MaxErrors

-----------------------------------------------------------------------------
(* The database after the first boot: the seeded skills are published, and  *)
(* the default workflow exists without steps, because the insert of its     *)
(* steps names a column the table does not have and the next boot finds the *)
(* workflow and leaves it.                                                  *)

Init ==
  /\ skillStatus = [k \in Skills |->
       IF \E v \in Seeded : SkillOf[v] = k THEN "published" ELSE "none"]
  /\ skillLatest = [k \in Skills |->
       IF \E v \in Seeded : SkillOf[v] = k
         THEN CHOOSE v \in Seeded : SkillOf[v] = k
         ELSE NoVersion]
  /\ vStatus = [v \in Versions |-> IF v \in Seeded THEN "published" ELSE "none"]
  /\ vImmutable = [v \in Versions |-> v \in Seeded]
  /\ vOrigin = [v \in Versions |-> IF v \in Seeded THEN "boot" ELSE "user"]
  /\ fileGen = [v \in Versions |-> IF v \in Seeded THEN 1 ELSE 0]
  /\ fileBody = [v \in Versions |-> IF v \in Seeded THEN SeedText ELSE Gone]
  /\ wfStatus = [w \in Workflows |-> IF w = 1 THEN "active" ELSE "none"]
  /\ wfSteps = [w \in Workflows |-> <<>>]
  /\ subVersion = [s \in Submissions |-> NoVersion]
  /\ subStatus = [s \in Submissions |-> "none"]
  /\ insStatus = [s \in Submissions |-> "none"]
  /\ steps = [s \in Submissions |-> <<>>]
  /\ req = [r \in Requests |-> Idle]
  /\ restarts = 0
  /\ errors = 0

Free(r) == req[r].op = "idle"
At(r, op) == req[r].op = op
Goto(r, next) == req' = [req EXCEPT ![r] = next]

-----------------------------------------------------------------------------
(* Skills and versions.                                                    *)

\* createSkill inserts the skill and, in a second statement, its version.
CreateSkill(r, v) ==
  LET k == SkillOf[v] IN
  /\ Free(r)
  /\ skillStatus[k] = "none"
  /\ skillStatus' = [skillStatus EXCEPT ![k] = "draft"]
  /\ skillLatest' = [skillLatest EXCEPT ![k] = v]
  /\ Goto(r, [op |-> "insert_version", version |-> v])
  /\ UNCHANGED <<versionVars, fileVars, wfVars, reviewVars, faultVars>>

\* The UNIQUE key (skill_id, version) refuses a second row, and createSkill
\* ignores the refusal.
CreateSkillInsertVersion(r) ==
  LET v == req[r].version IN
  /\ At(r, "insert_version")
  /\ vStatus' = [vStatus EXCEPT ![v] = IF @ = "none" THEN "draft" ELSE @]
  /\ Goto(r, Idle)
  /\ UNCHANGED <<skillVars, vImmutable, vOrigin, fileVars, wfVars, reviewVars,
                 faultVars>>

CreateSkillVersion(r, v) ==
  /\ Free(r)
  /\ skillStatus[SkillOf[v]] # "none"
  /\ vStatus[v] = "none"
  /\ vStatus' = [vStatus EXCEPT ![v] = "draft"]
  /\ UNCHANGED <<skillVars, vImmutable, vOrigin, fileVars, wfVars, reviewVars,
                 req, faultVars>>

-----------------------------------------------------------------------------
(* Files.  Each handler reads immutable in one statement and writes the    *)
(* file in a later one.                                                    *)

Editable_Always(v) == TRUE

Editable(v) == ~vImmutable[v]

MayFail == errors < MaxErrors /\ restarts + errors < MaxFaults

\* The handlers discard the error of their SELECTs: one that is refused reads
\* FALSE, which only matters where the row says TRUE.
FoundEditable(v) ==
  \/ Editable(v) /\ UNCHANGED errors
  \/ ~Editable(v) /\ MayFail /\ errors' = errors + 1

WriteFile(v, body) ==
  /\ fileGen' = [fileGen EXCEPT ![v] = IF fileBody[v] = Gone THEN @ + 1 ELSE @]
  /\ fileBody' = [fileBody EXCEPT ![v] = body]

\* A file row is found again by its id, which is never given twice.
FileExists(v, file) == fileBody[v] # Gone /\ fileGen[v] = file

UpsertSkillFileCheck(r, v, body) ==
  /\ Free(r)
  /\ vStatus[v] # "none"
  /\ FoundEditable(v)
  /\ Goto(r, [op |-> "upsert_file", version |-> v, body |-> body])
  /\ UNCHANGED <<skillVars, versionVars, fileVars, wfVars, reviewVars, restarts>>

UpsertSkillFileWrite(r) ==
  /\ At(r, "upsert_file")
  /\ WriteFile(req[r].version, req[r].body)
  /\ Goto(r, Idle)
  /\ UNCHANGED <<skillVars, versionVars, wfVars, reviewVars, faultVars>>

UpdateSkillFileCheck(r, v, body) ==
  /\ Free(r)
  /\ fileBody[v] # Gone
  /\ FoundEditable(v)
  /\ Goto(r, [op |-> "update_file", version |-> v, file |-> fileGen[v],
              body |-> body])
  /\ UNCHANGED <<skillVars, versionVars, fileVars, wfVars, reviewVars, restarts>>

\* An UPDATE or DELETE of a row that is gone changes nothing.
UpdateSkillFileWrite(r) ==
  LET v == req[r].version IN
  /\ At(r, "update_file")
  /\ fileBody' = [fileBody EXCEPT ![v] =
       IF FileExists(v, req[r].file) THEN req[r].body ELSE @]
  /\ Goto(r, Idle)
  /\ UNCHANGED <<skillVars, versionVars, fileGen, wfVars, reviewVars, faultVars>>

DeleteSkillFileCheck(r, v) ==
  /\ Free(r)
  /\ fileBody[v] # Gone
  /\ \A w \in Versions : fileGen[w] < MaxFiles
  /\ FoundEditable(v)
  /\ Goto(r, [op |-> "delete_file", version |-> v, file |-> fileGen[v]])
  /\ UNCHANGED <<skillVars, versionVars, fileVars, wfVars, reviewVars, restarts>>

DeleteSkillFileWrite(r) ==
  LET v == req[r].version IN
  /\ At(r, "delete_file")
  /\ fileBody' = [fileBody EXCEPT ![v] =
       IF FileExists(v, req[r].file) THEN Gone ELSE @]
  /\ Goto(r, Idle)
  /\ UNCHANGED <<skillVars, versionVars, fileGen, wfVars, reviewVars, faultVars>>

-----------------------------------------------------------------------------
(* The review workflow of the organization.                                *)

\* saveSkillReviewWorkflow inserts the next workflow or replaces the steps of
\* one; instances already created keep the steps they copied.
SaveWorkflow(r, w, list, status) ==
  /\ Free(r)
  /\ wfStatus[w] = "none" => \A x \in Workflows : x < w => wfStatus[x] # "none"
  /\ wfStatus' = [wfStatus EXCEPT ![w] = status]
  /\ wfSteps' = [wfSteps EXCEPT ![w] = list]
  /\ UNCHANGED <<skillVars, versionVars, fileVars, reviewVars, req, faultVars>>

\* The active workflow with the lowest id reviews a submission.
Reviewing(w) ==
  /\ wfStatus[w] = "active"
  /\ \A x \in Workflows : x < w => wfStatus[x] # "active"

Unfinished(step) == step.status \in {"pending", "in_progress"}

\* advanceAutoSkillReviewSteps approves automatic steps one after the other
\* until it meets a manual one, which it opens.  It gets as far as step i when
\* every unfinished step before i is automatic.
Reached_FirstOnly(list, i) == i = 1

Reached(list, i) ==
  /\ Unfinished(list[i])
  /\ \A j \in 1..(i - 1) : Unfinished(list[j]) => list[j].mode = "auto"

AdvanceAuto_OpensNone(list) ==
  [i \in DOMAIN list |->
    IF Reached(list, i) /\ list[i].mode = "auto"
      THEN [list[i] EXCEPT !.status = "approved"]
      ELSE list[i]]

AdvanceAuto(list) ==
  [i \in DOMAIN list |->
    IF Reached(list, i)
      THEN [list[i] EXCEPT !.status =
             IF list[i].mode = "auto" THEN "approved" ELSE "in_progress"]
      ELSE list[i]]

\* finishSkillReviewIfComplete looks for an unfinished step.
Complete_FirstStep(list) == ~Unfinished(list[1])

Complete(list) == \A i \in DOMAIN list : ~Unfinished(list[i])

\* What createSkillReviewInstance copies of the workflow.
Snapshot_WorkflowStatus(list) ==
  [i \in DOMAIN list |->
    [mode |-> list[i].mode, role |-> list[i].role, status |-> "active"]]

Snapshot(list) ==
  [i \in DOMAIN list |->
    [mode |-> list[i].mode, role |-> list[i].role,
     status |-> IF i = 1 THEN "in_progress" ELSE "pending"]]

-----------------------------------------------------------------------------
(* Submission and review.                                                  *)

OpenStatuses_NotApproved == {"in_review"}

OpenStatuses == {"in_review", "approved"}

HasOpenSubmission(v) ==
  \E s \in Submissions : subVersion[s] = v /\ subStatus[s] \in OpenStatuses

\* Write the steps of an instance and, when they are complete, approve the
\* instance, its submission and its version.
SaveReview(s, v, list, submission, version) ==
  LET done == Complete(list) IN
  /\ steps' = [steps EXCEPT ![s] = list]
  /\ insStatus' = [insStatus EXCEPT ![s] = IF done THEN "approved" ELSE "in_progress"]
  /\ subStatus' = [subStatus EXCEPT ![s] = IF done THEN "approved" ELSE submission]
  /\ vStatus' = [vStatus EXCEPT ![v] = IF done THEN "approved" ELSE version]

Submittable_NeedsFile(v) ==
  vStatus[v] # "none" /\ fileBody[v] # Gone /\ ~HasOpenSubmission(v)

Submittable(v) == vStatus[v] # "none" /\ ~HasOpenSubmission(v)

\* submitSkillVersionByID: refuse a version with an open submission, insert the
\* submission, put the version in review, copy the workflow, run the automatic
\* steps.  Any failure rolls the transaction back.
Submit(r, v, s) ==
  /\ Free(r)
  /\ SubmitSchema
  /\ Submittable(v)
  /\ subStatus[s] = "none"
  /\ subVersion' = [subVersion EXCEPT ![s] = v]
  /\ \E w \in Workflows :
       /\ Reviewing(w)
       /\ wfSteps[w] # <<>>
       /\ SaveReview(s, v, AdvanceAuto(Snapshot(wfSteps[w])), "in_review", "in_review")
  /\ UNCHANGED <<skillVars, vImmutable, vOrigin, fileVars, wfVars, req, faultVars>>

\* A step with no role is open to every reviewer, one with a role to those
\* bound to it.
StepActionable_NoInstanceCheck(s, i) ==
  /\ i \in DOMAIN steps[s]
  /\ steps[s][i].mode = "manual"
  /\ steps[s][i].role \in StaffedRoles \cup {NoRole}

StepActionable(s, i) ==
  /\ insStatus[s] = "in_progress"
  /\ i \in DOMAIN steps[s]
  /\ steps[s][i].status = "in_progress"
  /\ steps[s][i].mode = "manual"
  /\ steps[s][i].role \in StaffedRoles \cup {NoRole}

\* decideSkillReviewStep with an approval: close the step, open the next
\* pending one, run the automatic steps, finish when none is left.
ApproveStep(r, s, i) ==
  LET v == subVersion[s]
      closed == [steps[s] EXCEPT ![i].status = "approved"]
  IN
  /\ Free(r)
  /\ StepActionable(s, i)
  /\ SaveReview(s, v, AdvanceAuto(closed), subStatus[s], vStatus[v])
  /\ UNCHANGED <<skillVars, vImmutable, vOrigin, fileVars, wfVars, subVersion, req,
                 faultVars>>

\* decideSkillReviewStep with another decision: the step, the instance and the
\* submission take it; the version keeps the status it has.
RefuseStep(r, s, i, decision) ==
  /\ Free(r)
  /\ decision # "approved"
  /\ StepActionable(s, i)
  /\ steps' = [steps EXCEPT ![s][i].status = decision]
  /\ insStatus' = [insStatus EXCEPT ![s] = decision]
  /\ subStatus' = [subStatus EXCEPT ![s] = decision]
  /\ UNCHANGED <<skillVars, versionVars, fileVars, wfVars, subVersion, req, faultVars>>

-----------------------------------------------------------------------------
(* Publication.  Two handlers publish: one by submission, one by version.   *)
(* Both read an approval first and then write row after row.                *)

\* publishSubmission reads an approved submission.
PublishSubmissionCheck(r, s) ==
  /\ Free(r)
  /\ subStatus[s] = "approved"
  /\ Goto(r, [op |-> "publish_submission", version |-> subVersion[s], sub |-> s])
  /\ UNCHANGED <<skillVars, versionVars, fileVars, wfVars, reviewVars, faultVars>>

PublishSubmissionRow(r) ==
  /\ At(r, "publish_submission")
  /\ subStatus' = [subStatus EXCEPT ![req[r].sub] = "published"]
  /\ Goto(r, [req[r] EXCEPT !.op = "publish_submitted_version"])
  /\ UNCHANGED <<skillVars, versionVars, fileVars, wfVars, subVersion, insStatus,
                 steps, faultVars>>

SetPublished_NotImmutable(v) ==
  /\ vStatus' = [vStatus EXCEPT ![v] = "published"]
  /\ UNCHANGED vImmutable

SetPublished(v) ==
  /\ vStatus' = [vStatus EXCEPT ![v] = "published"]
  /\ vImmutable' = [vImmutable EXCEPT ![v] = TRUE]

PublishSubmittedVersion(r) ==
  LET v == req[r].version IN
  /\ At(r, "publish_submitted_version")
  /\ SetPublished(v)
  /\ Goto(r, [op |-> "publish_skill", version |-> v])
  /\ UNCHANGED <<skillVars, vOrigin, fileVars, wfVars, reviewVars, faultVars>>

PublishSubmittedSkill(r) ==
  /\ At(r, "publish_skill")
  /\ skillStatus' = [skillStatus EXCEPT ![SkillOf[req[r].version]] = "published"]
  /\ Goto(r, Idle)
  /\ UNCHANGED <<skillLatest, versionVars, fileVars, wfVars, reviewVars, faultVars>>

Publishable_AnyStatus(v) == vStatus[v] # "none"

\* publishSkillVersion asks the version, not its submission, for the approval.
Publishable(v) == vStatus[v] = "approved"

PublishSkillVersionCheck(r, v) ==
  /\ Free(r)
  /\ Publishable(v)
  /\ Goto(r, [op |-> "publish_version", version |-> v])
  /\ UNCHANGED <<skillVars, versionVars, fileVars, wfVars, reviewVars, faultVars>>

PublishSkillVersionRow(r) ==
  LET v == req[r].version IN
  /\ At(r, "publish_version")
  /\ SetPublished(v)
  /\ Goto(r, [op |-> "publish_skill_latest", version |-> v])
  /\ UNCHANGED <<skillVars, vOrigin, fileVars, wfVars, reviewVars, faultVars>>

PublishSkillVersionSkill(r) ==
  LET v == req[r].version IN
  /\ At(r, "publish_skill_latest")
  /\ skillStatus' = [skillStatus EXCEPT ![SkillOf[v]] = "published"]
  /\ skillLatest' = [skillLatest EXCEPT ![SkillOf[v]] = v]
  /\ Goto(r, Idle)
  /\ UNCHANGED <<versionVars, fileVars, wfVars, reviewVars, faultVars>>

\* The SELECT of the number of the version is refused and its error discarded:
\* latest_version becomes empty.  The row without a number that the next boot
\* inserts for it is left out.
PublishSkillVersionUnnumbered(r) ==
  LET k == SkillOf[req[r].version] IN
  /\ MayFail
  /\ At(r, "publish_skill_latest")
  /\ errors' = errors + 1
  /\ skillStatus' = [skillStatus EXCEPT ![k] = "published"]
  /\ skillLatest' = [skillLatest EXCEPT ![k] = NoVersion]
  /\ Goto(r, Idle)
  /\ UNCHANGED <<versionVars, fileVars, wfVars, reviewVars, restarts>>

-----------------------------------------------------------------------------
(* Faults.                                                                  *)

\* A refused statement ends the request, unless its handler discards the error
\* and goes on with the next statement.
StatementFails(r) ==
  /\ MayFail
  /\ ~Free(r)
  /\ errors' = errors + 1
  /\ IF At(r, "publish_submitted_version")
       THEN Goto(r, [op |-> "publish_skill", version |-> req[r].version])
       ELSE Goto(r, Idle)
  /\ UNCHANGED <<skillVars, versionVars, fileVars, wfVars, reviewVars, restarts>>

\* The versions seedSkillArtifacts visits: the latest one of every skill.
Latest(v) == skillStatus[SkillOf[v]] # "none" /\ skillLatest[SkillOf[v]] = v

\* The server stops, the requests it was handling with it, and boots again:
\* for every skill the latest version is inserted as published if it is
\* missing, gets the seed SKILL.md, and is made immutable.
Restart ==
  /\ restarts < MaxRestarts
  /\ restarts + errors < MaxFaults
  /\ restarts' = restarts + 1
  /\ req' = [r \in Requests |-> Idle]
  /\ vStatus' = [v \in Versions |->
       IF Latest(v) /\ vStatus[v] = "none" THEN "published" ELSE vStatus[v]]
  /\ vOrigin' = [v \in Versions |->
       IF Latest(v) /\ vStatus[v] = "none" THEN "boot" ELSE vOrigin[v]]
  /\ vImmutable' = [v \in Versions |-> Latest(v) \/ vImmutable[v]]
  /\ fileGen' = [v \in Versions |->
       IF Latest(v) /\ fileBody[v] = Gone THEN fileGen[v] + 1 ELSE fileGen[v]]
  /\ fileBody' = [v \in Versions |-> IF Latest(v) THEN SeedText ELSE fileBody[v]]
  /\ UNCHANGED <<skillVars, wfVars, reviewVars, errors>>

-----------------------------------------------------------------------------

SkillSteps(r) ==
  \/ \E v \in Versions : CreateSkill(r, v) \/ CreateSkillVersion(r, v)
  \/ CreateSkillInsertVersion(r)

FileSteps(r) ==
  \/ \E v \in Versions, body \in Contents :
       UpsertSkillFileCheck(r, v, body) \/ UpdateSkillFileCheck(r, v, body)
  \/ \E v \in Versions : DeleteSkillFileCheck(r, v)
  \/ UpsertSkillFileWrite(r)
  \/ UpdateSkillFileWrite(r)
  \/ DeleteSkillFileWrite(r)

SubmitStep(r) == \E v \in Versions, s \in Submissions : Submit(r, v, s)

DecideStep(r) ==
  \E s \in Submissions : \E i \in DOMAIN steps[s] :
    \/ ApproveStep(r, s, i)
    \/ \E decision \in Decisions : RefuseStep(r, s, i, decision)

ReviewSteps(r) ==
  \/ \E w \in Workflows, list \in StepLists, status \in {"active", "disabled"} :
       SaveWorkflow(r, w, list, status)
  \/ SubmitStep(r)
  \/ DecideStep(r)

PublishSteps(r) ==
  \/ \E s \in Submissions : PublishSubmissionCheck(r, s)
  \/ \E v \in Versions : PublishSkillVersionCheck(r, v)
  \/ PublishSubmissionRow(r)
  \/ PublishSubmittedVersion(r)
  \/ PublishSubmittedSkill(r)
  \/ PublishSkillVersionRow(r)
  \/ PublishSkillVersionSkill(r)
  \/ PublishSkillVersionUnnumbered(r)

Next ==
  \/ \E r \in Requests :
       SkillSteps(r) \/ FileSteps(r) \/ ReviewSteps(r) \/ PublishSteps(r)
         \/ StatementFails(r)
  \/ Restart

Spec == Init /\ [][Next]_vars

-----------------------------------------------------------------------------
(* Safety.                                                                  *)

AllApproved(list) ==
  list # <<>> /\ \A i \in DOMAIN list : list[i].status = "approved"

\* The version has a submission that passed every step of its workflow.
Reviewed(v) ==
  \E s \in Submissions : subVersion[s] = v /\ AllApproved(steps[s])

\* Steps before i are approved, steps after i have not been opened.
StoppedAt(list, i) ==
  /\ \A j \in 1..(i - 1) : list[j].status = "approved"
  /\ \A j \in (i + 1)..Len(list) : list[j].status = "pending"

\* An open review always has exactly one step to decide, a manual one: those
\* before it are approved and those after it wait.  No sequence of approvals and
\* automatic steps skips a step, opens two or leaves none open.
\* (createSkillReviewInstance, advanceAutoSkillReviewSteps,
\* decideSkillReviewStep)
ReviewInOrder ==
  \A s \in Submissions : insStatus[s] = "in_progress" =>
    \E i \in DOMAIN steps[s] :
      /\ steps[s][i].status = "in_progress"
      /\ steps[s][i].mode = "manual"
      /\ StoppedAt(steps[s], i)

\* What the submission says and what the steps of its instance say agree: it is
\* approved or published only when every step is approved, and refused only by
\* the decision on the step the review had come to.  (finishSkillReviewIfComplete,
\* decideSkillReviewStep, publishSubmission)
OutcomeMatchesSteps ==
  \A s \in Submissions :
    /\ subStatus[s] \in {"approved", "published"} => AllApproved(steps[s])
    /\ subStatus[s] \in {"rejected", "changes_requested"} =>
         \E i \in DOMAIN steps[s] :
           steps[s][i].status = subStatus[s] /\ StoppedAt(steps[s], i)

\* A version has at most one submission that is under review or approved and
\* not yet published, whatever publications and decisions run meanwhile.
\* (submitSkillVersionByID)
OneOpenSubmission ==
  \A s, t \in Submissions :
    /\ subVersion[s] = subVersion[t]
    /\ subStatus[s] \in {"in_review", "approved"}
    /\ subStatus[t] \in {"in_review", "approved"}
    => s = t

\* A version that a client created is published only after a review of it
\* passed every step, by either way of publishing, however stale the approval
\* the publication read has become.  (publishSubmission, publishSkillVersion)
PublishedWasReviewed ==
  \A v \in Versions :
    vStatus[v] = "published" /\ vOrigin[v] = "user" => Reviewed(v)

\* A skill is published only when one of its versions is immutable and was
\* either reviewed or inserted by the boot: the rows are written in an order
\* that a crash of the server cannot spoil.  (publishSubmission,
\* publishSkillVersion)  A refused statement, which publishSubmission ignores,
\* does spoil it.
PublishedSkillHasVersion == errors = 0 =>
  \A k \in Skills : skillStatus[k] = "published" =>
    \E v \in Versions :
      /\ SkillOf[v] = k
      /\ vImmutable[v]
      /\ vOrigin[v] = "boot" \/ Reviewed(v)

\* While a version is under review its row says so.  It holds when the server
\* handles one request at a time.  (submitSkillVersionByID, publishSubmission)
UnderReviewSaysSo ==
  \A s \in Submissions :
    subStatus[s] = "in_review" => vStatus[subVersion[s]] = "in_review"

\* A decision on a step is never taken back or replaced, and a step of a
\* closed review is never opened.  (decideSkillReviewStep)
DecisionsFinal ==
  [][\A s \in Submissions : \A i \in DOMAIN steps[s] :
       \/ steps[s][i].status \in Decisions
       \/ insStatus[s] \in {"approved"} \cup Decisions
       => steps'[s][i] = steps[s][i]]_vars

\* docs/skill-registry.md:5: the files of a published version do not change.
\* (upsertSkillFile, updateSkillFile, deleteSkillFile, seedSkillArtifacts)
KeepsPublishedContent ==
  \A v \in Versions :
    vStatus[v] = "published" /\ vImmutable[v] => fileBody'[v] = fileBody[v]
PublishedContentFrozen == [][KeepsPublishedContent]_vars

-----------------------------------------------------------------------------
(* Liveness.  A request the server has begun goes on; clients keep          *)
(* submitting drafts, and reviewers keep deciding the steps they may.       *)

Continue(r) ==
  \/ CreateSkillInsertVersion(r)
  \/ UpsertSkillFileWrite(r)
  \/ UpdateSkillFileWrite(r)
  \/ DeleteSkillFileWrite(r)
  \/ PublishSubmissionRow(r)
  \/ PublishSubmittedVersion(r)
  \/ PublishSubmittedSkill(r)
  \/ PublishSkillVersionRow(r)
  \/ PublishSkillVersionSkill(r)

DecideOn(s) ==
  \E r \in Requests : \E i \in DOMAIN steps[s] :
    \/ ApproveStep(r, s, i)
    \/ \E decision \in Decisions : RefuseStep(r, s, i, decision)

SubmitVersion(v) == \E r \in Requests, s \in Submissions : Submit(r, v, s)

Fairness ==
  /\ \A r \in Requests : WF_vars(Continue(r))
  /\ \A s \in Submissions : SF_vars(DecideOn(s))
  /\ \A v \in Versions : SF_vars(SubmitVersion(v))

FairSpec == Spec /\ Fairness

\* A review never gets stuck: while reviewers decide, it ends, also when the
\* server restarts or the database refuses statements.  (decideSkillReviewStep)
ReviewEnds ==
  \A s \in Submissions : subStatus[s] = "in_review" ~> subStatus[s] # "in_review"

\* A publication of a submission makes its version immutable, unless the server
\* stops or the database refuses a statement first.  (publishSubmission)
PublicationCompletes ==
  \A s \in Submissions, v \in Versions :
    subStatus[s] = "published" /\ subVersion[s] = v
      ~> vImmutable[v] \/ restarts > 0 \/ errors > 0

\* docs/skill-registry.md:5: submission changes the governance state.  A draft
\* that clients keep submitting to a workflow ready for it does not stay a draft.
SubmissionOpensReview ==
  \A v \in Versions :
    ~ <>[](/\ vStatus[v] = "draft"
           /\ \E w \in Workflows : Reviewing(w) /\ wfSteps[w] # <<>>
           /\ \E s \in Submissions : subStatus[s] = "none")

=============================================================================
