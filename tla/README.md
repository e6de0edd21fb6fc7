# Verification of the Hermes Agent Platform control plane

TLA+ modules, TLC configurations and TLAPS proofs for the backend of the
platform (`src/backend`). The modules are translations of the Go code and the SQL
schema; file names below are relative to `src/backend/cmd/server` unless they
start with `src/`.

## The system

One Go process (gin) serves an HTTP API over one MySQL database. Each request
runs in its own goroutine on a connection pool without a limit. Apart from the
session map, the mock runtime provider and a few caches, all state is rows. A
handler is one of two kinds, and the difference decides how it is modelled:

* **transactional**: `Begin`, `SELECT ... FOR UPDATE` on the rows it decides on,
  updates, `Commit`. One action.
* **statement by statement**: each `db.Exec` commits alone. What the handler has
  read may be stale when it writes, the process may stop between two statements,
  and several handlers discard the error of a statement and go on. One action for
  each statement that matters, with what was read kept in the request.

| component | state | operations | what is hard | what makes it correct |
|---|---|---|---|---|
| Skill registry and review (`v033_completion_hotfix.go`, `phase2.go`, `main.go`, `phase2_seed.go`) | skills, versions, files, workflows and steps, submissions, review instances and steps | create, edit files, save workflow, submit, decide, publish (two handlers), boot seeding | publication in three statements, file edits against publication, boot writes, resubmission | reviews go in order, outcomes agree with steps, one open submission, nothing unreviewed published, published content frozen |
| Approvals, executions, kill switch (`v033_completion_helpers.go`, `phase3_execution.go`, `phase3.go`) | approval requests and steps, executions, kill flags | request, decide, execute, kill, start | the request is inserted before what it approves; decisions overwrite cancelled work | one decision each, its effect applied once, cancelled work stays cancelled |
| Knowledge content (`phase3_knowledge.go`, `phase2.go`) | items, documents, their versions, index state | create, update, publish, delete | version read, then written; publication of a version that changed meanwhile | version history immutable, what is published is what was indexed |
| Knowledge imports (`v033_completion_hotfix.go`, `v033_completion_knowledge.go`) | import jobs, items | preview, confirm | duplicates found outside the transaction; an error inside it only counts | every row accounted for, no title twice among items of a type |
| Knowledge access (`v033_knowledge_access.go`) | policies, bindings | save, bind, unbind, resolve | precedence, rows in any order | the most specific policy decides |
| Policy resolution (`phase3.go`, `v03_workspace.go`, `v022_relationships.go`) | self-service policies, skill assignments and installs, runtime templates and bindings | save, bind, resolve | rows in any order, two defaults | the most specific policy decides, a blocked skill is off, a conflict is reported |
| Migrations and boot (`main.go`, `phase2_migration.go`, `src/backend/migrations`) | applied versions, schema | apply, seed | a schema change commits; a crash leaves half a file | a recorded file is complete |
| Users and managed profiles (`phase3_templates.go`, `phase2_lifecycle.go`, `v022_relationships.go`) | users, profiles, templates, assignments | create, import, batch, change status, assign, consolidate | consolidation runs concurrently with itself and with what it reads | one managed profile per template that matches, none beside |
| Roles (`phase2.go`, `v022_relationships.go`) | bindings, permissions | bind, unbind, set permissions | delete, then insert one by one | a role ends with the permissions asked for |
| Runtimes and hosts (`phase3.go`, `main.go`, `v032_infrastructure.go`, `v033_admin_workspace.go`) | status, desired and observed, host, the provider's map | control, kill, configure, add and remove hosts | provider call then row; count then delete | row and provider agree, a placed runtime has its host |
| Chat (`v033_completion_hotfix.go`) | messages, candidates | send, regenerate, select | candidates of candidates, two messages at once | one candidate in the context |
| Sessions, secrets, audit, knowledge bases, frontend | see `PROJECT.json` | | | |

`PROJECT.json` lists every component with its status, and the hazards of the code
at the lines where they bite.

## Modules

| module | what it is |
|---|---|
| `SkillReview` | the skill registry: state, actions, properties, fairness |
| `MCSkillReview`, `MCSkillReviewConcurrent` | its instances for TLC |
| `SkillReviewProofs` | its inductive invariant, theorems and proofs |
| `VersionHistory` | abstract: what versions of an item promise |
| `KnowledgeItems` | knowledge items, their versions and the index; implements `VersionHistory` |
| `KnowledgeItemsProofs` | invariant, refinement, and requests one after the other, proved |
| `KnowledgeDocuments` | knowledge documents, their versions and the index |
| `KnowledgeDocumentsProofs` | one draft per document, and requests one after the other, proved |
| `MCKnowledgeItems`, `MCKnowledgeDocuments` | their instances for TLC |
| `ApprovalCenter` | approval requests and steps, executions, installations, the kill switch |
| `MCApprovalCenter` | its instances for TLC |
| `ApprovalCenterProofs` | its inductive invariant, theorems and proofs |
| `Organization` | users, departments, roles: the constants of the three modules below |
| `ManagedProfiles` | users, role bindings, agent templates, and the profiles consolidated from them |
| `RolePermissions` | the permissions of roles |
| `Policies` | tables of policies and the resolvers that read them; takes users and profiles from `ManagedProfiles` |
| `MCDirectory` | one instance of these |
| `DirectoryProofs` | types, permissions, managed profiles, policies and blocked skills, proved |
| `Runtimes` | runtimes, the provider, hosts |
| `Conversations` | messages and candidates of a conversation |
| `KnowledgeImports` | imports into a knowledge base |
| `SchemaMigrations` | the boot and its migration files |
| `SchemaMigrationsProofs` | a recorded migration is complete, proved |
| `MCOperations` | one instance of these four |
| `ConversationsProofs` | one candidate in the context, proved |
| `OperationsProofs` | runtimes, imports and the types of all four, proved; extends the two proof modules of their parts |

### SkillReview

Variables are columns: `skillStatus`, `skillLatest`, `vStatus`, `vImmutable`,
`fileBody`, `wfSteps`, `subStatus`, `insStatus`, `steps`. `vOrigin` says whether a
client or the boot inserted a version (the two write different artifact hashes).
`req` holds, for each request the server is handling, the statement that comes
next and what was read for it.

* `CreateSkill`, `CreateSkillInsertVersion`: `createSkill`, two statements, the
  second with its error discarded.
* `UpsertSkillFile*`, `UpdateSkillFile*`, `DeleteSkillFile*`: `Check` reads
  `immutable`, `Write` changes the file. One path stands for all: `SKILL.md`. The error
  of the SELECT is discarded, and a refused one reads FALSE: `FoundEditable` lets a request
  into a published version at the price of one of the `errors`.
* `SaveWorkflow`, `Submit`, `ApproveStep`, `RefuseStep`: transactions.
  `AdvanceAuto` gives the closed form of the loop in
  `advanceAutoSkillReviewSteps...`, `Complete` the count in
  `finishSkillReviewIfComplete...`.
* `PublishSubmission*` (three statements, the errors of the last two discarded)
  and `PublishSkillVersion*`: the two ways to publish. `PublishSkillVersionUnnumbered` is
  the second when its SELECT of the number is refused and it empties `latest_version`; the
  version row without a number that the next boot inserts for it is left out.
* `StatementFails`: the database refuses a statement. `Restart`: the process
  stops anywhere and boots again, with what `seedSkillArtifacts` does.

`SubmitSchema` says whether `skill_versions` has the column `updated_at`, which
`Submit` writes. The migrations do not create it (first finding), so on the
shipped schema no review ever starts; every other run takes the schema the code
expects, for otherwise nothing about reviews could be said.

Left out: permissions (any request may come from somebody who has them), texts,
hashes, audit rows, notifications, and the superseded handlers that no route
reaches. Role membership is the constant `StaffedRoles`. Concurrent creation of
one skill is decided by the UNIQUE key, as in the table.

Operators named `<Definition>_<Slip>` are the definition with a plausible mistake.
They are no part of the model: each property is shown to fail when the mistake
replaces the definition, so that no property holds emptily.

### VersionHistory and KnowledgeItems

`VersionHistory` is what `src/docs/knowledge-base.md` promises: an owner gets
numbered versions, a version keeps its body while its owner exists, a released one
stays released. `KnowledgeItems` is the code: the administration's handlers
(`phase3_knowledge.go`) issue autocommit statements, those of the workspace
(`v033_workspace_knowledge.go`) and the imports use a transaction. `History`
maps `versionBody` to the bodies, the rows with status `published` to the released
numbers and items whose row is gone to the removed owners.

* `CreateItem` and `InsertRow`, `UpdateRead`, `UpdateWrite` and `InsertRow`,
  `PublishRead`, `PublishReadPayload`, `PublishItem`, `PublishVersion`,
  `IndexDocument` and `MarkIndexed` are the statements of `createKnowledgeItem`,
  `updateKnowledgeItem` and `publishKnowledgeItem`; `DeleteItem` is one statement.
  `UpdateReadFails` is the refused SELECT of the version, whose error is discarded: the
  update goes on with version 1.
* `CreateItemTx`, `WorkspaceUpdateCheck` with `WorkspaceUpdate`, and
  `WorkspaceDelete` are the workspace's. The check runs before the transaction.
  `WorkspaceDelete` also checks before it writes, but the write is the same
  whatever happened in between, so it is one step.
* `indexBody` is what `MockKnowledgeProvider.IndexDocument` was handed last. The
  provider does nothing with it; the interface is what a real one would see.

The content columns of an item and the payload of a version are one `Bodies`
value. A client's status is any string; `draft` and `published` stand for those the
code distinguishes.

### KnowledgeDocuments

The older document handlers (`phase2.go`): every statement commits alone and, apart
from the inserts of `createDocument`, every error of a write is discarded, which is
why `StatementFails` goes on where `KnowledgeItems` ends, and `UpdateReadFails` goes on
as if there were no version. An update edits the newest
version if it read that it is a draft and inserts the next one otherwise, so unlike
items, documents do **not** implement `VersionHistory`: drafts are edited in place
by design, and an update that overlaps a publication edits a published version.

### ApprovalCenter

`approval`, `step`, `execution` and `install` are rows of `approval_requests`,
`approval_steps`, `executions` and `profile_skill_installs`; `killed` is the set of
runtimes with `kill_switch_enabled`.

* `Decide` is `decideApprovalV033Hotfix`, to which both routes lead: one transaction
  that changes the request, its step and, by type, executions (`ApplyToExecutions`) or
  an installation (`ApplyToInstalls`, where a failure rolls everything back).
* `CreateRequest` with `InsertStep` is `createApproval`, called by
  `createApprovalRequest` and by the handlers that ask instead of acting.
  `RequestExecution`, `InsertStep`, `InsertExecution` are `createExecution` for high
  or critical risk, `RunExecution` for any other.
* `KillRuntime` and `CancelExecutions` are the two statements of `runtimeKillSwitch`.
* `Restart` boots again, with `seedPhase3Executions`.

A skill on a profile is one `Places` value with an `Owner`. Of the metadata of a
request only the place an installation names is kept. A role elevation cannot be approved
(`CanElevate`): the INSERT of its role binding (`v033_completion_helpers.go:118`) names six
columns and seven values, is always refused, and the decision rolls back; it can be
rejected. `createWorkspaceSkillInstallApprovalV033` always rolls back, since
its insert names a column `approval_requests` does not have, and is no action.

### Organization, ManagedProfiles, RolePermissions, Policies

`ManagedProfiles` follows every handler that changes who should have which managed
profile (`createUser`, `updateUser`, `setUserStatus`, roles from both sides, batches,
the import of users, templates and their assignments, the profiles themselves) to its
end in `consolidateManagedAgents`, statement by statement: `ReadMatching`,
`UpsertProfile`, `RecordSources`, `PruneManaged`. What a handler does to several users
in turn is its `task` and the `users` still to come. An assignment has a list of `targets`
that it inserts one by one (`InsertTarget`); at one that does not exist, or whose INSERT is
refused, it stops (`AssignStops`), keeps those before it and consolidates nobody. Several
equal bindings count as one, and a removal may leave it. `Consolidated` is the result a
consolidation alone would have, the reference the properties compare with.

`RolePermissions` is `setRolePermissions` (`Clear`, then `Grant` for each code, no
transaction) with its callers and the boot. A refused SELECT of a permission skips the
code and goes on (`SkipCode`), any other refused statement ends the request.

`Policies` has four tables as they are read, in any order, with the handlers that
write them, and the resolvers as operators: `EffectiveSelfService`,
`KnowledgeAccess`, `EffectiveSkill` with `SkillEnabled`, and `Resolutions`, which
says what `resolveRuntimeTemplate` may answer. Clients write the skills a template lists
(`skillListed`) and its policies (`skillSays`) independently; a policy is looked up for a
listed skill only (`TemplateSkill`). The reference is `Outcomes`: what rows
that no narrower row overrules allow, whatever their order.

### Runtimes

A control calls the provider (`CallProvider`) and writes the row later (`WriteRow`):
status only for `runtimeAction`, all three columns for `runtimeControlV21`. `Kill` and
`SetStatus` write the row and never call the provider. `ReadConfiguration` and
`WriteConfiguration` are the two statements of an edit of the desired configuration,
`CheckHost` and `DeleteHost` those of a deletion. `RestartRuntimes` empties the
provider and does what the seed does to the demo runtimes and their host.

### Conversations, KnowledgeImports, SchemaMigrations

In `Conversations`, `messages` are rows by their id, also uncommitted ones, since an
id shows the order in which rows were inserted. The lock that inserts share and the
last UPDATE needs is `Holders`.

In `KnowledgeImports` the search for duplicates is one step for each row, among items of
the import's type only (questions or Markdown); its error is discarded, so a refused one
finds nothing (`missed` if there was something). The transaction is one step; which INSERTs the database refuses is a choice (`refused`,
`orphans`).

In `SchemaMigrations` a file is a sequence of statements of three kinds: "define"
(skipped when it is there), "index" (an error when it is there) and "data" (takes
effect each time). `InTransaction` says whether a crash still undoes what was done.

**disturbed.** The MC modules add history variables, the most frequent one `disturbed`:
some request was interrupted between two of its statements, by a step of somebody
else, a refused statement or a restart. Properties named `...InSequence` speak of
behaviours that are not disturbed, in the same run that explores all of them. In
`MCSkillReviewConcurrent` a refused statement does not disturb, and `blind` are the requests
whose own SELECT of `immutable` was refused. In `MCDirectory`, `handled` are users whose profiles, or what calls for them, were
changed by a handler that consolidates nobody, and `asked` is what the last change of a
role wanted; in `MCOperations`, `crowded`, `told`, `indirect` and `crossed` say where
requests overlapped or a search was refused. In these two modules `part` chooses,
initially, the one part that moves: the parts share no row, so interleaving them would only multiply states.

## Runs

| run | instance | shows |
|---|---|---|
| `review_concurrent` | 2 versions of a skill, 2 submissions, 2 requests, a step list manual-auto-manual-auto, files created twice, 1 restart or 1 refused statement | `TypeOK`, `ReviewInOrder`, `OutcomeMatchesSteps`, `OneOpenSubmission`, `PublishedWasReviewed`, `PublishedSkillHasVersion`, `DecisionsFinal` under any overlap; `UnderReviewSaysSoInSequence`, `PublishedContentFrozenInSequence` without overlap and restart, the latter but for `blind` requests |
| `review_live` | 1 version, 1 submission, 2 requests, two step lists, 1 restart, 1 refused statement, fairness | `ReviewEnds`, `SubmissionOpensReview` also after a fault; `PublicationCompletes` unless there is one |
| `review_schema` | 1 version, 2 submissions, 2 requests, fairness, shipped schema | `SubmissionOpensReview` fails |
| `review_boot_overwrites` | 1 version, 1 request, 1 restart | `PublishedContentFrozen` fails |
| `knowledge_items` | 1 item, 2 contents, 2 requests, 3 versions, 1 refused statement, 1 restart | `TypeOK`, `ImplementsHistory`, `IndexedWasReleased` under any overlap; `ItemShowsItsVersionInSequence`, `IndexShowsItemInSequence` without |
| `knowledge_draft_shown` | 1 item, 2 requests, no fault | `DraftRetained` fails |
| `knowledge_documents` | 1 document, 2 contents, 3 requests, 3 versions, 1 refused statement, 1 restart | `TypeOK`, `OnlyNewestIsDraft` under any overlap; `DocumentShowsNewestInSequence`, `IndexShowsNewestInSequence`, `PublishedVersionFrozenInSequence` without |
| `knowledge_version_rewritten` | 1 document, 2 requests, 1 version, no fault | `PublishedVersionFrozen` fails |
| `approvals` | 2 approvals, 2 executions, 2 users, 1 runtime, 1 place, 2 requests, 1 refused statement, 1 restart | `TypeOK`, `NothingRunsUnapproved`, `IndependentReview`, `InstallsWereApproved`, `DecisionsStand` under any overlap; `StepShowsDecisionInSequence`, `DecisionReachesExecutionInSequence` without |
| `killed_runtime_works` | the same, no fault | `KilledRuntimeDoesNoWork` fails |
| `directory` | 2 users, 1 department, 1 role, 2 templates, 2 names, 2 requests, 3 calls, of which a restart may take the place of one; 2 roles with 2 permissions, 3 changes, 1 error; tables of up to 3 policies, 2 assignments, 2 runtime templates with 2 bindings | `DirectoryTypeOK`, `NoUnearnedProfile`, `MostSpecificPolicyDecides`, `BlockedSkillStaysOff` under any overlap; `ProfilesFollowSourcesInSequence`, `PermissionsAsAskedInSequence` without |
| `operations` | 2 runtimes, 2 hosts, 2 requests, 3 calls, 1 restart; 6 messages, 2 requests; 2 imports of up to 3 rows with a limit of 2, 1 refused statement; 3 files, 3 boots | `OperationsTypeOK`, `OneCandidateInContext`, `ImportAccountsForRows`, `RecordedMigrationIsComplete` under any overlap; `RuntimesAgreeInSequence` without |

**Bounds.** Two requests are enough for every race between a check and a write,
because each handler keeps what it read to itself. Two submissions let a version
be published and submitted again while the first publication is still writing.
The step lists put automatic steps before, between and after manual ones.
`MaxFiles` bounds how often a file row is created again, `MaxRestarts` and
`MaxErrors` the faults, and `MaxFaults` both kinds together: `review_concurrent` takes
one fault of either kind in each behaviour, `review_live` one of each; with `MaxFiles = 2` a file is deleted and created again under
a request that still knows the first one. Requests, submissions and the two versions
of the skill are interchangeable, which the safety runs use as symmetry; the live run
uses none, and keeps to one submission because every further one multiplies the graph
it searches for cycles. One item or document is
enough for the knowledge runs: no handler reads two, and the only statement about
all of them is the boot's test for an empty table. Three versions let a number be
read, taken by somebody else and passed; three requests let an update overlap a
publication and another update of a document. `Init` starts from an empty table
and from the seeded one. Two approvals let one execution wait while another is
decided, and two users are a requester and a reviewer; executions are two because a
boot seeds two. One runtime and one place are enough: every handler names one.

In `directory`, two users let a change of a template concern one user while a batch
works on both; three calls are a change, one that overlaps it, and one that repairs;
two names let a template be renamed to a name a personal profile has. Three policies
are a row and two that could overrule it, in each order. In `operations`, two hosts
let a runtime move while one is deleted, six messages are two questions with answers
and a candidate of a candidate, three rows exceed the limit of an import by one, and
three boots let a file be interrupted twice. The three files have the shapes that
occur: definitions that end in an index (004), data only (014), a definition before
data (012).

**Deadlock** is checked in every run but two: some client can always save a workflow,
delete or update an item, install a skill, or go on with a request. `directory` and
`operations` stop when their bounds on calls, messages, imports and boots are used up.

**Fairness.** `WF(Continue(r))`: the server goes on with a request it has begun.
`SF(DecideOn(s))` and `SF(SubmitVersion(v))`: reviewers and clients come back as
often as they can; both depend on people, so they are assumptions about use and
not about the code. They are strong because a request slot is not always free.
In `review_live` every role of a step is bound to somebody.

## Findings

1. `review_schema`: submitting and finishing a review update
   `skill_versions.updated_at`, a column no migration creates.
2. `review_boot_overwrites`: every boot writes the seed text into `SKILL.md` of
   the latest version of every skill, published or not, while the documentation
   says that changes of a published version are made as a new version.
3. `knowledge_draft_shown`: a publication marks whatever the item contains by then
   as published, also the draft an overlapping update has just written.
4. `knowledge_version_rewritten`: an update of a document replaces the content of
   the newest version by number, also when a publication has published it since.
5. `killed_runtime_works`: no handler reads `kill_switch_enabled`, so executions
   complete on a runtime after its kill switch, and an approval completes one that
   the switch has cancelled, while the documentation says that it disables new work
   and cancels executions.

The hazards in `PROJECT.json` name further places where the code departs from what
a reader would expect only when requests overlap or a statement fails. Other
disagreements noticed while modelling, for which there is no run of their own:

* `v03_workspace.go:1280` places runtimes on hosts whose status is `healthy`, which
  `src/docs/runtime-hosts.md` promises too; migration 007 and the handlers in use know
  no such status, so no runtime is ever placed by the scheduler.
* `v022_relationships.go:205` says that a role policy comes before a department
  policy; the code compares `binding_priority` across both.
* `src/docs/runtime-lifecycle.md` says that suspension stops the runtime; the
  lifecycle and the kill switch write the row, the provider is not told.
* Regenerating a candidate takes the newest question before the candidate, which may
  be a later one than its answer belongs to.
* More Markdown files than the limit are reported as an error and imported all the
  same, without validation.
* `v033_completion_knowledge.go:8` says that an item and its first version commit
  together; after an error of the second INSERT the transaction goes on.
* `phase2_migration.go:15` ignores 1831 as "duplicate index"; a CREATE INDEX of an
  interrupted boot ends in 1061, a DROP INDEX in 1091, and every later boot fails.
* Every boot grants the seeded permissions and binds the seeded roles again, makes
  Lightweight the default template again, adds another row to `role_bindings` for the
  administrators (the table has no unique key) and deletes three legacy users. Its
  inserts into `knowledge_user_policies` lack a NOT NULL column and are refused silently.
* The file handlers of a skill version take a refused SELECT of `immutable` for FALSE.
* A policy a template has for a skill it does not list is never read, and a title imported
  as a question is imported again as Markdown.
* An assignment that stops at one of its targets consolidates nobody for those before it.
* No handler writes `skill_assignments`; the model starts from any small table.

## Proofs

Every invariant and every action property that a passing run checks is a theorem: it
holds for all values of the constants that satisfy the named assumptions of the
modules. The theorems about `Spec` need nothing of the MC modules; those whose property
speaks of a history variable (`disturbed`, `blind`, `handled`, `asked`, `crowded`, `told`,
`indirect`, `stale`, `crossed`) are about the `MCSpec` that keeps it, so these proof
modules extend the MC module. The small sets an MC module chooses are assumed nowhere.
What an `MCSpec` does assume, besides its history, is that of its parts (`part`) one
moves: `MCDirectory` and `MCOperations` compose components that share no row.

**Assumptions.** What the constants are; beside values told apart from rows (`No...New`),
finite sets of runtimes (`RuntimeSets`),
bounds that are naturals (`ChatBounds`, `ImportBounds`, `ProfBounds`, `RoleBounds`,
`PolicyBounds`, `BoundsType`), seeds that lie in their sets and, as the rows in SQL, give each template
a name of its own (`Seeds`, `SeedsOfRoles`), users, roles, departments and everybody told
apart as targets (`KindsOfTargets`), and no value None among rows and policies
(`RowsAreSomething`). TLC evaluates all of them.

**Skill registry.** `SkillReviewProofs` proves `TypeOK`, `ReviewInOrder`,
`OutcomeMatchesSteps`, `OneOpenSubmission`, `PublishedWasReviewed` and the action property
`DecisionsFinal` by `IInv`. None of them is inductive alone. `IInv` adds `RowsAgree` (a
submission, its instance and its steps exist together and their statuses correspond),
`ApprovedWasReviewed` (an approved version has a fully approved submission) and
`PublicationsJustified` (what a request between two statements is about to publish was
reviewed): the last one is what makes stale reads harmless, since `AllApproved` of a
submission is never undone. The lemmas on `AdvanceAuto` say what the loop leaves: a prefix
of approved steps, then at most one open manual step, then pending ones. There is one
lemma for each action and each part of `IInv` it can disturb.
`PublishedSkillHasVersion` needs, beside it, that a request whose next statement publishes
the skill names a version already usable (`SkillsInv`); with a refused statement this is
false, which is why the property excuses it.
`UnderReviewSaysSoInSequence` and `PublishedContentFrozenInSequence` are proved from
`SequenceInv`: while nothing was interrupted at most one request is at work, the version
whose file it writes may still be edited unless the request is `blind`, and the version it
publishes is not under review again (`Ready`).

**Approvals.** `ApprovalCenterProofs` proves `TypeOK`, `NothingRunsUnapproved`,
`IndependentReview`, `InstallsWereApproved` and `DecisionsStand`. `StepsInsertedOnce` is
what the decisions need beside themselves: a step is inserted by one request, for an
approval that has none, so that an insert that is late never replaces a step already
resolved. `Good` states what each action is shown to do: keep the invariant, the decisions
and the work. In sequence (`StepShowsDecisionInSequence`,
`DecisionReachesExecutionInSequence`) an execution that waits has a pending approval of the
type whose decision comes back to executions (`Awaits`), and the approval for which the one
request at work still has a row to insert is undecided (`Begun`).

**Knowledge.** `KnowledgeItemsProofs` proves `TypeOK`, `IndexedWasReleased` and that
`KnowledgeItems` implements `VersionHistory` (`Spec => History!Spec`).
`IndexedWasReleased` is not inductive: between reading a payload and handing it to the
index a publication issues three statements during which anything may be written.
`Follows` says what makes it true all the same: the payload it holds is still that of the
version it names (payloads are never rewritten), and after the second statement that
version is published (publications are never taken back). `Keeps`, an action formula every
step satisfies, carries these facts across the steps of others (`OthersKept`). For the
refinement, each inserting step is `Add`, `PublishVersion` is `Release` when the row
exists, `DeleteItem` is `Remove`, and every other step stutters.
`KnowledgeDocumentsProofs` proves `TypeOK` and `OnlyNewestIsDraft`. The strengthening is
`Carries`: a request about to insert version `n > 1` has read version `n - 1` as not a
draft, and a published version stays published while its document exists, so the insert
is in order whenever it happens.
The properties in sequence of both modules have the same argument: `Progress` says, for
each statement of a handler, how far it has brought the row, its newest version and the
index towards agreeing again, and with nothing interrupted only the request at work is
under way (`Alone`). A request that ends or is cut off leaves either all of it done or
`disturbed` set. `PublishedVersionFrozenInSequence`, an action property, follows from what
`Progress` says of an update about to edit a draft: it is one still.

**Directory.** `DirectoryProofs`, for any users, roles, templates, names and requests:

* `PermissionsAsAskedInSequence`: `OnTheWay` says how far the one request of a role has
  brought its permissions; what is granted already and what is still to grant add up to
  what was asked. It survives any number of requests for other roles.
* `NoUnearnedProfile`: `EarnedInv` says that a user with an active managed profile no
  source gives him is awaited by some request that has yet to consolidate him. This
  holds under every overlap and across boots, because `Follows` holds of each step:
  whatever changes a user's sources or profiles goes on to consolidate that user, and
  the last statement of a consolidation disables by what the tables say at that instant.
* `ProfilesFollowSourcesInSequence`: `Goes` is the state of a consolidation between
  statements, for the rows of one user: templates are done, being recorded, or still to
  do. `Merged` is the closed form of `Consolidated`, a `MergedTwice` lemma says that
  consolidating again changes nothing, and `SettledInv` that every active user whose
  request is done is settled.
* `MostSpecificPolicyDecides` and `BlockedSkillStaysOff` are about folds over lists of any
  length. `LeastNumber` (every nonempty set of naturals has a least member) comes from
  well-foundedness of the naturals, and takes the place of induction: `FoldUnrolls`
  unrolls a fold into a sequence of intermediate values, and an argument by the first
  index at which a claim fails replaces the induction step. `MostSpecificPicks` then says
  that what the fold picks no other row outranks, and `BlockedStays` that nothing
  overrides blocked once it is said. The templates of runtimes need `OneDefault`: while no
  demotion was refused, at most one default waits for none.

**Operations.** `ConversationsProofs` proves `OneCandidateInContext` under any overlap.
The strengthening is `ChatInv`: what an open transaction holds (`QuestionHeld`,
`RowsHeld`), that an answer repeats the newest question before it (`AnswersNewest`), that
candidates belong to answers that can be seen, and that what a regeneration has read stays
true. Transactions that insert share the lock of the conversation, so two of them can
overlap but not both commit; between their rows `AnswersNewest` says nothing, and when one
is rolled back its rows are gone.
`OperationsProofs` proves `RuntimesAgreeInSequence` (`NotCrowded`: what the only request at
work has read of the hosts is still so; `ToldAgrees`: a runtime told by one control either
still waits for its row or has it) and `ImportAccountsForRows`. For the latter `ImportHolds`
counts the rows an import has looked at as bad, duplicate or good, and `Unseen` says that
the rows it let pass have titles that no item of their type has, unless another import has
committed since or a search was refused. It needs `Cardinality` of sets of rows, from the library's theorems.
`SchemaMigrationsProofs` proves `RecordedMigrationIsComplete` for any files and any number
of boots. The strengthening says that statements before the current one have taken
effect, that what a crash would undo belongs to the current file, and that a statement of
a file that changes data only has taken effect exactly if it is pending or its file is
recorded.

**Only model-checked**: the liveness properties `ReviewEnds`, `PublicationCompletes` and
`SubmissionOpensReview` (liveness under fairness and ENABLED are out of the prover's
reach), and the violations of the findings.

## Not modelled

* Sessions: a map behind one mutex, lost with the process; each operation is one step.
* Operational secrets, audit, usage, settings, quotas, notifications: single statements
  whose results no handler reads to decide anything.
* Knowledge bases: single-row statements. The frontend keeps no state of record.
* `placeRuntime` and the superseded handlers no route reaches; limits of runtimes;
  feedback on messages and the model a conversation overrides.
* The seeds statement by statement: each module has a boot action with their effect.

## Plan

1. The cascades between the parts that share rows: a deleted profile with its
   conversations, a suspended user with his runtime; with the theorems that stay true.
2. An abstract specification of the approval center (a decision and its effects as one
   step) that the statements implement when nothing interrupts them.
3. A shared lemma for the `Alone` arguments of the sequence theorems, which are
   stated once per module today.
