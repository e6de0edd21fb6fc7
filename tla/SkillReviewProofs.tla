--------------------------- MODULE SkillReviewProofs ---------------------------
(***************************************************************************)
(* Proofs about SkillReview for every value of its constants.              *)
(***************************************************************************)
EXTENDS MCSkillReviewConcurrent, SequenceTheorems, WellFoundedInduction, TLAPS

-----------------------------------------------------------------------------
(* Sequences of steps.                                                     *)

\* A function on an interval from 1 with values in StepRow is a list of steps.
LEMMA RowsAreSeq ==
  ASSUME NEW n \in Nat, NEW f \in [1..n -> StepRow]
  PROVE  f \in Seq(StepRow) /\ DOMAIN f = 1..n /\ Len(f) = n
BY SeqDef, LenProperties

\* What membership in Seq(StepRow) says of a list of steps.
LEMMA StepListRows ==
  ASSUME NEW list \in Seq(StepRow)
  PROVE  /\ Len(list) \in Nat
         /\ DOMAIN list = 1..Len(list)
         /\ \A i \in DOMAIN list : list[i] \in StepRow
BY LenProperties, ElementOfSeq

\* Running the automatic steps keeps the steps, their modes and their roles.
LEMMA AdvanceAutoType ==
  ASSUME NEW list \in Seq(StepRow)
  PROVE  /\ AdvanceAuto(list) \in Seq(StepRow)
         /\ DOMAIN AdvanceAuto(list) = DOMAIN list
         /\ Len(AdvanceAuto(list)) = Len(list)
<1>1. Len(list) \in Nat /\ DOMAIN list = 1..Len(list)
  BY StepListRows
<1>2. \A i \in 1..Len(list) : list[i] \in StepRow
  BY StepListRows, <1>1
<1>3. AdvanceAuto(list) \in [1..Len(list) -> StepRow]
  BY <1>1, <1>2 DEF AdvanceAuto, StepRow, StepStatuses
<1> QED
  BY <1>1, <1>3, RowsAreSeq

\* Copying a workflow gives a list of steps of the same length.
LEMMA SnapshotType ==
  ASSUME NEW list \in Seq(StepDef)
  PROVE  /\ Snapshot(list) \in Seq(StepRow)
         /\ DOMAIN Snapshot(list) = DOMAIN list
         /\ Len(Snapshot(list)) = Len(list)
<1>1. Len(list) \in Nat /\ DOMAIN list = 1..Len(list)
  BY LenProperties
<1>2. \A i \in 1..Len(list) : list[i] \in StepDef
  BY ElementOfSeq
<1>3. Snapshot(list) \in [1..Len(list) -> StepRow]
  BY <1>1, <1>2 DEF Snapshot, StepDef, StepRow, StepStatuses
<1> QED
  BY <1>1, <1>3, RowsAreSeq

\* Writing a status into a step gives a list of steps.
LEMMA SetStatusType ==
  ASSUME NEW list \in Seq(StepRow), NEW i \in DOMAIN list, NEW st \in StepStatuses
  PROVE  /\ [list EXCEPT ![i].status = st] \in Seq(StepRow)
         /\ DOMAIN [list EXCEPT ![i].status = st] = DOMAIN list
         /\ Len([list EXCEPT ![i].status = st]) = Len(list)
<1>1. Len(list) \in Nat /\ DOMAIN list = 1..Len(list)
  BY StepListRows
<1>2. \A j \in 1..Len(list) : list[j] \in StepRow
  BY StepListRows, <1>1
<1>3. [list EXCEPT ![i].status = st] \in [1..Len(list) -> StepRow]
  BY <1>1, <1>2 DEF StepRow
<1> QED
  BY <1>1, <1>3, RowsAreSeq

-----------------------------------------------------------------------------
(* Requests.                                                                *)

\* Sending a request on to a well-formed next statement keeps req typed.
LEMMA GotoType ==
  ASSUME req \in [Requests -> Request], NEW r \in Requests, NEW next \in Request,
         Goto(r, next)
  PROVE  req' \in [Requests -> Request]
BY DEF Goto

\* What a request holds at each of its statements.
LEMMA RequestFields ==
  ASSUME req \in [Requests -> Request], NEW r \in Requests
  PROVE  /\ ~Free(r) => req[r].version \in Versions
         /\ At(r, "upsert_file") => req[r].body \in Contents
         /\ At(r, "update_file") => req[r].body \in Contents
         /\ At(r, "publish_submission") =>
              /\ req[r].sub \in Submissions
              /\ [req[r] EXCEPT !.op = "publish_submitted_version"]
                   = [op |-> "publish_submitted_version",
                      version |-> req[r].version, sub |-> req[r].sub]
BY DEF Request, Idle, Free, At

-----------------------------------------------------------------------------
(* The inductive invariant.                                                 *)

\* A submission row and the row of its instance are written together, so they
\* tell the same story; publication adds a status only the submission has.
RowsAgree ==
  \A s \in Submissions :
    /\ subStatus[s] = "none" <=> subVersion[s] = NoVersion
    /\ subStatus[s] = "none" <=> insStatus[s] = "none"
    /\ subStatus[s] = "none" => steps[s] = <<>>
    /\ subStatus[s] = "in_review" <=> insStatus[s] = "in_progress"
    /\ subStatus[s] \in {"approved", "published"} <=> insStatus[s] = "approved"
    /\ \A d \in {"rejected", "changes_requested"} :
         subStatus[s] = d <=> insStatus[s] = d

\* A version that a review approved, or that a client created and somebody
\* published, has been reviewed.
ApprovedWasReviewed ==
  /\ PublishedWasReviewed
  /\ \A v \in Versions : vStatus[v] = "approved" => Reviewed(v)

\* What a publication read is still true in the part that matters: the version
\* was reviewed, and the submission has not gone back.
Publishing == {"publish_submission", "publish_submitted_version", "publish_version"}

Justified(r) ==
  /\ req[r].op \in Publishing => Reviewed(req[r].version)
  /\ req[r].op = "publish_submission" =>
       subStatus[req[r].sub] \in {"approved", "published"}

PublicationsJustified == \A r \in Requests : Justified(r)

IInv ==
  /\ TypeOK
  /\ RowsAgree
  /\ ReviewInOrder
  /\ OutcomeMatchesSteps
  /\ OneOpenSubmission
  /\ ApprovedWasReviewed
  /\ PublicationsJustified

-----------------------------------------------------------------------------
(* Type correctness.                                                        *)

\* Writing the steps and the outcome of a review keeps the four tables typed.
LEMMA SaveReviewType ==
  ASSUME TypeOK, NEW s \in Submissions, NEW v \in Versions,
         NEW list \in Seq(StepRow), NEW submission \in SubStatuses,
         NEW version \in VersionStatuses,
         SaveReview(s, v, list, submission, version)
  PROVE  /\ steps' \in [Submissions -> Seq(StepRow)]
         /\ insStatus' \in [Submissions -> InsStatuses]
         /\ subStatus' \in [Submissions -> SubStatuses]
         /\ vStatus' \in [Versions -> VersionStatuses]
<1> DEFINE RowSeq == Seq(StepRow)
<1>1. list \in RowSeq /\ steps \in [Submissions -> RowSeq]
  BY DEF TypeOK
<1> HIDE DEF RowSeq
<1>2. steps' \in [Submissions -> RowSeq]
  BY <1>1 DEF SaveReview
<1>3. insStatus' \in [Submissions -> InsStatuses]
  BY DEF SaveReview, TypeOK, InsStatuses
<1>4. subStatus' \in [Submissions -> SubStatuses]
  BY DEF SaveReview, TypeOK, SubStatuses
<1>5. vStatus' \in [Versions -> VersionStatuses]
  BY DEF SaveReview, TypeOK, VersionStatuses
<1> QED
  BY <1>2, <1>3, <1>4, <1>5 DEF RowSeq

\* What the first boot leaves has its type.
LEMMA InitType == Init => TypeOK
<1> SUFFICES ASSUME Init PROVE TypeOK
  OBVIOUS
<1>1. skillStatus \in [Skills -> SkillStatuses]
  BY DEF Init, SkillStatuses
<1>2. skillLatest \in [Skills -> Versions \cup {NoVersion}]
  BY SeededType DEF Init
<1>3. /\ vStatus \in [Versions -> VersionStatuses]
      /\ vImmutable \in [Versions -> BOOLEAN]
      /\ vOrigin \in [Versions -> {"user", "boot"}]
  BY DEF Init, VersionStatuses
<1>4. fileGen \in [Versions -> Nat] /\ fileBody \in [Versions -> Bodies]
  BY DEF Init, Bodies
<1>5. /\ wfStatus \in [Workflows -> {"none", "active", "disabled"}]
      /\ wfSteps \in [Workflows -> StepLists \cup {<<>>}]
  BY DEF Init
<1>6. /\ subVersion \in [Submissions -> Versions \cup {NoVersion}]
      /\ subStatus \in [Submissions -> SubStatuses]
      /\ insStatus \in [Submissions -> InsStatuses]
  BY DEF Init, SubStatuses, InsStatuses
<1>7. steps \in [Submissions -> Seq(StepRow)]
  <2>1. <<>> \in Seq(StepRow)
    BY EmptySeq
  <2> QED BY <2>1 DEF Init
<1>8. req \in [Requests -> Request]
  BY DEF Init, Request
<1>9. restarts \in 0..MaxRestarts /\ errors \in 0..MaxErrors
  BY BoundsType DEF Init
<1> QED
  BY <1>1, <1>2, <1>3, <1>4, <1>5, <1>6, <1>7, <1>8, <1>9 DEF TypeOK

\* Creating skills and versions keeps every type.  (createSkill,
\* createSkillVersion)
LEMMA SkillStepsType ==
  ASSUME TypeOK, NEW r \in Requests, SkillSteps(r)
  PROVE  TypeOK'
<1> USE DEF TypeOK
<1>1. ASSUME NEW v \in Versions, CreateSkill(r, v)
      PROVE  TypeOK'
  <2>1. req' \in [Requests -> Request]
    BY <1>1, GotoType DEF CreateSkill, Request
  <2>2. SkillOf[v] \in Skills
    BY SkillOfType
  <2> QED
    BY <1>1, <2>1, <2>2 DEF CreateSkill, SkillStatuses, versionVars, fileVars,
      wfVars, reviewVars, faultVars
<1>2. ASSUME NEW v \in Versions, CreateSkillVersion(r, v)
      PROVE  TypeOK'
  BY <1>2 DEF CreateSkillVersion, VersionStatuses, skillVars, fileVars, wfVars,
    reviewVars, faultVars
<1>3. ASSUME CreateSkillInsertVersion(r)
      PROVE  TypeOK'
  <2>1. req' \in [Requests -> Request]
    BY <1>3, GotoType DEF CreateSkillInsertVersion, Request
  <2>2. req[r].version \in Versions
    BY <1>3, RequestFields DEF CreateSkillInsertVersion, At, Free
  <2> QED
    BY <1>3, <2>1, <2>2 DEF CreateSkillInsertVersion, VersionStatuses, skillVars,
      fileVars, wfVars, reviewVars, faultVars
<1> QED
  BY <1>1, <1>2, <1>3 DEF SkillSteps

\* Editing files keeps every type.  (upsertSkillFile, updateSkillFile,
\* deleteSkillFile)
LEMMA FileStepsType ==
  ASSUME TypeOK, NEW r \in Requests, FileSteps(r)
  PROVE  TypeOK'
<1> USE DEF TypeOK
<1>0. ASSUME NEW v \in Versions, FoundEditable(v) PROVE errors' \in 0..MaxErrors
  BY <1>0, BoundsType DEF FoundEditable, MayFail
<1>1. ASSUME NEW v \in Versions, NEW body \in Contents,
             UpsertSkillFileCheck(r, v, body)
      PROVE  TypeOK'
  <2>1. req' \in [Requests -> Request]
    BY <1>1, GotoType DEF UpsertSkillFileCheck, Request
  <2> QED
    BY <1>1, <1>0, <2>1 DEF UpsertSkillFileCheck, skillVars, versionVars, fileVars,
      wfVars, reviewVars, faultVars
<1>2. ASSUME NEW v \in Versions, NEW body \in Contents,
             UpdateSkillFileCheck(r, v, body)
      PROVE  TypeOK'
  <2>1. req' \in [Requests -> Request]
    BY <1>2, GotoType DEF UpdateSkillFileCheck, Request
  <2> QED
    BY <1>2, <1>0, <2>1 DEF UpdateSkillFileCheck, skillVars, versionVars, fileVars,
      wfVars, reviewVars, faultVars
<1>3. ASSUME NEW v \in Versions, DeleteSkillFileCheck(r, v)
      PROVE  TypeOK'
  <2>1. req' \in [Requests -> Request]
    BY <1>3, GotoType DEF DeleteSkillFileCheck, Request
  <2> QED
    BY <1>3, <1>0, <2>1 DEF DeleteSkillFileCheck, skillVars, versionVars, fileVars,
      wfVars, reviewVars, faultVars
<1>4. ASSUME UpsertSkillFileWrite(r)
      PROVE  TypeOK'
  <2>1. req' \in [Requests -> Request]
    BY <1>4, GotoType DEF UpsertSkillFileWrite, Request
  <2>2. req[r].version \in Versions /\ req[r].body \in Contents
    BY <1>4, RequestFields DEF UpsertSkillFileWrite, At, Free
  <2> QED
    BY <1>4, <2>1, <2>2 DEF UpsertSkillFileWrite, WriteFile, Bodies, skillVars,
      versionVars, wfVars, reviewVars, faultVars
<1>5. ASSUME UpdateSkillFileWrite(r)
      PROVE  TypeOK'
  <2>1. req' \in [Requests -> Request]
    BY <1>5, GotoType DEF UpdateSkillFileWrite, Request
  <2>2. req[r].version \in Versions /\ req[r].body \in Contents
    BY <1>5, RequestFields DEF UpdateSkillFileWrite, At, Free
  <2> QED
    BY <1>5, <2>1, <2>2 DEF UpdateSkillFileWrite, Bodies, skillVars,
      versionVars, wfVars, reviewVars, faultVars
<1>6. ASSUME DeleteSkillFileWrite(r)
      PROVE  TypeOK'
  <2>1. req' \in [Requests -> Request]
    BY <1>6, GotoType DEF DeleteSkillFileWrite, Request
  <2>2. req[r].version \in Versions
    BY <1>6, RequestFields DEF DeleteSkillFileWrite, At, Free
  <2> QED
    BY <1>6, <2>1, <2>2 DEF DeleteSkillFileWrite, Bodies, skillVars,
      versionVars, wfVars, reviewVars, faultVars
<1> QED
  BY <1>1, <1>2, <1>3, <1>4, <1>5, <1>6 DEF FileSteps

\* Saving workflows, submitting and deciding keep every type.
\* (saveSkillReviewWorkflow, submitSkillVersionByID, decideSkillReviewStep)
LEMMA ReviewStepsType ==
  ASSUME TypeOK, RowsAgree, NEW r \in Requests, ReviewSteps(r)
  PROVE  TypeOK'
<1>1. ASSUME NEW w \in Workflows, NEW list \in StepLists,
             NEW status \in {"active", "disabled"},
             SaveWorkflow(r, w, list, status)
      PROVE  TypeOK'
  BY <1>1 DEF TypeOK, SaveWorkflow, skillVars, versionVars, fileVars, reviewVars,
    faultVars
<1>2. ASSUME NEW v \in Versions, NEW s \in Submissions, Submit(r, v, s)
      PROVE  TypeOK'
  <2>1. PICK w \in Workflows :
          /\ wfSteps[w] # <<>>
          /\ SaveReview(s, v, AdvanceAuto(Snapshot(wfSteps[w])),
                        "in_review", "in_review")
    BY <1>2 DEF Submit
  <2>2. wfSteps[w] \in Seq(StepDef)
    BY <2>1, StepListsValid DEF TypeOK
  <2>3. AdvanceAuto(Snapshot(wfSteps[w])) \in Seq(StepRow)
    BY <2>2, SnapshotType, AdvanceAutoType
  <2>4. /\ steps' \in [Submissions -> Seq(StepRow)]
        /\ insStatus' \in [Submissions -> InsStatuses]
        /\ subStatus' \in [Submissions -> SubStatuses]
        /\ vStatus' \in [Versions -> VersionStatuses]
    BY <2>1, <2>3, SaveReviewType DEF SubStatuses, VersionStatuses
  <2> QED
    BY <1>2, <2>4 DEF TypeOK, Submit, skillVars, fileVars, wfVars, faultVars
<1>3. ASSUME NEW s \in Submissions, NEW i \in DOMAIN steps[s],
             ApproveStep(r, s, i)
      PROVE  TypeOK'
  <2> DEFINE closed == [steps[s] EXCEPT ![i].status = "approved"]
  <2>0. subVersion[s] \in Versions
    BY <1>3 DEF ApproveStep, StepActionable, RowsAgree, TypeOK
  <2>1. AdvanceAuto(closed) \in Seq(StepRow)
    BY SetStatusType, AdvanceAutoType DEF TypeOK, StepStatuses
  <2>2. /\ steps' \in [Submissions -> Seq(StepRow)]
        /\ insStatus' \in [Submissions -> InsStatuses]
        /\ subStatus' \in [Submissions -> SubStatuses]
        /\ vStatus' \in [Versions -> VersionStatuses]
    <3>1. SaveReview(s, subVersion[s], AdvanceAuto(closed), subStatus[s],
                     vStatus[subVersion[s]])
      BY <1>3 DEF ApproveStep
    <3> HIDE DEF closed
    <3> QED
      BY <2>0, <2>1, <3>1, SaveReviewType DEF TypeOK
  <2> QED
    BY <1>3, <2>2 DEF TypeOK, ApproveStep, skillVars, fileVars, wfVars, faultVars
<1>4. ASSUME NEW s \in Submissions, NEW i \in DOMAIN steps[s],
             NEW decision \in Decisions, RefuseStep(r, s, i, decision)
      PROVE  TypeOK'
  <2> DEFINE RowSeq == Seq(StepRow)
             list == [steps[s] EXCEPT ![i].status = decision]
  <2>1. list \in RowSeq /\ steps \in [Submissions -> RowSeq]
    BY SetStatusType DEF TypeOK, StepStatuses, Decisions
  <2>2. steps' = [steps EXCEPT ![s] = list]
    BY <1>4 DEF RefuseStep, TypeOK
  <2>3. steps' \in [Submissions -> Seq(StepRow)]
    <3> HIDE DEF list, RowSeq
    <3>1. steps' \in [Submissions -> RowSeq]
      BY <2>1, <2>2
    <3> QED BY <3>1 DEF RowSeq
  <2>4. /\ insStatus' \in [Submissions -> InsStatuses]
        /\ subStatus' \in [Submissions -> SubStatuses]
    BY <1>4 DEF RefuseStep, TypeOK, InsStatuses, SubStatuses, Decisions
  <2> QED
    BY <1>4, <2>3, <2>4 DEF TypeOK, RefuseStep, skillVars, versionVars, fileVars,
      wfVars, faultVars
<1> QED
  BY <1>1, <1>2, <1>3, <1>4 DEF ReviewSteps, SubmitStep, DecideStep

\* Publishing keeps every type.  (publishSubmission, publishSkillVersion)
LEMMA PublishStepsType ==
  ASSUME TypeOK, RowsAgree, NEW r \in Requests, PublishSteps(r)
  PROVE  TypeOK'
<1> USE DEF TypeOK
<1>1. ASSUME NEW s \in Submissions, PublishSubmissionCheck(r, s)
      PROVE  TypeOK'
  <2>1. subVersion[s] \in Versions
    BY <1>1 DEF PublishSubmissionCheck, RowsAgree
  <2>2. req' \in [Requests -> Request]
    BY <1>1, <2>1, GotoType DEF PublishSubmissionCheck, Request
  <2> QED
    BY <1>1, <2>2 DEF PublishSubmissionCheck, skillVars, versionVars, fileVars,
      wfVars, reviewVars, faultVars
<1>2. ASSUME NEW v \in Versions, PublishSkillVersionCheck(r, v)
      PROVE  TypeOK'
  <2>1. req' \in [Requests -> Request]
    BY <1>2, GotoType DEF PublishSkillVersionCheck, Request
  <2> QED
    BY <1>2, <2>1 DEF PublishSkillVersionCheck, skillVars, versionVars, fileVars,
      wfVars, reviewVars, faultVars
<1>3. ASSUME PublishSubmissionRow(r)
      PROVE  TypeOK'
  <2>1. /\ req[r].version \in Versions
        /\ req[r].sub \in Submissions
        /\ [req[r] EXCEPT !.op = "publish_submitted_version"]
             = [op |-> "publish_submitted_version",
                version |-> req[r].version, sub |-> req[r].sub]
    BY <1>3, RequestFields DEF PublishSubmissionRow, At, Free
  <2> DEFINE next == [op |-> "publish_submitted_version",
                      version |-> req[r].version, sub |-> req[r].sub]
  <2>2. next \in Request
    BY <2>1 DEF Request
  <2>3. Goto(r, next)
    BY <1>3, <2>1 DEF PublishSubmissionRow
  <2>4. req' \in [Requests -> Request]
    <3> HIDE DEF next
    <3> QED BY <2>2, <2>3, GotoType
  <2> QED
    BY <1>3, <2>1, <2>4 DEF PublishSubmissionRow, SubStatuses, skillVars,
      versionVars, fileVars, wfVars, faultVars
<1>4. ASSUME PublishSubmittedVersion(r)
      PROVE  TypeOK'
  <2>1. req[r].version \in Versions
    BY <1>4, RequestFields DEF PublishSubmittedVersion, At, Free
  <2>2. req' \in [Requests -> Request]
    BY <1>4, <2>1, GotoType DEF PublishSubmittedVersion, Request
  <2> QED
    BY <1>4, <2>1, <2>2, SkillOfType DEF PublishSubmittedVersion, SetPublished,
      VersionStatuses, skillVars, fileVars, wfVars, reviewVars, faultVars
<1>5. ASSUME PublishSubmittedSkill(r)
      PROVE  TypeOK'
  <2>1. req[r].version \in Versions
    BY <1>5, RequestFields DEF PublishSubmittedSkill, At, Free
  <2>2. req' \in [Requests -> Request]
    BY <1>5, <2>1, GotoType DEF PublishSubmittedSkill, Request
  <2> QED
    BY <1>5, <2>1, <2>2, SkillOfType DEF PublishSubmittedSkill, SkillStatuses,
      versionVars, fileVars, wfVars, reviewVars, faultVars
<1>6. ASSUME PublishSkillVersionRow(r)
      PROVE  TypeOK'
  <2>1. req[r].version \in Versions
    BY <1>6, RequestFields DEF PublishSkillVersionRow, At, Free
  <2>2. req' \in [Requests -> Request]
    BY <1>6, <2>1, GotoType DEF PublishSkillVersionRow, Request
  <2> QED
    BY <1>6, <2>1, <2>2, SkillOfType DEF PublishSkillVersionRow, SetPublished,
      VersionStatuses, skillVars, fileVars, wfVars, reviewVars, faultVars
<1>7. ASSUME PublishSkillVersionSkill(r)
      PROVE  TypeOK'
  <2>1. req[r].version \in Versions
    BY <1>7, RequestFields DEF PublishSkillVersionSkill, At, Free
  <2>2. req' \in [Requests -> Request]
    BY <1>7, <2>1, GotoType DEF PublishSkillVersionSkill, Request
  <2> QED
    BY <1>7, <2>1, <2>2, SkillOfType DEF PublishSkillVersionSkill, SkillStatuses,
      versionVars, fileVars, wfVars, reviewVars, faultVars
<1>8. ASSUME PublishSkillVersionUnnumbered(r)
      PROVE  TypeOK'
  <2>1. req[r].version \in Versions
    BY <1>8, RequestFields DEF PublishSkillVersionUnnumbered, At, Free
  <2>2. req' \in [Requests -> Request]
    BY <1>8, <2>1, GotoType DEF PublishSkillVersionUnnumbered, Request
  <2>3. errors' \in 0..MaxErrors
    BY <1>8, BoundsType DEF PublishSkillVersionUnnumbered, MayFail
  <2> QED
    BY <1>8, <2>1, <2>2, <2>3, SkillOfType DEF PublishSkillVersionUnnumbered, SkillStatuses,
      versionVars, fileVars, wfVars, reviewVars
<1> QED
  BY <1>1, <1>2, <1>3, <1>4, <1>5, <1>6, <1>7, <1>8 DEF PublishSteps

\* Refused statements and restarts keep every type.
LEMMA FaultsType ==
  ASSUME TypeOK, (\E r \in Requests : StatementFails(r)) \/ Restart
  PROVE  TypeOK'
<1> USE DEF TypeOK
<1>1. ASSUME NEW r \in Requests, StatementFails(r)
      PROVE  TypeOK'
  <2>1. req[r].version \in Versions
    BY <1>1, RequestFields DEF StatementFails
  <2>2. req' \in [Requests -> Request]
    <3>1. CASE At(r, "publish_submitted_version")
      BY <1>1, <2>1, <3>1, GotoType DEF StatementFails, Request
    <3>2. CASE ~At(r, "publish_submitted_version")
      BY <1>1, <3>2, GotoType DEF StatementFails, Request
    <3> QED BY <3>1, <3>2
  <2> QED
    BY <1>1, <2>2, BoundsType DEF StatementFails, MayFail, skillVars, versionVars,
      fileVars, wfVars, reviewVars
<1>2. ASSUME Restart
      PROVE  TypeOK'
  <2>1. req' \in [Requests -> Request]
    BY <1>2 DEF Restart, Request
  <2>2. /\ vStatus' \in [Versions -> VersionStatuses]
        /\ vOrigin' \in [Versions -> {"user", "boot"}]
        /\ vImmutable' \in [Versions -> BOOLEAN]
    <3>1. \A v \in Versions : Latest(v) \in BOOLEAN
      BY DEF Latest
    <3>2. \A v \in Versions : Latest(v) \/ vImmutable[v] \in BOOLEAN
      BY <3>1
    <3> QED BY <1>2, <3>1, <3>2 DEF Restart, VersionStatuses
  <2>3. fileGen' \in [Versions -> Nat] /\ fileBody' \in [Versions -> Bodies]
    BY <1>2 DEF Restart, Bodies
  <2> QED
    BY <1>2, <2>1, <2>2, <2>3, BoundsType DEF Restart, skillVars, wfVars, reviewVars
<1> QED
  BY <1>1, <1>2

\* A step that changes nothing keeps every type.
LEMMA StutterType == TypeOK /\ UNCHANGED vars => TypeOK'
BY DEF TypeOK, vars, skillVars, versionVars, fileVars, wfVars, reviewVars, faultVars

\* Every step keeps every type.
LEMMA NextType == TypeOK /\ RowsAgree /\ [Next]_vars => TypeOK'
BY SkillStepsType, FileStepsType, ReviewStepsType, PublishStepsType, FaultsType,
  StutterType DEF Next

-----------------------------------------------------------------------------
(* What running the automatic steps does to a review that has come to step   *)
(* k + 1.                                                                     *)

\* A set of naturals that is not empty has a least element.
LEMMA SmallestNat ==
  ASSUME NEW T, T \subseteq Nat, T # {}
  PROVE  \E x \in T : \A y \in T : x <= y
<1> DEFINE R == OpToRel(<, Nat)
<1>1. IsWellFoundedOn(R, Nat)
  BY NatLessThanWellFounded
<1>2. PICK x \in T : \A y \in T : ~ (<<y, x>> \in R)
  <2> HIDE DEF R
  <2> QED BY <1>1, WFMin
<1>3. \A y \in T : ~ (y < x)
  BY <1>2 DEF OpToRel
<1> QED
  BY <1>3

\* When the first k steps are approved and the others wait, the automatic steps
\* either take the review to its end, all steps approved, or to the first manual
\* step after k, which is then the only one in progress.
LEMMA AdvanceAutoOutcome ==
  ASSUME NEW list \in Seq(StepRow), list # <<>>,
         NEW k \in 0..Len(list),
         \A j \in 1..k : list[j].status = "approved",
         \A j \in (k + 1)..Len(list) : Unfinished(list[j]),
         \A j \in (k + 2)..Len(list) : list[j].status = "pending"
  PROVE  IF Complete(AdvanceAuto(list))
           THEN AllApproved(AdvanceAuto(list))
           ELSE \E i \in DOMAIN AdvanceAuto(list) :
                  /\ AdvanceAuto(list)[i].status = "in_progress"
                  /\ AdvanceAuto(list)[i].mode = "manual"
                  /\ StoppedAt(AdvanceAuto(list), i)
<1> DEFINE n == Len(list)
           adv == AdvanceAuto(list)
           M == {i \in (k + 1)..n : list[i].mode = "manual"}
<1>1. n \in Nat /\ DOMAIN list = 1..n /\ n # 0
  BY StepListRows, EmptySeq, LenProperties
<1>2. \A i \in 1..n : list[i] \in StepRow
  BY <1>1, StepListRows
<1>3. DOMAIN adv = 1..n /\ Len(adv) = n /\ adv # <<>>
  BY <1>1, AdvanceAutoType, EmptySeq, LenProperties
<1>4. \A i \in 1..n :
        adv[i] = IF Reached(list, i)
                   THEN [list[i] EXCEPT !.status =
                          IF list[i].mode = "auto" THEN "approved" ELSE "in_progress"]
                   ELSE list[i]
  BY <1>1 DEF AdvanceAuto
<1>5. \A i \in 1..n :
        /\ adv[i].mode = list[i].mode
        /\ adv[i].status =
             IF Reached(list, i)
               THEN IF list[i].mode = "auto" THEN "approved" ELSE "in_progress"
               ELSE list[i].status
  BY <1>2, <1>4 DEF StepRow
<1>6. \A j \in 1..k : adv[j].status = "approved"
  BY <1>1, <1>5 DEF Reached, Unfinished
<1>7. \A j \in 1..k : ~Unfinished(list[j])
  BY DEF Unfinished
<1> HIDE DEF adv
<1>8. CASE M = {}
  <2>1. \A i \in (k + 1)..n : list[i].mode = "auto"
    BY <1>1, <1>2, <1>8 DEF StepRow, Modes
  <2>2. \A i \in (k + 1)..n : Reached(list, i)
    BY <1>1, <1>7, <2>1 DEF Reached
  <2>3. \A i \in 1..n : adv[i].status = "approved"
    BY <1>1, <1>5, <1>6, <2>1, <2>2
  <2>4. AllApproved(adv)
    BY <1>3, <2>3 DEF AllApproved
  <2>5. Complete(adv)
    BY <1>3, <2>3 DEF Complete, Unfinished
  <2> QED
    BY <2>4, <2>5 DEF adv
<1>9. CASE M # {}
  <2>1. M \subseteq Nat
    BY <1>1
  <2>2. PICK m \in M : \A x \in M : m <= x
    BY <1>9, <2>1, SmallestNat
  <2>3. m \in 1..n /\ k < m /\ list[m].mode = "manual" /\ Unfinished(list[m])
    BY <1>1, <2>2
  <2>4. \A i \in (k + 1)..(m - 1) : list[i].mode = "auto"
    BY <1>1, <1>2, <2>2, <2>3 DEF StepRow, Modes
  <2>5. \A i \in (k + 1)..m : Reached(list, i)
    BY <1>1, <1>7, <2>3, <2>4 DEF Reached
  <2>6. adv[m].status = "in_progress" /\ adv[m].mode = "manual"
    BY <1>1, <1>5, <2>3, <2>5
  <2>7. \A j \in 1..(m - 1) : adv[j].status = "approved"
    BY <1>1, <1>5, <1>6, <2>3, <2>4, <2>5
  <2>8. \A j \in (m + 1)..n : ~Reached(list, j)
    BY <1>1, <2>3 DEF Reached
  <2>9. \A j \in (m + 1)..n : adv[j].status = "pending"
    BY <1>1, <1>5, <2>3, <2>8
  <2>10. StoppedAt(adv, m)
    BY <1>3, <2>7, <2>9 DEF StoppedAt
  <2>11. ~Complete(adv)
    BY <1>3, <2>3, <2>6 DEF Complete, Unfinished
  <2> QED
    BY <1>3, <2>3, <2>6, <2>10, <2>11 DEF adv
<1> QED
  BY <1>8, <1>9

\* A workflow copied into an instance starts at its first step.
LEMMA SnapshotOutcome ==
  ASSUME NEW list \in Seq(StepDef), list # <<>>
  PROVE  LET adv == AdvanceAuto(Snapshot(list)) IN
         IF Complete(adv)
           THEN AllApproved(adv)
           ELSE \E i \in DOMAIN adv :
                  /\ adv[i].status = "in_progress"
                  /\ adv[i].mode = "manual"
                  /\ StoppedAt(adv, i)
<1>1. /\ Snapshot(list) \in Seq(StepRow)
      /\ Len(Snapshot(list)) = Len(list)
      /\ DOMAIN list = 1..Len(list) /\ Len(list) \in Nat /\ Len(list) # 0
  BY SnapshotType, LenProperties, EmptySeq
<1>2. Snapshot(list) # <<>>
  BY <1>1, EmptySeq
<1>3. \A j \in 1..Len(list) :
        Snapshot(list)[j].status = IF j = 1 THEN "in_progress" ELSE "pending"
  BY <1>1 DEF Snapshot
<1>4. 0 \in 0..Len(Snapshot(list))
  BY <1>1
<1>5. \A j \in (0 + 1)..Len(Snapshot(list)) : Unfinished(Snapshot(list)[j])
  BY <1>1, <1>3 DEF Unfinished
<1>6. \A j \in (0 + 2)..Len(Snapshot(list)) : Snapshot(list)[j].status = "pending"
  BY <1>1, <1>3
<1>7. \A j \in 1..0 : Snapshot(list)[j].status = "approved"
  OBVIOUS
<1> QED
  BY <1>1, <1>2, <1>4, <1>5, <1>6, <1>7, AdvanceAutoOutcome

\* Approving the step a review had come to.
LEMMA ApprovalOutcome ==
  ASSUME NEW list \in Seq(StepRow), NEW k \in DOMAIN list, StoppedAt(list, k)
  PROVE  LET adv == AdvanceAuto([list EXCEPT ![k].status = "approved"]) IN
         IF Complete(adv)
           THEN AllApproved(adv)
           ELSE \E i \in DOMAIN adv :
                  /\ adv[i].status = "in_progress"
                  /\ adv[i].mode = "manual"
                  /\ StoppedAt(adv, i)
<1> DEFINE closed == [list EXCEPT ![k].status = "approved"]
<1>1. /\ closed \in Seq(StepRow) /\ Len(closed) = Len(list)
      /\ DOMAIN closed = DOMAIN list /\ DOMAIN list = 1..Len(list)
      /\ Len(list) \in Nat /\ k \in 1..Len(list)
  BY SetStatusType, StepListRows DEF StepStatuses
<1>2. closed # <<>>
  BY <1>1, EmptySeq
<1>3. \A j \in 1..Len(list) :
        closed[j].status = IF j = k THEN "approved" ELSE list[j].status
  <2>1. \A j \in 1..Len(list) : list[j] \in StepRow
    BY <1>1, StepListRows
  <2> QED BY <1>1, <2>1 DEF StepRow
<1> HIDE DEF closed
<1>4. \A j \in 1..k : closed[j].status = "approved"
  BY <1>1, <1>3 DEF StoppedAt
<1>5. \A j \in (k + 1)..Len(closed) : closed[j].status = "pending"
  BY <1>1, <1>3 DEF StoppedAt
<1>6. \A j \in (k + 1)..Len(closed) : Unfinished(closed[j])
  BY <1>5 DEF Unfinished
<1>7. \A j \in (k + 2)..Len(closed) : closed[j].status = "pending"
  BY <1>1, <1>5
<1>8. k \in 0..Len(closed)
  BY <1>1
<1> QED
  BY <1>1, <1>2, <1>4, <1>6, <1>7, <1>8, AdvanceAutoOutcome DEF closed

-----------------------------------------------------------------------------
(* The part of the invariant about submissions and instances.               *)

ReviewPart ==
  /\ RowsAgree
  /\ ReviewInOrder
  /\ OutcomeMatchesSteps
  /\ OneOpenSubmission

\* A version once reviewed stays reviewed.
ReviewsKept == \A v \in Versions : Reviewed(v) => Reviewed(v)'

\* A step that leaves the review tables alone keeps all of it.
LEMMA ReviewFrame ==
  ASSUME ReviewPart, UNCHANGED reviewVars
  PROVE  ReviewPart' /\ ReviewsKept
BY DEF ReviewPart, reviewVars, RowsAgree, ReviewInOrder, OutcomeMatchesSteps,
  OneOpenSubmission, ReviewsKept, Reviewed, StoppedAt, AllApproved

\* A submission keeps the review part.  (submitSkillVersionByID)
LEMMA SubmitKeeps ==
  ASSUME TypeOK, ReviewPart, NEW r \in Requests, NEW v \in Versions,
         NEW s \in Submissions, Submit(r, v, s)
  PROVE  ReviewPart' /\ ReviewsKept
<1>1. PICK w \in Workflows :
        /\ wfSteps[w] # <<>>
        /\ SaveReview(s, v, AdvanceAuto(Snapshot(wfSteps[w])), "in_review", "in_review")
  BY DEF Submit
<1> DEFINE adv == AdvanceAuto(Snapshot(wfSteps[w]))
<1>2. wfSteps[w] \in Seq(StepDef)
  BY <1>1, StepListsValid DEF TypeOK
<1>3. IF Complete(adv)
        THEN AllApproved(adv)
        ELSE \E i \in DOMAIN adv :
               /\ adv[i].status = "in_progress"
               /\ adv[i].mode = "manual"
               /\ StoppedAt(adv, i)
  BY <1>1, <1>2, SnapshotOutcome
<1> HIDE DEF adv
<1>4. /\ steps' = [steps EXCEPT ![s] = adv]
      /\ insStatus' = [insStatus EXCEPT ![s] =
                         IF Complete(adv) THEN "approved" ELSE "in_progress"]
      /\ subStatus' = [subStatus EXCEPT ![s] =
                         IF Complete(adv) THEN "approved" ELSE "in_review"]
      /\ subVersion' = [subVersion EXCEPT ![s] = v]
      /\ subStatus[s] = "none"
      /\ ~HasOpenSubmission(v)
  BY <1>1 DEF Submit, Submittable, SaveReview, adv
<1>5. /\ steps'[s] = adv /\ subVersion'[s] = v
      /\ insStatus'[s] = IF Complete(adv) THEN "approved" ELSE "in_progress"
      /\ subStatus'[s] = IF Complete(adv) THEN "approved" ELSE "in_review"
      /\ \A t \in Submissions \ {s} :
           /\ steps'[t] = steps[t] /\ subVersion'[t] = subVersion[t]
           /\ insStatus'[t] = insStatus[t] /\ subStatus'[t] = subStatus[t]
  BY <1>4 DEF TypeOK
<1>6. RowsAgree'
  BY <1>5, NoVersionType DEF ReviewPart, RowsAgree
<1>7. ReviewInOrder'
  BY <1>3, <1>5 DEF ReviewPart, ReviewInOrder, StoppedAt
<1>8. OutcomeMatchesSteps'
  BY <1>3, <1>5 DEF ReviewPart, OutcomeMatchesSteps, StoppedAt, AllApproved
<1>9. OneOpenSubmission'
  BY <1>4, <1>5 DEF ReviewPart, OneOpenSubmission, HasOpenSubmission, OpenStatuses
<1>10. ReviewsKept
  BY <1>4, <1>5, NoVersionType DEF ReviewPart, RowsAgree, ReviewsKept, Reviewed,
    AllApproved
<1> QED
  BY <1>6, <1>7, <1>8, <1>9, <1>10 DEF ReviewPart

\* The step a reviewer may decide is the one the review has come to.
LEMMA ActionableStep ==
  ASSUME TypeOK, ReviewPart, NEW s \in Submissions, NEW i \in DOMAIN steps[s],
         StepActionable(s, i)
  PROVE  /\ StoppedAt(steps[s], i)
         /\ insStatus[s] = "in_progress" /\ subStatus[s] = "in_review"
         /\ subVersion[s] \in Versions
         /\ ~AllApproved(steps[s])
<1>1. insStatus[s] = "in_progress" /\ steps[s][i].status = "in_progress"
  BY DEF StepActionable
<1>2. subStatus[s] = "in_review" /\ subVersion[s] \in Versions
  BY <1>1 DEF ReviewPart, RowsAgree, TypeOK
<1>3. PICK k \in DOMAIN steps[s] : StoppedAt(steps[s], k)
  BY <1>1 DEF ReviewPart, ReviewInOrder
<1>4. DOMAIN steps[s] = 1..Len(steps[s]) /\ Len(steps[s]) \in Nat
  BY StepListRows DEF TypeOK
<1>5. i = k
  BY <1>1, <1>3, <1>4 DEF StoppedAt
<1> QED
  BY <1>1, <1>2, <1>3, <1>5 DEF AllApproved

\* An approval of a step keeps the review part.  (decideSkillReviewStep)
LEMMA ApproveKeeps ==
  ASSUME TypeOK, ReviewPart, NEW r \in Requests, NEW s \in Submissions,
         NEW i \in DOMAIN steps[s], ApproveStep(r, s, i)
  PROVE  ReviewPart' /\ ReviewsKept
<1> DEFINE adv == AdvanceAuto([steps[s] EXCEPT ![i].status = "approved"])
<1>1. /\ StoppedAt(steps[s], i)
      /\ insStatus[s] = "in_progress" /\ subStatus[s] = "in_review"
      /\ subVersion[s] \in Versions
      /\ ~AllApproved(steps[s])
  BY ActionableStep DEF ApproveStep
<1>2. IF Complete(adv)
        THEN AllApproved(adv)
        ELSE \E j \in DOMAIN adv :
               /\ adv[j].status = "in_progress"
               /\ adv[j].mode = "manual"
               /\ StoppedAt(adv, j)
  BY <1>1, ApprovalOutcome DEF TypeOK
<1> HIDE DEF adv
<1>3. /\ steps' = [steps EXCEPT ![s] = adv]
      /\ insStatus' = [insStatus EXCEPT ![s] =
                         IF Complete(adv) THEN "approved" ELSE "in_progress"]
      /\ subStatus' = [subStatus EXCEPT ![s] =
                         IF Complete(adv) THEN "approved" ELSE "in_review"]
      /\ subVersion' = subVersion
  BY <1>1 DEF ApproveStep, SaveReview, adv
<1>4. /\ steps'[s] = adv
      /\ insStatus'[s] = IF Complete(adv) THEN "approved" ELSE "in_progress"
      /\ subStatus'[s] = IF Complete(adv) THEN "approved" ELSE "in_review"
      /\ \A t \in Submissions \ {s} :
           /\ steps'[t] = steps[t] /\ insStatus'[t] = insStatus[t]
           /\ subStatus'[t] = subStatus[t]
  BY <1>3 DEF TypeOK
<1>5. RowsAgree'
  BY <1>1, <1>3, <1>4, NoVersionType DEF ReviewPart, RowsAgree
<1>6. ReviewInOrder'
  BY <1>2, <1>4 DEF ReviewPart, ReviewInOrder, StoppedAt
<1>7. OutcomeMatchesSteps'
  BY <1>2, <1>4 DEF ReviewPart, OutcomeMatchesSteps, StoppedAt, AllApproved
<1>8. OneOpenSubmission'
  BY <1>1, <1>3, <1>4 DEF ReviewPart, OneOpenSubmission
<1>9. ReviewsKept
  BY <1>1, <1>3, <1>4 DEF ReviewsKept, Reviewed
<1> QED
  BY <1>5, <1>6, <1>7, <1>8, <1>9 DEF ReviewPart

\* A refusal of a step keeps the review part.  (decideSkillReviewStep)
LEMMA RefuseKeeps ==
  ASSUME TypeOK, ReviewPart, NEW r \in Requests, NEW s \in Submissions,
         NEW i \in DOMAIN steps[s], NEW decision \in Decisions,
         RefuseStep(r, s, i, decision)
  PROVE  ReviewPart' /\ ReviewsKept
<1> DEFINE list == [steps[s] EXCEPT ![i].status = decision]
<1>1. /\ StoppedAt(steps[s], i)
      /\ insStatus[s] = "in_progress" /\ subStatus[s] = "in_review"
      /\ subVersion[s] \in Versions
      /\ ~AllApproved(steps[s])
  BY ActionableStep DEF RefuseStep
<1>2. decision \in {"rejected", "changes_requested"}
  BY DEF RefuseStep, Decisions
<1>3. /\ list \in Seq(StepRow) /\ DOMAIN list = DOMAIN steps[s]
      /\ Len(list) = Len(steps[s])
  <2>1. steps[s] \in Seq(StepRow)
    BY DEF TypeOK
  <2>2. decision \in StepStatuses
    BY DEF StepStatuses, Decisions
  <2> QED
    BY <2>1, <2>2, SetStatusType
<1>4. /\ DOMAIN steps[s] = 1..Len(steps[s]) /\ Len(steps[s]) \in Nat
      /\ \A j \in DOMAIN steps[s] : steps[s][j] \in StepRow
  BY StepListRows DEF TypeOK
<1>5. \A j \in DOMAIN steps[s] :
        list[j].status = IF j = i THEN decision ELSE steps[s][j].status
  BY <1>4 DEF StepRow
<1>6. steps' = [steps EXCEPT ![s] = list]
  BY DEF RefuseStep, TypeOK
<1> HIDE DEF list
<1>7. StoppedAt(list, i) /\ list[i].status = decision
  <2>1. i \in 1..Len(steps[s])
    BY <1>4
  <2>2. \A j \in 1..Len(steps[s]) :
          list[j].status = IF j = i THEN decision ELSE steps[s][j].status
    BY <1>4, <1>5
  <2>3. Len(list) = Len(steps[s])
    BY <1>3
  <2>4. \A j \in 1..(i - 1) : list[j].status = "approved"
    BY <1>1, <1>4, <2>1, <2>2 DEF StoppedAt
  <2>5. \A j \in (i + 1)..Len(list) : list[j].status = "pending"
    BY <1>1, <1>4, <2>1, <2>2, <2>3 DEF StoppedAt
  <2> QED
    BY <2>1, <2>2, <2>4, <2>5 DEF StoppedAt
<1>8. /\ steps'[s] = list /\ insStatus'[s] = decision /\ subStatus'[s] = decision
      /\ subVersion' = subVersion
      /\ \A t \in Submissions \ {s} :
           /\ steps'[t] = steps[t] /\ insStatus'[t] = insStatus[t]
           /\ subStatus'[t] = subStatus[t]
  BY <1>6 DEF RefuseStep, TypeOK
<1>9. RowsAgree'
  BY <1>1, <1>2, <1>8, NoVersionType DEF ReviewPart, RowsAgree
<1>10. ReviewInOrder'
  BY <1>2, <1>8 DEF ReviewPart, ReviewInOrder, StoppedAt
<1>11. OutcomeMatchesSteps'
  <2>1. i \in DOMAIN list
    BY <1>3
  <2>2. \A t \in Submissions \ {s} :
          /\ subStatus'[t] \in {"approved", "published"} => AllApproved(steps'[t])
          /\ subStatus'[t] \in {"rejected", "changes_requested"} =>
               \E j \in DOMAIN steps'[t] :
                 steps'[t][j].status = subStatus'[t] /\ StoppedAt(steps'[t], j)
    BY <1>8 DEF ReviewPart, OutcomeMatchesSteps
  <2>3. /\ subStatus'[s] \notin {"approved", "published"}
        /\ steps'[s][i].status = subStatus'[s] /\ StoppedAt(steps'[s], i)
        /\ i \in DOMAIN steps'[s]
    BY <1>2, <1>7, <1>8, <2>1
  <2> QED
    BY <2>2, <2>3 DEF OutcomeMatchesSteps
<1>12. OneOpenSubmission'
  BY <1>2, <1>8 DEF ReviewPart, OneOpenSubmission
<1>13. ReviewsKept
  BY <1>1, <1>8 DEF ReviewsKept, Reviewed
<1> QED
  BY <1>9, <1>10, <1>11, <1>12, <1>13 DEF ReviewPart

\* Publishing a submission keeps the review part: the submission it read as
\* approved is still approved or published.  (publishSubmission)
LEMMA PublishSubmissionKeeps ==
  ASSUME TypeOK, ReviewPart, PublicationsJustified, NEW r \in Requests,
         PublishSubmissionRow(r)
  PROVE  ReviewPart' /\ ReviewsKept
<1> DEFINE s == req[r].sub
<1>1. s \in Submissions
  BY RequestFields DEF PublishSubmissionRow, TypeOK
<1>2. subStatus[s] \in {"approved", "published"}
  BY DEF PublicationsJustified, Justified, PublishSubmissionRow, At
<1>3. /\ subStatus' = [subStatus EXCEPT ![s] = "published"]
      /\ UNCHANGED <<subVersion, insStatus, steps>>
  BY DEF PublishSubmissionRow
<1> HIDE DEF s
<1>4. /\ subStatus'[s] = "published"
      /\ \A t \in Submissions \ {s} : subStatus'[t] = subStatus[t]
  BY <1>1, <1>3 DEF TypeOK
<1>5. RowsAgree'
  BY <1>1, <1>2, <1>3, <1>4 DEF ReviewPart, RowsAgree
<1>6. ReviewInOrder'
  BY <1>3 DEF ReviewPart, ReviewInOrder, StoppedAt
<1>7. OutcomeMatchesSteps'
  BY <1>1, <1>2, <1>3, <1>4 DEF ReviewPart, OutcomeMatchesSteps, StoppedAt, AllApproved
<1>8. OneOpenSubmission'
  BY <1>3, <1>4 DEF ReviewPart, OneOpenSubmission
<1>9. ReviewsKept
  BY <1>3 DEF ReviewsKept, Reviewed, AllApproved
<1> QED
  BY <1>5, <1>6, <1>7, <1>8, <1>9 DEF ReviewPart

-----------------------------------------------------------------------------
(* Which steps touch which tables.                                          *)

\* Only submitting, deciding and publishing a submission write review tables.
LEMMA ReviewWriters ==
  ASSUME [Next]_vars
  PROVE  \/ UNCHANGED reviewVars
         \/ \E r \in Requests, v \in Versions, s \in Submissions : Submit(r, v, s)
         \/ \E r \in Requests, s \in Submissions : \E i \in DOMAIN steps[s] :
              ApproveStep(r, s, i)
         \/ \E r \in Requests, s \in Submissions : \E i \in DOMAIN steps[s] :
              \E decision \in Decisions : RefuseStep(r, s, i, decision)
         \/ \E r \in Requests : PublishSubmissionRow(r)
<1>1. ASSUME NEW r \in Requests, SkillSteps(r)
      PROVE  UNCHANGED reviewVars
  BY <1>1 DEF SkillSteps, CreateSkill, CreateSkillVersion, CreateSkillInsertVersion
<1>2. ASSUME NEW r \in Requests, FileSteps(r)
      PROVE  UNCHANGED reviewVars
  BY <1>2 DEF FileSteps, UpsertSkillFileCheck, UpsertSkillFileWrite,
    UpdateSkillFileCheck, UpdateSkillFileWrite, DeleteSkillFileCheck,
    DeleteSkillFileWrite
<1>3. ASSUME NEW r \in Requests, PublishSteps(r)
      PROVE  UNCHANGED reviewVars \/ PublishSubmissionRow(r)
  BY <1>3 DEF PublishSteps, PublishSubmissionCheck, PublishSkillVersionCheck,
    PublishSubmittedVersion, PublishSubmittedSkill, PublishSkillVersionRow,
    PublishSkillVersionSkill, PublishSkillVersionUnnumbered
<1>4. ASSUME NEW r \in Requests, NEW w \in Workflows, NEW list \in StepLists,
             NEW status \in {"active", "disabled"}, SaveWorkflow(r, w, list, status)
      PROVE  UNCHANGED reviewVars
  BY <1>4 DEF SaveWorkflow
<1>5. ASSUME (\E r \in Requests : StatementFails(r)) \/ Restart \/ UNCHANGED vars
      PROVE  UNCHANGED reviewVars
  BY <1>5 DEF StatementFails, Restart, vars
<1> QED
  BY <1>1, <1>2, <1>3, <1>4, <1>5 DEF Next, ReviewSteps, SubmitStep, DecideStep

\* Every step keeps the review part, and the reviews that versions have had.
LEMMA ReviewPartKept ==
  ASSUME TypeOK, ReviewPart, PublicationsJustified, [Next]_vars
  PROVE  ReviewPart' /\ ReviewsKept
BY ReviewWriters, ReviewFrame, SubmitKeeps, ApproveKeeps, RefuseKeeps,
  PublishSubmissionKeeps

\* A submission that was approved is approved or published from then on.
LEMMA ApprovalsKept ==
  ASSUME TypeOK, ReviewPart, [Next]_vars, NEW s \in Submissions,
         subStatus[s] \in {"approved", "published"}
  PROVE  subStatus'[s] \in {"approved", "published"}
<1>1. ASSUME UNCHANGED reviewVars
      PROVE  subStatus'[s] \in {"approved", "published"}
  BY <1>1 DEF reviewVars
<1>2. ASSUME NEW r \in Requests, NEW v \in Versions, NEW t \in Submissions,
             Submit(r, v, t)
      PROVE  subStatus'[s] \in {"approved", "published"}
  BY <1>2 DEF Submit, SaveReview, TypeOK
<1>3. ASSUME NEW r \in Requests, NEW t \in Submissions, NEW i \in DOMAIN steps[t],
             ApproveStep(r, t, i)
      PROVE  subStatus'[s] \in {"approved", "published"}
  <2>1. subStatus[t] = "in_review"
    BY <1>3, ActionableStep DEF ApproveStep
  <2> QED
    BY <1>3, <2>1 DEF ApproveStep, SaveReview, TypeOK
<1>4. ASSUME NEW r \in Requests, NEW t \in Submissions, NEW i \in DOMAIN steps[t],
             NEW decision \in Decisions, RefuseStep(r, t, i, decision)
      PROVE  subStatus'[s] \in {"approved", "published"}
  <2>1. subStatus[t] = "in_review"
    BY <1>4, ActionableStep DEF RefuseStep
  <2> QED
    BY <1>4, <2>1 DEF RefuseStep, TypeOK
<1>5. ASSUME NEW r \in Requests, PublishSubmissionRow(r)
      PROVE  subStatus'[s] \in {"approved", "published"}
  BY <1>5 DEF PublishSubmissionRow, TypeOK
<1> QED
  BY <1>1, <1>2, <1>3, <1>4, <1>5, ReviewWriters

-----------------------------------------------------------------------------
(* The part of the invariant about versions and requests.                   *)

\* A version that becomes approved has just been reviewed; one that becomes
\* published was being published by a request, or was inserted by the boot.
LEMMA VersionWriters ==
  ASSUME TypeOK, ReviewPart, ReviewPart', [Next]_vars, NEW v \in Versions
  PROVE  \/ vStatus'[v] = vStatus[v] /\ vOrigin'[v] = vOrigin[v]
         \/ vStatus'[v] \in {"draft", "in_review"}
         \/ vStatus'[v] = "approved" /\ Reviewed(v)'
         \/ /\ vStatus'[v] = "published"
            /\ \E r \in Requests :
                 /\ req[r].op \in {"publish_submitted_version", "publish_version"}
                 /\ req[r].version = v
         \/ vStatus'[v] = "published" /\ vOrigin'[v] = "boot"
<1> DEFINE Goal ==
         \/ vStatus'[v] = vStatus[v] /\ vOrigin'[v] = vOrigin[v]
         \/ vStatus'[v] \in {"draft", "in_review"}
         \/ vStatus'[v] = "approved" /\ Reviewed(v)'
         \/ /\ vStatus'[v] = "published"
            /\ \E r \in Requests :
                 /\ req[r].op \in {"publish_submitted_version", "publish_version"}
                 /\ req[r].version = v
         \/ vStatus'[v] = "published" /\ vOrigin'[v] = "boot"
<1>0. ASSUME UNCHANGED versionVars
      PROVE  Goal
  BY <1>0 DEF versionVars
<1>1. ASSUME NEW r \in Requests, SkillSteps(r)
      PROVE  Goal
  BY <1>1 DEF TypeOK, SkillSteps, CreateSkill, CreateSkillVersion,
    CreateSkillInsertVersion, versionVars
<1>2. ASSUME NEW r \in Requests, FileSteps(r)
      PROVE  Goal
  <2>1. UNCHANGED versionVars
    BY <1>2 DEF FileSteps, UpsertSkillFileCheck, UpsertSkillFileWrite,
      UpdateSkillFileCheck, UpdateSkillFileWrite, DeleteSkillFileCheck,
      DeleteSkillFileWrite
  <2> QED BY <1>0, <2>1
<1>3. ASSUME NEW r \in Requests, NEW w \in Workflows, NEW list \in StepLists,
             NEW status \in {"active", "disabled"}, SaveWorkflow(r, w, list, status)
      PROVE  Goal
  <2>1. UNCHANGED versionVars
    BY <1>3 DEF SaveWorkflow
  <2> QED BY <1>0, <2>1
<1>4. ASSUME NEW r \in Requests, NEW x \in Versions, NEW s \in Submissions,
             Submit(r, x, s)
      PROVE  Goal
  <2>1. PICK list \in {AdvanceAuto(Snapshot(wfSteps[w])) : w \in Workflows} :
          SaveReview(s, x, list, "in_review", "in_review")
    BY <1>4 DEF Submit
  <2>2. subVersion'[s] = x /\ vOrigin' = vOrigin
    BY <1>4 DEF Submit, TypeOK
  <2>3. CASE x # v
    BY <2>1, <2>2, <2>3 DEF SaveReview, TypeOK
  <2>4. CASE x = v /\ ~Complete(list)
    BY <2>1, <2>4 DEF SaveReview, TypeOK
  <2>5. CASE x = v /\ Complete(list)
    <3>1. vStatus'[v] = "approved" /\ subStatus'[s] = "approved"
      BY <2>1, <2>5 DEF SaveReview, TypeOK
    <3>2. AllApproved(steps[s])'
      BY <3>1 DEF ReviewPart, OutcomeMatchesSteps
    <3> QED
      BY <2>2, <2>5, <3>1, <3>2 DEF Reviewed
  <2> QED BY <2>3, <2>4, <2>5
<1>5. ASSUME NEW r \in Requests, NEW s \in Submissions, NEW i \in DOMAIN steps[s],
             ApproveStep(r, s, i)
      PROVE  Goal
  <2> DEFINE list == AdvanceAuto([steps[s] EXCEPT ![i].status = "approved"])
             x == subVersion[s]
  <2>1. /\ SaveReview(s, x, list, subStatus[s], vStatus[x])
        /\ subVersion' = subVersion /\ vOrigin' = vOrigin
    BY <1>5 DEF ApproveStep
  <2> HIDE DEF list
  <2>2. CASE x # v \/ ~Complete(list)
    BY <2>1, <2>2 DEF SaveReview, TypeOK
  <2>3. CASE x = v /\ Complete(list)
    <3>1. vStatus'[v] = "approved" /\ subStatus'[s] = "approved"
      BY <2>1, <2>3 DEF SaveReview, TypeOK
    <3>2. AllApproved(steps[s])'
      BY <3>1 DEF ReviewPart, OutcomeMatchesSteps
    <3> QED
      BY <2>1, <2>3, <3>1, <3>2 DEF Reviewed
  <2> QED BY <2>2, <2>3
<1>6. ASSUME NEW r \in Requests, NEW s \in Submissions, NEW i \in DOMAIN steps[s],
             NEW decision \in Decisions, RefuseStep(r, s, i, decision)
      PROVE  Goal
  <2>1. UNCHANGED versionVars
    BY <1>6 DEF RefuseStep
  <2> QED BY <1>0, <2>1
<1>7. ASSUME NEW r \in Requests, PublishSteps(r)
      PROVE  Goal
  <2>1. CASE UNCHANGED versionVars
    BY <1>0, <2>1
  <2>2. ASSUME At(r, "publish_submitted_version") \/ At(r, "publish_version"),
               SetPublished(req[r].version), vOrigin' = vOrigin
        PROVE  Goal
    BY <2>2 DEF At, SetPublished, TypeOK
  <2> QED
    BY <1>7, <2>1, <2>2 DEF PublishSteps, PublishSubmissionCheck,
      PublishSkillVersionCheck, PublishSubmissionRow, PublishSubmittedVersion,
      PublishSubmittedSkill, PublishSkillVersionRow, PublishSkillVersionSkill,
      PublishSkillVersionUnnumbered
<1>8. ASSUME NEW r \in Requests, StatementFails(r)
      PROVE  Goal
  BY <1>8, <1>0 DEF StatementFails
<1>9. ASSUME Restart
      PROVE  Goal
  BY <1>9 DEF Restart
<1> QED
  BY <1>0, <1>1, <1>2, <1>3, <1>4, <1>5, <1>6, <1>7, <1>8, <1>9 DEF Next, ReviewSteps,
    SubmitStep, DecideStep, vars

\* Approval and publication are still backed by a review.
LEMMA VersionsKept ==
  ASSUME TypeOK, ReviewPart, ReviewPart', ReviewsKept, ApprovedWasReviewed,
         PublicationsJustified, [Next]_vars
  PROVE  ApprovedWasReviewed'
<1> SUFFICES ASSUME NEW v \in Versions
             PROVE  /\ vStatus'[v] = "published" /\ vOrigin'[v] = "user" => Reviewed(v)'
                    /\ vStatus'[v] = "approved" => Reviewed(v)'
  BY DEF ApprovedWasReviewed, PublishedWasReviewed
<1>1. Reviewed(v) => Reviewed(v)'
  BY DEF ReviewsKept
<1>2. ASSUME NEW r \in Requests,
             req[r].op \in {"publish_submitted_version", "publish_version"},
             req[r].version = v
      PROVE  Reviewed(v)
  BY <1>2 DEF PublicationsJustified, Justified, Publishing
<1>3. /\ vStatus[v] = "published" /\ vOrigin[v] = "user" => Reviewed(v)
      /\ vStatus[v] = "approved" => Reviewed(v)
  BY DEF ApprovedWasReviewed, PublishedWasReviewed
<1> QED
  BY <1>1, <1>2, <1>3, VersionWriters

\* A request that publishes a reviewed version.
LEMMA ReviewedRequest ==
  ASSUME NEW q \in Requests, NEW v, req'[q].version = v, Reviewed(v)'
  PROVE  Reviewed(req[q].version)'
BY DEF Reviewed, AllApproved

\* What a request that publishes has read stays true until it has written.
LEMMA PublicationsKept ==
  ASSUME TypeOK, ReviewPart, ReviewsKept, ApprovedWasReviewed,
         PublicationsJustified, [Next]_vars
  PROVE  PublicationsJustified'
<1> SUFFICES ASSUME NEW q \in Requests
             PROVE  Justified(q)'
  BY DEF PublicationsJustified
<1> DEFINE Goal == Justified(q)'
<1>1. ASSUME req'[q] = req[q]
      PROVE  Goal
  <2>1. ASSUME req[q].op \in Publishing
        PROVE  Reviewed(req[q].version) /\ req[q].version \in Versions
    BY <2>1, RequestFields DEF PublicationsJustified, Justified, TypeOK, Free, Publishing
  <2>2. ASSUME req[q].op \in Publishing
        PROVE  Reviewed(req[q].version)'
    <3> DEFINE v == req[q].version
    <3>1. Reviewed(v) /\ v \in Versions
      BY <2>1, <2>2
    <3>2. PICK x \in Versions : x = v
      BY <3>1
    <3>3. Reviewed(x)'
      BY <3>1, <3>2 DEF ReviewsKept
    <3> QED
      BY <1>1, <3>2, <3>3, ReviewedRequest
  <2>3. ASSUME req[q].op = "publish_submission"
        PROVE  subStatus'[req[q].sub] \in {"approved", "published"}
    <3>1. req[q].sub \in Submissions
      BY <2>3, RequestFields DEF TypeOK, At
    <3>2. subStatus[req[q].sub] \in {"approved", "published"}
      BY <2>3 DEF PublicationsJustified, Justified
    <3> QED
      BY <3>1, <3>2, ApprovalsKept
  <2> QED BY <1>1, <2>2, <2>3 DEF Justified
<1>2. ASSUME req'[q].op \notin Publishing
      PROVE  Goal
  BY <1>2 DEF Justified, Publishing
<1>3. ASSUME NEW r \in Requests, SkillSteps(r)
      PROVE  Goal
  BY <1>1, <1>2, <1>3 DEF SkillSteps, CreateSkill, CreateSkillVersion,
    CreateSkillInsertVersion, Goto, TypeOK,
    Idle, Publishing
<1>4. ASSUME NEW r \in Requests, FileSteps(r)
      PROVE  Goal
  BY <1>1, <1>2, <1>4 DEF FileSteps, UpsertSkillFileCheck, UpsertSkillFileWrite,
    UpdateSkillFileCheck, UpdateSkillFileWrite, DeleteSkillFileCheck,
    DeleteSkillFileWrite, Goto, TypeOK,
    Idle, Publishing
<1>5. ASSUME NEW r \in Requests, ReviewSteps(r)
      PROVE  Goal
  BY <1>1, <1>5 DEF ReviewSteps, SubmitStep, DecideStep, SaveWorkflow, Submit,
    ApproveStep, RefuseStep
<1>6. ASSUME NEW r \in Requests, NEW s \in Submissions, PublishSubmissionCheck(r, s)
      PROVE  Goal
  <2>1. CASE q # r
    BY <1>1, <1>6, <2>1 DEF PublishSubmissionCheck, Goto, TypeOK
  <2>2. CASE q = r
    <3>1. req'[q] = [op |-> "publish_submission", version |-> subVersion[s], sub |-> s]
      BY <1>6, <2>2 DEF PublishSubmissionCheck, Goto, TypeOK
    <3>2. subStatus'[s] \in {"approved", "published"} /\ subStatus[s] = "approved"
      BY <1>6, ApprovalsKept DEF PublishSubmissionCheck
    <3>3. PICK v \in Versions : v = subVersion[s]
      BY <3>2 DEF ReviewPart, RowsAgree, TypeOK
    <3>4. Reviewed(v)
      BY <3>2, <3>3 DEF ReviewPart, OutcomeMatchesSteps, Reviewed
    <3>5. Reviewed(v)'
      BY <3>4 DEF ReviewsKept
    <3>6. Reviewed(req[q].version)'
      BY <3>1, <3>3, <3>5, ReviewedRequest
    <3> QED
      BY <3>1, <3>2, <3>6 DEF Justified
  <2> QED BY <2>1, <2>2
<1>7. ASSUME NEW r \in Requests, NEW v \in Versions, PublishSkillVersionCheck(r, v)
      PROVE  Goal
  <2>1. CASE q # r
    BY <1>1, <1>7, <2>1 DEF PublishSkillVersionCheck, Goto, TypeOK
  <2>2. CASE q = r
    <3>1. req'[q] = [op |-> "publish_version", version |-> v]
      BY <1>7, <2>2 DEF PublishSkillVersionCheck, Goto, TypeOK
    <3>2. Reviewed(v)
      BY <1>7 DEF PublishSkillVersionCheck, Publishable, ApprovedWasReviewed
    <3>3. Reviewed(v)'
      BY <3>2 DEF ReviewsKept
    <3>4. Reviewed(req[q].version)'
      BY <3>1, <3>3, ReviewedRequest
    <3> QED
      BY <3>1, <3>4 DEF Justified
  <2> QED BY <2>1, <2>2
<1>8. ASSUME NEW r \in Requests, PublishSubmissionRow(r)
      PROVE  Goal
  <2>1. CASE q # r
    BY <1>1, <1>8, <2>1 DEF PublishSubmissionRow, Goto, TypeOK
  <2>2. CASE q = r
    <3>1. req'[q] = [op |-> "publish_submitted_version",
                     version |-> req[q].version, sub |-> req[q].sub]
      BY <1>8, <2>2, RequestFields DEF PublishSubmissionRow, Goto, TypeOK
    <3>2. Reviewed(req[q].version) /\ req[q].version \in Versions
      BY <1>8, <2>2, RequestFields DEF PublishSubmissionRow, PublicationsJustified,
        Justified, Publishing, At, Free, TypeOK
    <3>3. PICK v \in Versions : v = req[q].version
      BY <3>2
    <3>4. Reviewed(v)'
      BY <3>2, <3>3 DEF ReviewsKept
    <3>5. Reviewed(req[q].version)'
      BY <3>1, <3>3, <3>4, ReviewedRequest
    <3> QED
      BY <3>1, <3>5 DEF Justified
  <2> QED BY <2>1, <2>2
<1>9. ASSUME NEW r \in Requests,
             \/ PublishSubmittedVersion(r) \/ PublishSubmittedSkill(r)
             \/ PublishSkillVersionRow(r) \/ PublishSkillVersionSkill(r)
             \/ PublishSkillVersionUnnumbered(r)
             \/ StatementFails(r)
      PROVE  Goal
  BY <1>1, <1>2, <1>9 DEF PublishSubmittedVersion, PublishSubmittedSkill,
    PublishSkillVersionRow, PublishSkillVersionSkill,
    PublishSkillVersionUnnumbered, StatementFails, Goto, TypeOK,
    Idle, Publishing
<1>10. ASSUME Restart
       PROVE  Goal
  BY <1>2, <1>10 DEF Restart, Idle, Publishing
<1>11. ASSUME UNCHANGED vars
       PROVE  Goal
  BY <1>1, <1>11 DEF vars
<1> QED
  BY <1>3, <1>4, <1>5, <1>6, <1>7, <1>8, <1>9, <1>10, <1>11 DEF Next, PublishSteps

-----------------------------------------------------------------------------
(* The invariant is inductive.                                              *)

\* The first boot leaves nothing under review and no request at work; what is
\* published then, the boot inserted.
LEMMA InitInvariant == Init => IInv
<1> SUFFICES ASSUME Init PROVE IInv
  OBVIOUS
<1>1. TypeOK
  BY InitType
<1>2. RowsAgree /\ ReviewInOrder /\ OutcomeMatchesSteps /\ OneOpenSubmission
  BY DEF Init, RowsAgree, ReviewInOrder, OutcomeMatchesSteps, OneOpenSubmission
<1>3. ApprovedWasReviewed
  BY DEF Init, ApprovedWasReviewed, PublishedWasReviewed
<1>4. PublicationsJustified
  BY DEF Init, PublicationsJustified, Justified, Publishing, Idle
<1> QED
  BY <1>1, <1>2, <1>3, <1>4 DEF IInv

\* Every step, and every step that changes nothing, keeps the invariant.
LEMMA StepInvariant ==
  ASSUME IInv, [Next]_vars
  PROVE  IInv'
<1>1. TypeOK /\ ReviewPart /\ ApprovedWasReviewed /\ PublicationsJustified
  BY DEF IInv, ReviewPart
<1>2. TypeOK'
  BY <1>1, NextType, StutterType DEF ReviewPart
<1>3. ReviewPart' /\ ReviewsKept
  BY <1>1, ReviewPartKept
<1>4. ApprovedWasReviewed'
  BY <1>1, <1>3, VersionsKept
<1>5. PublicationsJustified'
  BY <1>1, <1>3, PublicationsKept
<1> QED
  BY <1>2, <1>3, <1>4, <1>5 DEF IInv, ReviewPart

\* The invariant holds in every state of every behaviour.
THEOREM Invariant == Spec => []IInv
<1>1. Init => IInv
  BY InitInvariant
<1>2. IInv /\ [Next]_vars => IInv'
  BY StepInvariant
<1> QED
  BY <1>1, <1>2, PTL DEF Spec

\* Every variable keeps its type, and the counters stay within their bounds.
THEOREM TypeCorrect == Spec => []TypeOK
<1>1. IInv => TypeOK
  BY DEF IInv
<1> QED
  BY <1>1, Invariant, PTL

\* An open review always has exactly one step to decide, and it is the first
\* that is not approved: whatever the workflow, its length and its mix of
\* automatic and manual steps, and whatever the requests and faults meanwhile.
\* (createSkillReviewInstance, advanceAutoSkillReviewSteps,
\* decideSkillReviewStep)
THEOREM ReviewsProceedInOrder == Spec => []ReviewInOrder
<1>1. IInv => ReviewInOrder
  BY DEF IInv
<1> QED
  BY <1>1, Invariant, PTL

\* A submission is approved or published only when every step of its instance is
\* approved, and refused only by the step the review had come to.
\* (finishSkillReviewIfComplete, decideSkillReviewStep, publishSubmission)
THEOREM OutcomesMatch == Spec => []OutcomeMatchesSteps
<1>1. IInv => OutcomeMatchesSteps
  BY DEF IInv
<1> QED
  BY <1>1, Invariant, PTL

\* A version never has two submissions under review or approved, however many
\* requests submit, decide and publish at the same time.  (submitSkillVersionByID)
THEOREM AtMostOneOpen == Spec => []OneOpenSubmission
<1>1. IInv => OneOpenSubmission
  BY DEF IInv
<1> QED
  BY <1>1, Invariant, PTL

\* What a client created is published only after a review passed every step,
\* through stale reads, crashes and failed statements.  (publishSubmission,
\* publishSkillVersion)
THEOREM PublishedAfterReview == Spec => []PublishedWasReviewed
<1>1. IInv => PublishedWasReviewed
  BY DEF IInv, ApprovedWasReviewed
<1> QED
  BY <1>1, Invariant, PTL

-----------------------------------------------------------------------------
(* Decisions are final.                                                     *)

\* The body of DecisionsFinal: a step leaves alone each review step that is
\* decided, and all those of a review that is closed.
FinalStep ==
  \A s \in Submissions : \A i \in DOMAIN steps[s] :
    \/ steps[s][i].status \in Decisions
    \/ insStatus[s] \in {"approved"} \cup Decisions
    => steps'[s][i] = steps[s][i]

\* Running the automatic steps leaves finished steps alone.
LEMMA AdvanceAutoKeepsFinished ==
  ASSUME NEW list, NEW i \in DOMAIN list, ~Unfinished(list[i])
  PROVE  AdvanceAuto(list)[i] = list[i]
BY DEF AdvanceAuto, Reached

\* No step of the system takes a decision back.
LEMMA DecisionsKept ==
  ASSUME IInv, [Next]_vars
  PROVE  FinalStep
<1> SUFFICES ASSUME NEW s \in Submissions, NEW i \in DOMAIN steps[s],
                    \/ steps[s][i].status \in Decisions
                    \/ insStatus[s] \in {"approved"} \cup Decisions
             PROVE  steps'[s][i] = steps[s][i]
  BY DEF FinalStep
<1>0. TypeOK /\ ReviewPart /\ RowsAgree
  BY DEF IInv, ReviewPart
<1>1. ASSUME UNCHANGED reviewVars \/ (\E r \in Requests : PublishSubmissionRow(r))
      PROVE  steps'[s][i] = steps[s][i]
  BY <1>1 DEF reviewVars, PublishSubmissionRow
<1>2. ASSUME NEW r \in Requests, NEW v \in Versions, NEW t \in Submissions,
             Submit(r, v, t)
      PROVE  steps'[s][i] = steps[s][i]
  <2>1. subStatus[t] = "none"
    BY <1>2 DEF Submit
  <2>2. s # t
    <3>1. steps[t] = <<>>
      BY <1>0, <2>1 DEF RowsAgree
    <3> QED
      BY <3>1
  <2> QED
    BY <1>0, <1>2, <2>2 DEF Submit, SaveReview, TypeOK
<1>3. ASSUME NEW r \in Requests, NEW t \in Submissions, NEW k \in DOMAIN steps[t],
             ApproveStep(r, t, k)
      PROVE  steps'[s][i] = steps[s][i]
  <2> DEFINE closed == [steps[t] EXCEPT ![k].status = "approved"]
  <2>1. steps' = [steps EXCEPT ![t] = AdvanceAuto(closed)]
    BY <1>3 DEF ApproveStep, SaveReview
  <2>2. insStatus[t] = "in_progress" /\ steps[t][k].status = "in_progress"
    BY <1>3 DEF ApproveStep, StepActionable
  <2>3. CASE s # t
    BY <1>0, <2>1, <2>3 DEF TypeOK
  <2>4. CASE s = t
    <3>1. steps[s][i].status \in Decisions
      BY <2>2, <2>4 DEF Decisions
    <3>2. i # k
      BY <2>2, <2>4, <3>1 DEF Decisions
    <3>3. DOMAIN closed = DOMAIN steps[t] /\ closed[i] = steps[t][i]
      BY <2>4, <3>2
    <3>4. ~Unfinished(closed[i])
      BY <2>4, <3>1, <3>3 DEF Unfinished, Decisions
    <3> HIDE DEF closed
    <3>5. AdvanceAuto(closed)[i] = closed[i]
      BY <2>4, <3>3, <3>4, AdvanceAutoKeepsFinished
    <3> QED
      BY <1>0, <2>1, <2>4, <3>3, <3>5 DEF TypeOK
  <2> QED BY <2>3, <2>4
<1>4. ASSUME NEW r \in Requests, NEW t \in Submissions, NEW k \in DOMAIN steps[t],
             NEW decision \in Decisions, RefuseStep(r, t, k, decision)
      PROVE  steps'[s][i] = steps[s][i]
  <2>1. steps' = [steps EXCEPT ![t][k].status = decision]
    BY <1>4 DEF RefuseStep
  <2>2. insStatus[t] = "in_progress" /\ steps[t][k].status = "in_progress"
    BY <1>4 DEF RefuseStep, StepActionable
  <2>3. s # t \/ i # k
    BY <2>2 DEF Decisions
  <2> QED
    BY <1>0, <2>1, <2>3 DEF TypeOK
<1> QED
  BY <1>1, <1>2, <1>3, <1>4, ReviewWriters

\* A decision on a step is never taken back or replaced, and a step of a
\* closed review is never opened, for any number of requests.
\* (decideSkillReviewStep)
THEOREM DecisionsAreFinal == Spec => DecisionsFinal
<1>1. IInv /\ [Next]_vars => [FinalStep]_vars
  BY DecisionsKept
<1> QED
  BY <1>1, Invariant, PTL DEF Spec, DecisionsFinal, FinalStep

-----------------------------------------------------------------------------
(* A published skill has a version to use.                                  *)

\* A version clients may be given.
Usable(v) == vImmutable[v] /\ (vOrigin[v] = "boot" \/ Reviewed(v))

\* A request whose next statement publishes the skill.
ToTheSkill(r) == req[r].op \in {"publish_skill", "publish_skill_latest"}

\* A publication turns to the skill when its version is one, unless a statement
\* was refused.
SkillsInv ==
  /\ IInv
  /\ errors = 0 =>
       /\ \A k \in Skills : skillStatus[k] = "published" =>
            \E v \in Versions : SkillOf[v] = k /\ Usable(v)
       /\ \A r \in Requests, v \in Versions :
            ToTheSkill(r) /\ req[r].version = v => Usable(v)

\* No step takes that from a version.
LEMMA UsableKept ==
  ASSUME IInv, [Next]_vars, NEW v \in Versions, Usable(v)
  PROVE  Usable(v)'
<1>1. TypeOK /\ ReviewPart /\ PublicationsJustified
  BY DEF IInv, ReviewPart
<1>2. Reviewed(v) => Reviewed(v)'
  BY <1>1, ReviewPartKept DEF ReviewsKept
<1>3. vImmutable'[v] /\ (vOrigin[v] = "boot" => vOrigin'[v] = "boot")
  <2> USE <1>1 DEF TypeOK, Usable
  <2>1. CASE UNCHANGED <<vImmutable, vOrigin>>
    BY <2>1
  <2>2. ASSUME NEW r \in Requests, PublishSubmittedVersion(r) \/ PublishSkillVersionRow(r)
        PROVE  vImmutable'[v] /\ vOrigin' = vOrigin
    BY <2>2 DEF PublishSubmittedVersion, PublishSkillVersionRow, SetPublished
  <2>3. CASE Restart
    BY <2>3 DEF Restart
  <2>4. ASSUME NEW r \in Requests, SkillSteps(r) \/ FileSteps(r) \/ ReviewSteps(r) \/ StatementFails(r)
        PROVE  UNCHANGED <<vImmutable, vOrigin>>
    BY <2>4 DEF SkillSteps, CreateSkill, CreateSkillVersion, CreateSkillInsertVersion, FileSteps,
      UpsertSkillFileCheck, UpdateSkillFileCheck, DeleteSkillFileCheck, UpsertSkillFileWrite,
      UpdateSkillFileWrite, DeleteSkillFileWrite, ReviewSteps, SaveWorkflow, SubmitStep, Submit,
      DecideStep, ApproveStep, RefuseStep, StatementFails, versionVars
  <2>5. ASSUME NEW r \in Requests, PublishSteps(r),
               ~PublishSubmittedVersion(r), ~PublishSkillVersionRow(r)
        PROVE  UNCHANGED <<vImmutable, vOrigin>>
    BY <2>5 DEF PublishSteps, PublishSubmissionCheck, PublishSkillVersionCheck, PublishSubmissionRow,
      PublishSubmittedSkill, PublishSkillVersionSkill,
      PublishSkillVersionUnnumbered, versionVars
  <2>6. CASE UNCHANGED vars
    BY <2>6 DEF vars, versionVars
  <2> QED BY <2>1, <2>2, <2>3, <2>4, <2>5, <2>6 DEF Next
<1> QED BY <1>2, <1>3 DEF Usable

\* Which steps move a request, and where they leave the others.
Moves(r) ==
  SkillSteps(r) \/ FileSteps(r) \/ ReviewSteps(r) \/ PublishSteps(r) \/ StatementFails(r)

LEMMA OthersStay ==
  ASSUME req \in [Requests -> Request], NEW r \in Requests, Moves(r)
  PROVE  /\ \A q \in Requests \ {r} : req'[q] = req[q]
         /\ req' = req \/ \E next : Goto(r, next)
<1>1. req' = req \/ \E next : Goto(r, next)
  <2>1. CASE SkillSteps(r)
    BY <2>1 DEF SkillSteps, CreateSkill, CreateSkillVersion, CreateSkillInsertVersion
  <2>2. CASE FileSteps(r)
    BY <2>2 DEF FileSteps, UpsertSkillFileCheck, UpdateSkillFileCheck, DeleteSkillFileCheck,
      UpsertSkillFileWrite, UpdateSkillFileWrite, DeleteSkillFileWrite
  <2>3. CASE ReviewSteps(r)
    BY <2>3 DEF ReviewSteps, SaveWorkflow, SubmitStep, Submit, DecideStep, ApproveStep, RefuseStep
  <2>4. CASE PublishSteps(r)
    BY <2>4 DEF PublishSteps, PublishSubmissionCheck, PublishSkillVersionCheck, PublishSubmissionRow,
      PublishSubmittedVersion, PublishSubmittedSkill, PublishSkillVersionRow, PublishSkillVersionSkill,
      PublishSkillVersionUnnumbered
  <2>5. CASE StatementFails(r)
    BY <2>5 DEF StatementFails
  <2> QED BY <2>1, <2>2, <2>3, <2>4, <2>5 DEF Moves
<1> QED BY <1>1 DEF Goto

LEMMA NextMoves == Next <=> (\E r \in Requests : Moves(r)) \/ Restart
BY DEF Next, Moves

\* What a request is about after its step.
LEMMA NextOps ==
  ASSUME req \in [Requests -> Request], errors \in Nat, NEW r \in Requests, Moves(r)
  PROVE  \/ req' = req /\ Free(r)
         \/ req'[r].op \in {"idle", "insert_version"}
         \/ /\ req'[r].op \in {"upsert_file", "update_file", "delete_file"}
            /\ Editable(req'[r].version) \/ (Free(r) /\ errors' # errors)
            /\ req'[r].version \in Versions /\ UNCHANGED vImmutable
         \/ \E s \in Submissions : PublishSubmissionCheck(r, s) /\ req'[r].version = subVersion[s]
         \/ PublishSubmissionRow(r) /\ req'[r].version = req[r].version
         \/ \E v \in Versions : PublishSkillVersionCheck(r, v) /\ req'[r].version = v
         \/ /\ PublishSubmittedVersion(r) \/ PublishSkillVersionRow(r)
            /\ req'[r].op \in {"publish_skill", "publish_skill_latest"}
            /\ req'[r].version = req[r].version
         \/ StatementFails(r) /\ req'[r].op = "publish_skill"
<1>1. CASE SkillSteps(r)
  BY <1>1 DEF SkillSteps, CreateSkill, CreateSkillVersion, CreateSkillInsertVersion, Goto, Idle, Free
<1>2. CASE FileSteps(r)
  <2>1. ASSUME NEW v \in Versions, FoundEditable(v), Free(r)
        PROVE  Editable(v) \/ (Free(r) /\ errors' # errors)
    BY <2>1 DEF FoundEditable
  <2> QED
    BY <1>2, <2>1 DEF FileSteps, UpsertSkillFileCheck, UpdateSkillFileCheck, DeleteSkillFileCheck,
      UpsertSkillFileWrite, UpdateSkillFileWrite, DeleteSkillFileWrite, Goto, Idle, versionVars
<1>3. CASE ReviewSteps(r)
  BY <1>3 DEF ReviewSteps, SaveWorkflow, SubmitStep, Submit, DecideStep, ApproveStep, RefuseStep
<1>4. CASE PublishSteps(r)
  <2>1. ASSUME NEW s \in Submissions, PublishSubmissionCheck(r, s)
        PROVE  req'[r].version = subVersion[s]
    BY <2>1 DEF PublishSubmissionCheck, Goto
  <2>2. ASSUME NEW v \in Versions, PublishSkillVersionCheck(r, v)
        PROVE  req'[r].version = v
    BY <2>2 DEF PublishSkillVersionCheck, Goto
  <2>3. CASE PublishSubmissionRow(r)
    BY <2>3, RequestFields DEF PublishSubmissionRow, Goto
  <2>4. CASE PublishSubmittedVersion(r) \/ PublishSkillVersionRow(r)
    BY <2>4 DEF PublishSubmittedVersion, PublishSkillVersionRow, Goto
  <2>5. CASE \/ PublishSubmittedSkill(r) \/ PublishSkillVersionSkill(r)
             \/ PublishSkillVersionUnnumbered(r)
    BY <2>5 DEF PublishSubmittedSkill, PublishSkillVersionSkill,
      PublishSkillVersionUnnumbered, Goto, Idle
  <2> QED BY <1>4, <2>1, <2>2, <2>3, <2>4, <2>5 DEF PublishSteps
<1>5. CASE StatementFails(r)
  BY <1>5 DEF StatementFails, Goto, Idle
<1> QED BY <1>1, <1>2, <1>3, <1>4, <1>5 DEF Moves

\* Only the last statement of a publication publishes a skill.
LEMMA SkillWriters ==
  ASSUME TypeOK, [Next]_vars, NEW k \in Skills, skillStatus'[k] = "published"
  PROVE  \/ skillStatus[k] = "published"
         \/ \E r \in Requests : /\ req[r].op \in {"publish_skill", "publish_skill_latest"}
                                /\ SkillOf[req[r].version] = k
<1> USE DEF TypeOK
<1>1. CASE UNCHANGED skillStatus
  BY <1>1
<1>2. ASSUME NEW r \in Requests, SkillSteps(r) PROVE skillStatus[k] = "published"
  BY <1>2 DEF SkillSteps, CreateSkill, CreateSkillVersion, CreateSkillInsertVersion, skillVars
<1>3. ASSUME NEW r \in Requests, FileSteps(r) \/ ReviewSteps(r) \/ StatementFails(r)
      PROVE  UNCHANGED skillStatus
  BY <1>3 DEF FileSteps, UpsertSkillFileCheck, UpdateSkillFileCheck, DeleteSkillFileCheck,
    UpsertSkillFileWrite, UpdateSkillFileWrite, DeleteSkillFileWrite, ReviewSteps, SaveWorkflow,
    SubmitStep, Submit, DecideStep, ApproveStep, RefuseStep, StatementFails, skillVars
<1>4. ASSUME NEW r \in Requests,
             \/ PublishSubmittedSkill(r) \/ PublishSkillVersionSkill(r)
             \/ PublishSkillVersionUnnumbered(r)
      PROVE  \/ skillStatus[k] = "published"
             \/ /\ req[r].op \in {"publish_skill", "publish_skill_latest"}
                /\ SkillOf[req[r].version] = k
  BY <1>4 DEF PublishSubmittedSkill, PublishSkillVersionSkill,
    PublishSkillVersionUnnumbered, At
<1>5. ASSUME NEW r \in Requests, PublishSteps(r),
             ~PublishSubmittedSkill(r), ~PublishSkillVersionSkill(r),
             ~PublishSkillVersionUnnumbered(r)
      PROVE  UNCHANGED skillStatus
  BY <1>5 DEF PublishSteps, PublishSubmissionCheck, PublishSkillVersionCheck, PublishSubmissionRow,
    PublishSubmittedVersion, PublishSkillVersionRow, skillVars
<1>6. CASE Restart \/ UNCHANGED vars
  BY <1>6 DEF Restart, vars, skillVars
<1> QED BY <1>1, <1>2, <1>3, <1>4, <1>5, <1>6 DEF Next

LEMMA SkillsStep ==
  ASSUME SkillsInv, [Next]_vars
  PROVE  SkillsInv'
<1>1. IInv /\ IInv' /\ TypeOK
  BY StepInvariant DEF SkillsInv, IInv
<1>2. errors' = 0 => errors = 0 /\ \A r \in Requests : ~StatementFails(r)
  <2> DEFINE Counted == errors' \in {errors, errors + 1}
  <2>1. ASSUME NEW r \in Requests, StatementFails(r) PROVE errors' = errors + 1
    BY <2>1 DEF StatementFails
  <2>2. ASSUME NEW r \in Requests, SkillSteps(r) \/ ReviewSteps(r) PROVE Counted
    BY <2>2 DEF SkillSteps, CreateSkill, CreateSkillVersion, CreateSkillInsertVersion, ReviewSteps,
      SaveWorkflow, SubmitStep, Submit, DecideStep, ApproveStep, RefuseStep, faultVars
  <2>3. ASSUME NEW r \in Requests, FileSteps(r) PROVE Counted
    BY <2>3 DEF FileSteps, UpsertSkillFileCheck, UpdateSkillFileCheck, DeleteSkillFileCheck,
      FoundEditable, UpsertSkillFileWrite, UpdateSkillFileWrite, DeleteSkillFileWrite, faultVars
  <2>4. ASSUME NEW r \in Requests, PublishSteps(r) PROVE Counted
    BY <2>4 DEF PublishSteps, PublishSubmissionCheck, PublishSkillVersionCheck, PublishSubmissionRow,
      PublishSubmittedVersion, PublishSubmittedSkill, PublishSkillVersionRow,
      PublishSkillVersionSkill, PublishSkillVersionUnnumbered, faultVars
  <2>5. ASSUME Restart \/ UNCHANGED vars PROVE Counted
    BY <2>5 DEF Restart, vars, faultVars
  <2>6. Counted
    BY <2>1, <2>2, <2>3, <2>4, <2>5 DEF Next
  <2>7. errors \in Nat
    BY <1>1, BoundsType DEF TypeOK
  <2> QED BY <2>1, <2>6, <2>7
<1>3. ASSUME errors' = 0, NEW k \in Skills, skillStatus'[k] = "published"
      PROVE  \E v \in Versions : SkillOf[v] = k /\ Usable(v)'
  <2>1. \E v \in Versions : SkillOf[v] = k /\ Usable(v)
    <3>1. ASSUME NEW r \in Requests, ToTheSkill(r)
          PROVE  req[r].version \in Versions
      BY <1>1, <3>1, RequestFields DEF Free, TypeOK, ToTheSkill
    <3> QED BY <1>1, <1>2, <1>3, <3>1, SkillWriters DEF SkillsInv, ToTheSkill
  <2> QED BY <1>1, <2>1, UsableKept
<1>4. ASSUME errors' = 0, NEW r \in Requests, NEW v \in Versions,
             ToTheSkill(r)', req'[r].version = v
      PROVE  Usable(v)'
  <2>1. req'[r].op \in {"publish_skill", "publish_skill_latest"}
    BY <1>4 DEF ToTheSkill
  <2>2. CASE req'[r] = req[r]
    <3>1. Usable(v)
      BY <1>2, <1>4, <2>1, <2>2 DEF SkillsInv, ToTheSkill
    <3> QED BY <1>1, <3>1, UsableKept
  <2>3. CASE req'[r] # req[r]
    <3>1. Moves(r)
      <4>1. ~Restart /\ ~UNCHANGED vars
        BY <2>1, <2>3 DEF Restart, vars, Idle
      <4> QED BY <1>1, <2>3, <4>1, NextMoves, OthersStay DEF TypeOK
    <3>2. (PublishSubmittedVersion(r) \/ PublishSkillVersionRow(r)) /\ v = req[r].version
      <4>1. ASSUME NEW s \in Submissions, PublishSubmissionCheck(r, s)
            PROVE  req'[r].op = "publish_submission"
        BY <1>1, <4>1 DEF PublishSubmissionCheck, Goto, TypeOK
      <4>2. ASSUME NEW w \in Versions, PublishSkillVersionCheck(r, w)
            PROVE  req'[r].op = "publish_version"
        BY <1>1, <4>2 DEF PublishSkillVersionCheck, Goto, TypeOK
      <4>3. ASSUME PublishSubmissionRow(r) PROVE req'[r].op = "publish_submitted_version"
        BY <1>1, <4>3, RequestFields DEF PublishSubmissionRow, Goto, TypeOK
      <4>4. req \in [Requests -> Request] /\ errors \in Nat
        BY <1>1, BoundsType DEF TypeOK
      <4> QED BY <1>2, <1>4, <2>1, <2>3, <3>1, <4>1, <4>2, <4>3, <4>4, NextOps
    <3>3. Reviewed(v)
      BY <1>1, <3>2 DEF IInv, PublicationsJustified, Justified, Publishing,
        PublishSubmittedVersion, PublishSkillVersionRow, At
    <3>4. vImmutable'[v]
      BY <1>1, <3>2 DEF PublishSubmittedVersion, PublishSkillVersionRow, SetPublished, TypeOK
    <3>5. Reviewed(v)'
      BY <1>1, <3>3, ReviewPartKept DEF IInv, ReviewPart, ReviewsKept
    <3> QED BY <3>4, <3>5 DEF Usable
  <2> QED BY <2>2, <2>3
<1> QED BY <1>1, <1>3, <1>4 DEF SkillsInv

LEMMA InitSkills == Init => SkillsInv
<1> SUFFICES ASSUME Init PROVE SkillsInv
  OBVIOUS
<1>1. IInv
  BY InitInvariant
<1>2. ASSUME NEW k \in Skills, skillStatus[k] = "published"
      PROVE  \E v \in Versions : SkillOf[v] = k /\ Usable(v)
  <2>1. PICK v \in Seeded : SkillOf[v] = k
    BY <1>2 DEF Init
  <2>2. v \in Versions /\ vImmutable[v] /\ vOrigin[v] = "boot"
    BY SeededType DEF Init
  <2> QED BY <2>1, <2>2 DEF Usable
<1>3. \A r \in Requests : req[r].op = "idle"
  BY DEF Init, Idle
<1> QED BY <1>1, <1>2, <1>3 DEF SkillsInv, ToTheSkill

\* A published skill has an immutable version that was reviewed or that the boot
\* inserted, however publications, submissions and boots interleave, as long as
\* the database refuses no statement.  (publishSubmission, publishSkillVersion)
THEOREM PublishedSkillsUsable == Spec => []PublishedSkillHasVersion
<1>1. SkillsInv => PublishedSkillHasVersion
  BY DEF SkillsInv, PublishedSkillHasVersion, Usable
<1>2. SkillsInv /\ [Next]_vars => SkillsInv'
  BY SkillsStep
<1> QED BY <1>1, <1>2, InitSkills, PTL DEF Spec

-----------------------------------------------------------------------------
(* Handlers that run one after the other.                                   *)

\* What a request read is still so while nothing interrupts it: the version
\* whose file it writes may be edited, if it did read that, and the version it
\* publishes is not under review again.
Ready(r) ==
  \A v \in Versions : ~Free(r) /\ req[r].version = v =>
    /\ req[r].op \in {"upsert_file", "update_file", "delete_file"} /\ r \notin blind
         => ~vImmutable[v]
    /\ req[r].op \in Publishing =>
         \A s \in Submissions : subVersion[s] = v => subStatus[s] # "in_review"

Alone == \A r, q \in Requests : ~Free(r) /\ ~Free(q) => r = q

SequenceInv ==
  /\ IInv
  /\ ~disturbed => Alone /\ UnderReviewSaysSo /\ \A r \in Requests : Ready(r)

\* A step that interrupts nobody is a step of one request while the others rest.
LEMMA OneMoves ==
  ASSUME TypeOK, MCNext, ~disturbed'
  PROVE  /\ ~disturbed
         /\ \E r \in Requests : Moves(r) /\ \A q \in Requests \ {r} : Free(q) /\ Free(q)'
<1>1. ~disturbed /\ ~Interrupted /\ Next
  BY DEF MCNext
<1>2. ~Restart
  <2>1. Restart => restarts' # restarts
    BY DEF Restart, TypeOK
  <2> QED BY <1>1, <2>1 DEF Interrupted
<1>3. PICK r \in Requests : Moves(r)
  BY <1>1, <1>2, NextMoves
<1>4. ASSUME NEW q \in Requests \ {r} PROVE Free(q) /\ Free(q)'
  <2>1. req'[q] = req[q]
    BY <1>3, OthersStay DEF TypeOK
  <2> QED BY <1>1, <2>1 DEF Interrupted, Free
<1> QED BY <1>1, <1>3, <1>4

\* The requests after such a step are ready again.
LEMMA ReadyKept ==
  ASSUME IInv, UnderReviewSaysSo, NEW r \in Requests, Ready(r), Moves(r), blind' = Blind
  PROVE  Ready(r)'
<1>1. TypeOK /\ OneOpenSubmission
  BY DEF IInv
<1> SUFFICES ASSUME NEW v \in Versions, ~Free(r)', req'[r].version = v
             PROVE  /\ /\ req'[r].op \in {"upsert_file", "update_file", "delete_file"}
                       /\ r \notin blind'
                       => ~vImmutable'[v]
                    /\ req'[r].op \in Publishing =>
                         \A s \in Submissions : subVersion'[s] = v => subStatus'[s] # "in_review"
  BY DEF Ready
<1>2. CASE req' = req /\ Free(r)
  BY <1>2 DEF Free
<1>3. CASE req'[r].op \in {"idle", "insert_version"}
  BY <1>3 DEF Free, Publishing
<1>4. CASE /\ req'[r].op \in {"upsert_file", "update_file", "delete_file"}
           /\ Editable(req'[r].version) \/ (Free(r) /\ errors' # errors)
           /\ req'[r].version \in Versions /\ UNCHANGED vImmutable
  BY <1>4 DEF Editable, Publishing, Blind
<1>5. ASSUME NEW s \in Submissions, PublishSubmissionCheck(r, s), req'[r].version = subVersion[s]
      PROVE  /\ req'[r].op \notin {"upsert_file", "update_file", "delete_file"}
             /\ \A t \in Submissions : subVersion'[t] = v => subStatus'[t] # "in_review"
  <2>1. req'[r].op = "publish_submission" /\ subVersion[s] = v /\ subStatus[s] = "approved"
    BY <1>1, <1>5 DEF PublishSubmissionCheck, Goto, TypeOK
  <2>2. UNCHANGED <<subVersion, subStatus>>
    BY <1>5 DEF PublishSubmissionCheck, reviewVars
  <2> QED BY <1>1, <2>1, <2>2 DEF OneOpenSubmission
<1>6. ASSUME PublishSubmissionRow(r), req'[r].version = req[r].version
      PROVE  /\ req'[r].op \notin {"upsert_file", "update_file", "delete_file"}
             /\ \A t \in Submissions : subVersion'[t] = v => subStatus'[t] # "in_review"
  <2>1. /\ req'[r].op = "publish_submitted_version" /\ req[r].op = "publish_submission"
        /\ req[r].version = v
    BY <1>1, <1>6, RequestFields DEF PublishSubmissionRow, Goto, TypeOK, At
  <2>2. \A t \in Submissions : subVersion[t] = v => subStatus[t] # "in_review"
    BY <2>1 DEF Ready, Free, Publishing
  <2>3. subVersion' = subVersion /\ subStatus' = [subStatus EXCEPT ![req[r].sub] = "published"]
    BY <1>6 DEF PublishSubmissionRow
  <2> QED BY <1>1, <2>1, <2>2, <2>3 DEF TypeOK
<1>7. ASSUME NEW w \in Versions, PublishSkillVersionCheck(r, w), req'[r].version = w
      PROVE  /\ req'[r].op \notin {"upsert_file", "update_file", "delete_file"}
             /\ \A t \in Submissions : subVersion'[t] = v => subStatus'[t] # "in_review"
  <2>1. req'[r].op = "publish_version" /\ vStatus[v] = "approved"
    BY <1>1, <1>7 DEF PublishSkillVersionCheck, Publishable, Goto, TypeOK
  <2>2. UNCHANGED <<subVersion, subStatus>>
    BY <1>7 DEF PublishSkillVersionCheck, reviewVars
  <2> QED BY <2>1, <2>2 DEF UnderReviewSaysSo
<1>8. CASE req'[r].op \in {"publish_skill", "publish_skill_latest"}
  BY <1>8 DEF Publishing
<1>9. req \in [Requests -> Request] /\ errors \in Nat
  BY <1>1, BoundsType DEF TypeOK
<1> QED
  BY <1>1, <1>2, <1>3, <1>4, <1>5, <1>6, <1>7, <1>8, <1>9, NextOps

\* Versions under review still say so after such a step.
LEMMA UnderReviewKept ==
  ASSUME IInv, UnderReviewSaysSo, NEW r \in Requests, Ready(r), Moves(r)
  PROVE  UnderReviewSaysSo'
<1>1. TypeOK /\ OneOpenSubmission /\ ReviewPart
  BY DEF IInv, ReviewPart
<1>2. \A s \in Submissions : subStatus[s] = "in_review" => subVersion[s] \in Versions
  BY <1>1 DEF ReviewPart, RowsAgree, TypeOK
<1>3. ASSUME UNCHANGED <<subStatus, subVersion, vStatus>> PROVE UnderReviewSaysSo'
  BY <1>3 DEF UnderReviewSaysSo
<1>4. CASE SkillSteps(r)
  <2>1. UNCHANGED <<subStatus, subVersion>>
    BY <1>4 DEF SkillSteps, CreateSkill, CreateSkillVersion, CreateSkillInsertVersion, reviewVars
  <2>2. \A v \in Versions : vStatus[v] = "in_review" => vStatus'[v] = "in_review"
    BY <1>1, <1>4 DEF SkillSteps, CreateSkill, CreateSkillVersion, CreateSkillInsertVersion,
      versionVars, TypeOK
  <2> QED BY <1>2, <2>1, <2>2 DEF UnderReviewSaysSo
<1>5. CASE FileSteps(r) \/ StatementFails(r)
  BY <1>3, <1>5 DEF FileSteps, UpsertSkillFileCheck, UpdateSkillFileCheck, DeleteSkillFileCheck,
    UpsertSkillFileWrite, UpdateSkillFileWrite, DeleteSkillFileWrite, StatementFails, reviewVars,
    versionVars
<1>6. ASSUME NEW w \in Workflows, NEW list \in StepLists, NEW status \in {"active", "disabled"},
             SaveWorkflow(r, w, list, status)
      PROVE  UnderReviewSaysSo'
  BY <1>3, <1>6 DEF SaveWorkflow, reviewVars, versionVars
<1>7. ASSUME NEW v \in Versions, NEW s \in Submissions, Submit(r, v, s) PROVE UnderReviewSaysSo'
  <2>1. PICK list \in {AdvanceAuto(Snapshot(wfSteps[w])) : w \in Workflows} :
          SaveReview(s, v, list, "in_review", "in_review")
    BY <1>7 DEF Submit
  <2>2. ~HasOpenSubmission(v) /\ subVersion' = [subVersion EXCEPT ![s] = v]
    BY <1>7 DEF Submit, Submittable
  <2>3. /\ subStatus' = [subStatus EXCEPT ![s] = IF Complete(list) THEN "approved" ELSE "in_review"]
        /\ vStatus' = [vStatus EXCEPT ![v] = IF Complete(list) THEN "approved" ELSE "in_review"]
    BY <2>1 DEF SaveReview
  <2>4. ASSUME NEW t \in Submissions, t # s, subStatus'[t] = "in_review"
        PROVE  vStatus'[subVersion'[t]] = "in_review"
    <3>1. subStatus[t] = "in_review" /\ subVersion'[t] = subVersion[t] /\ subVersion[t] # v
      BY <1>1, <2>2, <2>3, <2>4 DEF TypeOK, HasOpenSubmission, OpenStatuses
    <3>2. vStatus[subVersion[t]] = "in_review" /\ subVersion[t] \in Versions
      BY <1>2, <3>1 DEF UnderReviewSaysSo
    <3> QED BY <1>1, <2>3, <3>1, <3>2 DEF TypeOK
  <2>5. subStatus'[s] = "in_review" => vStatus'[subVersion'[s]] = "in_review"
    BY <1>1, <2>2, <2>3 DEF TypeOK
  <2> QED BY <2>4, <2>5 DEF UnderReviewSaysSo
<1>8. ASSUME NEW s \in Submissions, NEW i \in DOMAIN steps[s], ApproveStep(r, s, i)
      PROVE  UnderReviewSaysSo'
  <2> DEFINE list == AdvanceAuto([steps[s] EXCEPT ![i].status = "approved"])
  <2>1. PICK v \in Versions : v = subVersion[s] /\ subStatus[s] = "in_review"
    BY <1>1, <1>8, ActionableStep DEF ApproveStep
  <2>2. /\ subVersion' = subVersion
        /\ subStatus' = [subStatus EXCEPT ![s] = IF Complete(list) THEN "approved" ELSE "in_review"]
        /\ vStatus' = [vStatus EXCEPT ![v] = IF Complete(list) THEN "approved" ELSE vStatus[v]]
    BY <1>8, <2>1 DEF ApproveStep, SaveReview
  <2> HIDE DEF list
  <2>3. vStatus[v] = "in_review"
    BY <2>1 DEF UnderReviewSaysSo
  <2>4. ASSUME NEW t \in Submissions, t # s, subStatus'[t] = "in_review"
        PROVE  vStatus'[subVersion[t]] = "in_review"
    <3>1. subStatus[t] = "in_review"
      BY <1>1, <2>2, <2>4 DEF TypeOK
    <3>2. vStatus[subVersion[t]] = "in_review" /\ subVersion[t] \in Versions /\ subVersion[t] # v
      BY <1>1, <1>2, <2>1, <2>4, <3>1 DEF UnderReviewSaysSo, OneOpenSubmission
    <3> QED BY <1>1, <2>2, <3>2 DEF TypeOK
  <2>5. subStatus'[s] = "in_review" => vStatus'[subVersion[s]] = "in_review"
    BY <1>1, <2>1, <2>2, <2>3 DEF TypeOK
  <2> QED BY <2>2, <2>4, <2>5 DEF UnderReviewSaysSo
<1>9. ASSUME NEW s \in Submissions, NEW i \in DOMAIN steps[s], NEW decision \in Decisions,
             RefuseStep(r, s, i, decision)
      PROVE  UnderReviewSaysSo'
  <2>1. /\ UNCHANGED <<subVersion, vStatus>>
        /\ subStatus' = [subStatus EXCEPT ![s] = decision]
        /\ decision # "in_review"
    BY <1>9 DEF RefuseStep, versionVars, Decisions
  <2> QED BY <1>1, <2>1 DEF UnderReviewSaysSo, TypeOK
<1>10. CASE PublishSubmissionRow(r)
  <2>1. /\ UNCHANGED <<subVersion, vStatus>>
        /\ subStatus' = [subStatus EXCEPT ![req[r].sub] = "published"]
    BY <1>10 DEF PublishSubmissionRow, versionVars
  <2> QED BY <1>1, <2>1 DEF UnderReviewSaysSo, TypeOK
<1>11. CASE PublishSubmittedVersion(r) \/ PublishSkillVersionRow(r)
  <2>1. ~Free(r) /\ req[r].op \in Publishing
    BY <1>11 DEF PublishSubmittedVersion, PublishSkillVersionRow, At, Free, Publishing
  <2>2. PICK v \in Versions : v = req[r].version
    BY <1>1, <2>1, RequestFields DEF TypeOK
  <2>3. UNCHANGED <<subStatus, subVersion>> /\ vStatus' = [vStatus EXCEPT ![v] = "published"]
    BY <1>11, <2>2 DEF PublishSubmittedVersion, PublishSkillVersionRow, SetPublished, reviewVars
  <2>4. \A s \in Submissions : subStatus[s] = "in_review" => subVersion[s] # v
    BY <2>1, <2>2 DEF Ready
  <2> QED BY <1>1, <1>2, <2>3, <2>4 DEF UnderReviewSaysSo, TypeOK
<1>12. CASE PublishSteps(r)
  <2>1. ASSUME ~PublishSubmissionRow(r), ~PublishSubmittedVersion(r), ~PublishSkillVersionRow(r)
        PROVE  UNCHANGED <<subStatus, subVersion, vStatus>>
    BY <1>12, <2>1 DEF PublishSteps, PublishSubmissionCheck, PublishSkillVersionCheck,
      PublishSubmittedSkill, PublishSkillVersionSkill,
      PublishSkillVersionUnnumbered, reviewVars, versionVars
  <2> QED BY <1>3, <1>10, <1>11, <2>1
<1> QED
  BY <1>4, <1>5, <1>6, <1>7, <1>8, <1>9, <1>12 DEF Moves, ReviewSteps, SubmitStep, DecideStep

LEMMA SequenceStep ==
  ASSUME SequenceInv, [MCNext]_<<vars, disturbed, blind>>
  PROVE  SequenceInv'
<1>1. CASE UNCHANGED <<vars, disturbed, blind>>
  <2>1. IInv' /\ (disturbed' <=> disturbed) /\ req' = req /\ vStatus' = vStatus
        /\ vImmutable' = vImmutable /\ subVersion' = subVersion /\ subStatus' = subStatus
        /\ blind' = blind
    BY <1>1, StepInvariant DEF SequenceInv, vars, versionVars, reviewVars
  <2> QED BY <2>1 DEF SequenceInv, Alone, Ready, Free, UnderReviewSaysSo
<1>2. CASE MCNext
  <2>1. IInv' /\ IInv /\ TypeOK
    BY <1>2, StepInvariant DEF SequenceInv, MCNext, IInv
  <2>2. ASSUME ~disturbed' PROVE Alone' /\ UnderReviewSaysSo' /\ \A r \in Requests : Ready(r)'
    <3>1. UnderReviewSaysSo /\ \A r \in Requests : Ready(r)
      BY <1>2, <2>1, <2>2, OneMoves DEF SequenceInv
    <3>2. PICK r \in Requests : Moves(r) /\ \A q \in Requests \ {r} : Free(q) /\ Free(q)'
      BY <1>2, <2>1, <2>2, OneMoves
    <3>3. Ready(r)' /\ UnderReviewSaysSo'
      BY <1>2, <2>1, <3>1, <3>2, ReadyKept, UnderReviewKept DEF MCNext
    <3>4. ASSUME NEW q \in Requests \ {r} PROVE Ready(q)'
      BY <3>2 DEF Ready
    <3> QED BY <3>2, <3>3, <3>4 DEF Alone
  <2> QED BY <2>1, <2>2 DEF SequenceInv
<1> QED BY <1>1, <1>2

LEMMA InitSequence == MCInit => SequenceInv
<1> SUFFICES ASSUME MCInit PROVE SequenceInv
  OBVIOUS
<1>1. IInv
  BY InitInvariant DEF MCInit
<1>2. \A r \in Requests : Free(r)
  BY DEF MCInit, Init, Idle, Free
<1>3. UnderReviewSaysSo
  BY DEF MCInit, Init, UnderReviewSaysSo
<1> QED BY <1>1, <1>2, <1>3 DEF SequenceInv, Alone, Ready

\* Handlers that run one after the other never leave a version under review
\* whose row says something else.  (submitSkillVersionByID, publishSubmission,
\* publishSkillVersion)
THEOREM UnderReviewSays == MCSpec => []UnderReviewSaysSoInSequence
<1>1. SequenceInv => UnderReviewSaysSoInSequence
  BY DEF SequenceInv, UnderReviewSaysSoInSequence
<1>2. SequenceInv /\ [MCNext]_<<vars, disturbed, blind>> => SequenceInv'
  BY SequenceStep
<1> QED BY <1>1, <1>2, InitSequence, PTL DEF MCSpec

\* Such a step writes no file of an immutable version.
LEMMA ContentKept ==
  ASSUME SequenceInv, [MCNext]_<<vars, disturbed, blind>>
  PROVE  [~disturbed' /\ blind = {} => KeepsPublishedContent]_<<vars, disturbed, blind>>
<1> SUFFICES ASSUME MCNext, ~disturbed', blind = {}, NEW v \in Versions, vImmutable[v]
             PROVE  fileBody'[v] = fileBody[v]
  BY DEF KeepsPublishedContent
<1>1. TypeOK
  BY DEF SequenceInv, IInv
<1>2. PICK r \in Requests : Moves(r)
  BY <1>1, OneMoves
<1>3. Ready(r)
  BY <1>1, OneMoves DEF SequenceInv
<1>4. ASSUME UpsertSkillFileWrite(r) \/ UpdateSkillFileWrite(r) \/ DeleteSkillFileWrite(r)
      PROVE  fileBody'[v] = fileBody[v]
  <2>1. ~Free(r) /\ req[r].op \in {"upsert_file", "update_file", "delete_file"}
    BY <1>4 DEF UpsertSkillFileWrite, UpdateSkillFileWrite, DeleteSkillFileWrite, At, Free
  <2>2. v # req[r].version
    BY <1>3, <2>1 DEF Ready
  <2> QED
    BY <1>1, <1>4, <2>2 DEF UpsertSkillFileWrite, UpdateSkillFileWrite, DeleteSkillFileWrite,
      WriteFile, TypeOK
<1>5. CASE FileSteps(r)
  BY <1>4, <1>5 DEF FileSteps, UpsertSkillFileCheck, UpdateSkillFileCheck, DeleteSkillFileCheck,
    fileVars
<1>6. CASE SkillSteps(r) \/ StatementFails(r)
  BY <1>6 DEF SkillSteps, CreateSkill, CreateSkillVersion, CreateSkillInsertVersion,
    StatementFails, fileVars
<1>7. CASE ReviewSteps(r)
  BY <1>7 DEF ReviewSteps, SaveWorkflow, SubmitStep, Submit, DecideStep, ApproveStep, RefuseStep,
    fileVars
<1>8. CASE PublishSteps(r)
  BY <1>8 DEF PublishSteps, PublishSubmissionCheck, PublishSkillVersionCheck, PublishSubmissionRow,
    PublishSubmittedVersion, PublishSubmittedSkill, PublishSkillVersionRow, PublishSkillVersionSkill,
    PublishSkillVersionUnnumbered,
    fileVars
<1> QED BY <1>2, <1>5, <1>6, <1>7, <1>8 DEF Moves

\* Handlers that run one after the other never change the files of a published
\* version, whatever statements are refused: each file write finds the version
\* as editable as its check did, unless that check was refused and read nothing.
\* (upsertSkillFile, updateSkillFile, deleteSkillFile)
THEOREM PublishedContentStays == MCSpec => PublishedContentFrozenInSequence
<1>1. SequenceInv /\ [MCNext]_<<vars, disturbed, blind>>
        => [~disturbed' /\ blind = {} => KeepsPublishedContent]_<<vars, disturbed, blind>>
  BY ContentKept
<1>2. SequenceInv /\ [MCNext]_<<vars, disturbed, blind>> => SequenceInv'
  BY SequenceStep
<1> QED BY <1>1, <1>2, InitSequence, PTL DEF MCSpec, PublishedContentFrozenInSequence
=============================================================================
