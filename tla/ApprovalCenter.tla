---------------------------- MODULE ApprovalCenter ----------------------------
(***************************************************************************)
(* Approval requests with their steps, the executions and skill            *)
(* installations they decide on, and the kill switch of a runtime.         *)
(*                                                                         *)
(* A decision is one transaction.  What it decides on is not: createApproval *)
(* and createExecution issue autocommit statements, one action each, and   *)
(* keep what comes next in req; so does the kill switch.                   *)
(*                                                                         *)
(* A workspace installation that needs approval always rolls back          *)
(* (createWorkspaceSkillInstallApprovalV033 names a column the table does  *)
(* not have), so such requests come from createApprovalRequest only.       *)
(*                                                                         *)
(* An operator named <Definition>_<Slip> is not part of the model: it is   *)
(* the definition after it with a plausible mistake.                       *)
(***************************************************************************)
EXTENDS Naturals

CONSTANTS
  Approvals,    \* ids of approval_requests rows
  NoApproval,
  Executions,   \* ids of executions rows
  Users,
  NoUser,       \* nobody has asked or reviewed yet
  Runtimes,
  NoRuntime,    \* an execution of a user without a runtime
  Places,       \* a skill on a profile: keys of profile_skill_installs
  NoPlace,      \* metadata that names no profile or skill
  Owner,        \* the user of the profile of a place
  Requests,     \* HTTP requests the server handles at the same time
  MaxRestarts,  \* bound: restarts of the server
  MaxErrors     \* bound: statements the database refuses

ASSUME NoApprovalNew == NoApproval \notin Approvals
ASSUME NoPlaceNew == NoPlace \notin Places
ASSUME OwnerType == Owner \in [Places -> Users]
ASSUME BoundsType == MaxRestarts \in Nat /\ MaxErrors \in Nat

VARIABLES
  approval,   \* approval_requests: status "none" without a row
  step,       \* approval_steps: the one step of each request
  execution,  \* executions
  killed,     \* runtimes with kill_switch_enabled
  install,    \* profile_skill_installs
  req,        \* what each request still has to do
  restarts, errors

faultVars == <<restarts, errors>>
vars == <<approval, step, execution, killed, install, req, faultVars>>

\* Every other type of request is decided without an effect on this state.
Types == {"execution", "skill_install", "role_elevation", "other"}
Decisions == {"approved", "rejected"}
ReviewStatuses == Decisions \cup {"none", "pending"}
\* Nothing sets the statuses queued and running.
ExecutionStatuses == {"none", "waiting_approval", "completed", "rejected", "cancelled"}

ApprovalRow == [status : ReviewStatuses, type : Types, requester : Users \cup {NoUser},
                place : Places \cup {NoPlace}]
StepRow == [status : ReviewStatuses, reviewer : Users \cup {NoUser}]
ExecutionRow == [status : ExecutionStatuses, runtime : Runtimes \cup {NoRuntime},
                 approval : Approvals \cup {NoApproval}]
InstallRow == [status : {"none", "installed", "rejected"},
               approval : Approvals \cup {NoApproval}]

NoExecution == [status |-> "none", runtime |-> NoRuntime, approval |-> NoApproval]

Steps == {"idle", "insert_step", "insert_execution", "cancel_executions"}
Request == [next : Steps, approval : Approvals \cup {NoApproval},
            runtime : Runtimes \cup {NoRuntime}, executes : BOOLEAN]
Idle == [next |-> "idle", approval |-> NoApproval, runtime |-> NoRuntime,
         executes |-> FALSE]

TypeOK ==
  /\ approval \in [Approvals -> ApprovalRow]
  /\ step \in [Approvals -> StepRow]
  /\ execution \in [Executions -> ExecutionRow]
  /\ killed \subseteq Runtimes
  /\ install \in [Places -> InstallRow]
  /\ req \in [Requests -> Request]
  /\ restarts \in 0..MaxRestarts
  /\ errors \in 0..MaxErrors

\* Before the first boot has seeded anything.
Init ==
  /\ approval = [a \in Approvals |->
       [status |-> "none", type |-> "other", requester |-> NoUser, place |-> NoPlace]]
  /\ step = [a \in Approvals |-> [status |-> "none", reviewer |-> NoUser]]
  /\ execution = [e \in Executions |-> NoExecution]
  /\ killed = {}
  /\ install = [p \in Places |-> [status |-> "none", approval |-> NoApproval]]
  /\ req = [r \in Requests |-> Idle]
  /\ restarts = 0
  /\ errors = 0

Free(r) == req[r].next = "idle"
At(r, what) == req[r].next = what
Goto(r, what) == req' = [req EXCEPT ![r].next = what]
Finish(r) == req' = [req EXCEPT ![r] = Idle]

InsertRequest(a, type, u, p) ==
  /\ approval[a].status = "none"
  /\ approval' = [approval EXCEPT ![a] =
       [status |-> "pending", type |-> type, requester |-> u, place |-> p]]

-----------------------------------------------------------------------------
(* Requests for approval.                                                  *)

\* Of the metadata only what an installation names is read later.
\* First statement of createApproval, for a client or for a handler that asks
\* instead of acting.
Metadata(type) == IF type = "skill_install" THEN Places \cup {NoPlace} ELSE {NoPlace}
CreateRequest(r, a, type, u, p) ==
  /\ Free(r)
  /\ InsertRequest(a, type, u, p)
  /\ req' = [req EXCEPT ![r] = [Idle EXCEPT !.next = "insert_step", !.approval = a]]
  /\ UNCHANGED <<step, execution, killed, install, faultVars>>

\* An execution of high or critical risk asks first.
RequestExecution(r, a, u, t) ==
  /\ Free(r)
  /\ InsertRequest(a, "execution", u, NoPlace)
  /\ req' = [req EXCEPT ![r] =
       [next |-> "insert_step", approval |-> a, runtime |-> t, executes |-> TRUE]]
  /\ UNCHANGED <<step, execution, killed, install, faultVars>>

AfterStep(r) == IF req[r].executes THEN Goto(r, "insert_execution") ELSE Finish(r)

\* No handler reads the reviewer a pending step is assigned to, so it is left out.
InsertStep(r) ==
  /\ At(r, "insert_step")
  /\ step' = [step EXCEPT ![req[r].approval].status = "pending"]
  /\ AfterStep(r)
  /\ UNCHANGED <<approval, execution, killed, install, faultVars>>

InsertExecution(r, e) ==
  /\ At(r, "insert_execution")
  /\ execution[e].status = "none"
  /\ execution' = [execution EXCEPT ![e] =
       [status |-> "waiting_approval", runtime |-> req[r].runtime,
        approval |-> req[r].approval]]
  /\ Finish(r)
  /\ UNCHANGED <<approval, step, killed, install, faultVars>>

\* An execution of low or medium risk is inserted as done.
RunExecution(e, t) ==
  /\ execution[e].status = "none"
  /\ execution' = [execution EXCEPT ![e] =
       [status |-> "completed", runtime |-> t, approval |-> NoApproval]]
  /\ UNCHANGED <<approval, step, killed, install, req, faultVars>>

-----------------------------------------------------------------------------
(* Decisions, installations, kill switch.                                  *)

MayDecide_OwnRequest(u, a) == approval[a].status = "pending"
MayDecide_Resolved(u, a) == approval[a].status # "none" /\ approval[a].requester # u
MayDecide(u, a) == approval[a].status = "pending" /\ approval[a].requester # u

\* What a decision makes of an execution.
Outcome(d) == IF d = "approved" THEN "completed" ELSE "rejected"

ApplyToExecutions_DecisionAsStatus(a, d) ==
  execution' = [e \in Executions |->
    IF approval[a].type = "execution" /\ execution[e].approval = a
      THEN [execution[e] EXCEPT !.status = d] ELSE execution[e]]
ApplyToExecutions_AllWaiting(a, d) ==
  execution' = [e \in Executions |->
    IF approval[a].type = "execution" /\ execution[e].status = "waiting_approval"
      THEN [execution[e] EXCEPT !.status = Outcome(d)] ELSE execution[e]]
ApplyToExecutions_ApprovedOnly(a, d) ==
  execution' = [e \in Executions |->
    IF d = "approved" /\ execution[e].approval = a
      THEN [execution[e] EXCEPT !.status = Outcome(d)] ELSE execution[e]]
\* The UPDATE names no status.
ApplyToExecutions(a, d) ==
  execution' = [e \in Executions |->
    IF approval[a].type = "execution" /\ execution[e].approval = a
      THEN [execution[e] EXCEPT !.status = Outcome(d)] ELSE execution[e]]

InstallApproved_AnyOwner(a) ==
  install' = [install EXCEPT ![approval[a].place] =
    [status |-> "installed", approval |-> a]]
InstallApproved(a) ==
  /\ Owner[approval[a].place] = approval[a].requester
  /\ install' = [install EXCEPT ![approval[a].place] =
       [status |-> "installed", approval |-> a]]

InstallRejected(a) ==
  install' = [p \in Places |-> [install[p] EXCEPT !.status =
    IF install[p].approval = a THEN "rejected" ELSE @]]

\* The decision rolls back when the metadata names no place, and an approval
\* when the profile is not the requester's.
ApplyToInstalls(a, d) ==
  \/ approval[a].type # "skill_install" /\ UNCHANGED install
  \/ /\ approval[a].type = "skill_install"
     /\ approval[a].place \in Places
     /\ IF d = "approved" THEN InstallApproved(a) ELSE InstallRejected(a)

\* The INSERT into role_bindings that a granted role elevation ends in has more
\* values than columns: the approval rolls back, whoever gives it.
CanElevate(a, d) == approval[a].type = "role_elevation" => d # "approved"

Decide_KeepsStep(u, a, d) ==
  /\ MayDecide(u, a)
  /\ CanElevate(a, d)
  /\ approval' = [approval EXCEPT ![a].status = d]
  /\ ApplyToExecutions(a, d)
  /\ ApplyToInstalls(a, d)
  /\ UNCHANGED <<step, killed, req, faultVars>>

\* u decides request a: one transaction, with the row of the request locked.
Decide(u, a, d) ==
  /\ MayDecide(u, a)
  /\ CanElevate(a, d)
  /\ approval' = [approval EXCEPT ![a].status = d]
  /\ step' = [step EXCEPT ![a] =
       IF @.status = "pending" THEN [status |-> d, reviewer |-> u] ELSE @]
  /\ ApplyToExecutions(a, d)
  /\ ApplyToInstalls(a, d)
  /\ UNCHANGED <<killed, req, faultVars>>

\* The owner of a profile installs a skill that needs no approval.
InstallSkill(p) ==
  /\ install' = [install EXCEPT ![p] = [status |-> "installed", approval |-> NoApproval]]
  /\ UNCHANGED <<approval, step, execution, killed, req, faultVars>>

KillRuntime(r, t) ==
  /\ Free(r)
  /\ killed' = killed \cup {t}
  /\ req' = [req EXCEPT ![r] = [Idle EXCEPT !.next = "cancel_executions", !.runtime = t]]
  /\ UNCHANGED <<approval, step, execution, install, faultVars>>

CancelExecutions(r) ==
  /\ At(r, "cancel_executions")
  /\ execution' = [e \in Executions |->
       IF execution[e].runtime = req[r].runtime /\ execution[e].status = "waiting_approval"
         THEN [execution[e] EXCEPT !.status = "cancelled"] ELSE execution[e]]
  /\ Finish(r)
  /\ UNCHANGED <<approval, step, killed, install, faultVars>>

-----------------------------------------------------------------------------
(* Faults.                                                                 *)

\* The database refuses a statement.  createApproval and the kill switch
\* discard the error, createExecution answers with it.
StatementFails(r) ==
  /\ errors < MaxErrors
  /\ ~Free(r)
  /\ IF At(r, "insert_step") THEN AfterStep(r) ELSE Finish(r)
  /\ errors' = errors + 1
  /\ UNCHANGED <<approval, step, execution, killed, install, restarts>>

\* What a boot inserts when it finds no executions: one that is done and one
\* that waits for the approval of a request of its own.  The role elevation
\* the first boot seeds is a request like any client's.
SeedExecutions(a, done, waiting, u, t) ==
  /\ InsertRequest(a, "execution", u, NoPlace)
  /\ step' = [step EXCEPT ![a].status = "pending"]
  /\ execution' = [execution EXCEPT
       ![done] = [status |-> "completed", runtime |-> t, approval |-> NoApproval],
       ![waiting] = [status |-> "waiting_approval", runtime |-> t, approval |-> a]]

\* The server stops anywhere and boots again.
Restart ==
  /\ restarts < MaxRestarts
  /\ restarts' = restarts + 1
  /\ req' = [r \in Requests |-> Idle]
  /\ IF \E e \in Executions : execution[e].status # "none"
       THEN UNCHANGED <<approval, step, execution>>
       ELSE \E a \in Approvals, done, waiting \in Executions, u \in Users,
               t \in Runtimes \cup {NoRuntime} :
              done # waiting /\ SeedExecutions(a, done, waiting, u, t)
  /\ UNCHANGED <<killed, install, errors>>

-----------------------------------------------------------------------------
Handle(r) ==
  \/ \E a \in Approvals, u \in Users :
       \/ \E type \in Types : \E p \in Metadata(type) : CreateRequest(r, a, type, u, p)
       \/ \E t \in Runtimes \cup {NoRuntime} : RequestExecution(r, a, u, t)
  \/ InsertStep(r)
  \/ \E e \in Executions : InsertExecution(r, e)
  \/ \E t \in Runtimes : KillRuntime(r, t)
  \/ CancelExecutions(r)
  \/ StatementFails(r)

Next ==
  \/ \E r \in Requests : Handle(r)
  \/ \E e \in Executions, t \in Runtimes \cup {NoRuntime} : RunExecution(e, t)
  \/ \E u \in Users, a \in Approvals, d \in Decisions : Decide(u, a, d)
  \/ \E p \in Places : InstallSkill(p)
  \/ Restart

Spec == Init /\ [][Next]_vars
-----------------------------------------------------------------------------
(* Properties.                                                             *)

\* Work of high risk is done only after its request was approved, and is
\* rejected only by its rejection: the decision and the execution are separate
\* rows, inserted by separate statements, that only decideApprovalV033Hotfix
\* brings together.
NothingRunsUnapproved == \A e \in Executions :
  LET a == execution[e].approval IN
  a # NoApproval =>
    /\ execution[e].status = "completed" => approval[a].status = "approved"
    /\ execution[e].status = "rejected" => approval[a].status = "rejected"

\* Nobody reviews a request of his own (docs/rbac.md: protected changes are
\* independently reviewable): the step a decision resolved agrees with the request
\* and names another reviewer than its requester.
IndependentReview == \A a \in Approvals :
  step[a].status \in Decisions =>
    /\ step[a].status = approval[a].status
    /\ step[a].reviewer \in Users \ {approval[a].requester}

\* A skill that an approval installed on a profile was asked for by the owner of
\* that profile, for that profile, and approved: decideApprovalV033Hotfix takes
\* the profile from metadata a client wrote.
InstallsWereApproved == \A p \in Places :
  LET a == install[p].approval IN
  a # NoApproval =>
    /\ approval[a].status = "approved"
    /\ approval[a].type = "skill_install"
    /\ approval[a].place = p
    /\ approval[a].requester = Owner[p]

\* A decision is taken once and stands, with the step it resolved and the work
\* it let through or refused, against second reviewers and the kill switch.
DecisionsStand ==
  [][/\ \A a \in Approvals : approval[a].status \in Decisions =>
          /\ approval'[a] = approval[a]
          /\ step[a].status \in Decisions => step'[a] = step[a]
     /\ \A e \in Executions : execution[e].status \in {"completed", "rejected"} =>
          execution'[e] = execution[e]]_vars

\* No request is still inserting what belongs to approval a.
AtRest(a) == \A r \in Requests : req[r].approval # a

\* The step of a request shows the decision on the request.
StepShowsDecision == \A a \in Approvals :
  AtRest(a) => step[a].status = approval[a].status

\* Nothing waits for a decision that was taken ("approval decisions update the
\* execution state", docs/audit-and-risk.md).
DecisionReachesExecution == \A e \in Executions :
  execution[e].status = "waiting_approval" =>
    approval[execution[e].approval].status = "pending"

\* The kill switch "disables new work, cancels demo executions"
\* (docs/runtime-lifecycle.md): nothing completes on a runtime after it.
KilledRuntimeDoesNoWork ==
  [][\A e \in Executions :
       execution'[e].status = "completed" /\ execution[e].status # "completed" =>
         execution'[e].runtime \notin killed]_vars
=============================================================================
