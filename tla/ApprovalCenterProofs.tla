------------------------- MODULE ApprovalCenterProofs -------------------------
(***************************************************************************)
(* Proofs about approvals: decisions are taken once, by somebody else, and *)
(* work and installations follow them.                                     *)
(***************************************************************************)
EXTENDS MCApprovalCenter, TLAPS

\* Steps belong to requests.
StepsHaveRequests == \A a \in Approvals :
  step[a].status # "none" => approval[a].status # "none"

Inserts(r, a) == req[r].next = "insert_step" /\ req[r].approval = a

\* A step is inserted once, for a request that exists.
StepsInsertedOnce == \A r \in Requests, a \in Approvals :
  Inserts(r, a) =>
    /\ approval[a].status # "none"
    /\ step[a].status = "none"
    /\ \A q \in Requests : Inserts(q, a) => q = r

IInv ==
  /\ TypeOK
  /\ StepsHaveRequests
  /\ StepsInsertedOnce
  /\ NothingRunsUnapproved
  /\ IndependentReview
  /\ InstallsWereApproved

\* The step formula of DecisionsStand, in two parts.
ReviewsStand == \A a \in Approvals : approval[a].status \in Decisions =>
  /\ approval'[a] = approval[a]
  /\ step[a].status \in Decisions => step'[a] = step[a]
WorkStands == \A e \in Executions : execution[e].status \in {"completed", "rejected"} =>
  execution'[e] = execution[e]
Good == IInv' /\ ReviewsStand /\ WorkStands

LEMMA InitIInv == Init => IInv
<1> SUFFICES ASSUME Init PROVE IInv
  OBVIOUS
<1>1. TypeOK
  BY BoundsType DEF Init, TypeOK, ApprovalRow, StepRow, ExecutionRow, InstallRow, Request,
     Idle, NoExecution, Steps, Types, ReviewStatuses, ExecutionStatuses, Decisions
<1>2. StepsHaveRequests /\ StepsInsertedOnce /\ IndependentReview
  BY DEF Init, StepsHaveRequests, StepsInsertedOnce, IndependentReview, Inserts, Idle, Decisions
<1>3. NothingRunsUnapproved /\ InstallsWereApproved
  BY DEF Init, NothingRunsUnapproved, InstallsWereApproved, NoExecution
<1> QED
  BY <1>1, <1>2, <1>3 DEF IInv

-----------------------------------------------------------------------------
(* Frames.                                                                 *)

LEMMA IdleType == Idle \in Request
BY DEF Idle, Request, Steps

LEMMA GotoType ==
  ASSUME NEW q \in Request, NEW what \in Steps
  PROVE  [q EXCEPT !.next = what] \in Request
BY DEF Request

\* A request that stops inserting a step, or goes on doing so, disturbs nothing.
LEMMA NobodyBeginsToInsert ==
  ASSUME StepsInsertedOnce, UNCHANGED <<approval, step>>,
         \A r \in Requests, a \in Approvals : Inserts(r, a)' => Inserts(r, a)
  PROVE  StepsInsertedOnce'
BY DEF StepsInsertedOnce

\* What depends on the rows of requests and steps only.
LEMMA ReviewsKept ==
  ASSUME IInv, UNCHANGED <<approval, step>>
  PROVE  StepsHaveRequests' /\ IndependentReview' /\ ReviewsStand
BY DEF IInv, StepsHaveRequests, IndependentReview, ReviewsStand

LEMMA WorkKept ==
  ASSUME IInv, UNCHANGED execution,
         \A a \in Approvals : approval[a].status \in Decisions => approval'[a] = approval[a]
  PROVE  NothingRunsUnapproved' /\ WorkStands
<1>1. WorkStands
  BY DEF WorkStands
<1>2. ASSUME NEW e \in Executions, execution[e].approval # NoApproval
      PROVE  /\ execution[e].status = "completed" =>
                  approval'[execution[e].approval].status = "approved"
             /\ execution[e].status = "rejected" =>
                  approval'[execution[e].approval].status = "rejected"
  <2>1. execution[e].approval \in Approvals
    BY <1>2 DEF IInv, TypeOK, ExecutionRow
  <2> QED
    BY <1>2, <2>1 DEF IInv, NothingRunsUnapproved, Decisions
<1> QED
  BY <1>1, <1>2 DEF NothingRunsUnapproved

LEMMA InstallsKept ==
  ASSUME IInv, UNCHANGED install,
         \A a \in Approvals : approval[a].status \in Decisions => approval'[a] = approval[a]
  PROVE  InstallsWereApproved'
<1> SUFFICES ASSUME NEW p \in Places, install[p].approval # NoApproval
             PROVE  approval'[install[p].approval] = approval[install[p].approval]
  BY DEF IInv, InstallsWereApproved
<1>1. install[p].approval \in Approvals
  BY DEF IInv, TypeOK, InstallRow
<1> QED
  BY <1>1 DEF IInv, InstallsWereApproved, Decisions

\* A row inserted for a request that had none.
LEMMA NewRequest ==
  ASSUME IInv, NEW a \in Approvals, NEW type \in Types, NEW u \in Users,
         NEW p \in Places \cup {NoPlace}, InsertRequest(a, type, u, p)
  PROVE  /\ approval' \in [Approvals -> ApprovalRow]
         /\ approval'[a].status = "pending"
         /\ \A b \in Approvals : b # a => approval'[b] = approval[b]
         /\ \A b \in Approvals : approval[b].status \in Decisions => approval'[b] = approval[b]
         /\ step[a].status = "none"
         /\ \A r \in Requests : ~Inserts(r, a)
<1>1. approval' \in [Approvals -> ApprovalRow]
  BY DEF IInv, TypeOK, InsertRequest, ApprovalRow, ReviewStatuses
<1>2. \A b \in Approvals : b # a => approval'[b] = approval[b]
  BY DEF IInv, TypeOK, InsertRequest
<1>3. approval'[a].status = "pending" /\ approval[a].status = "none"
  BY DEF IInv, TypeOK, InsertRequest
<1>4. step[a].status = "none" /\ \A r \in Requests : ~Inserts(r, a)
  BY <1>3 DEF IInv, StepsHaveRequests, StepsInsertedOnce
<1> QED
  BY <1>1, <1>2, <1>3, <1>4 DEF Decisions

\* createApproval's first statement, by itself or within createExecution.
LEMMA Asked ==
  ASSUME IInv, NEW r \in Requests, NEW a \in Approvals, NEW type \in Types,
         NEW u \in Users, NEW p \in Places \cup {NoPlace}, NEW q \in Request,
         InsertRequest(a, type, u, p), q.approval = a,
         req' = [req EXCEPT ![r] = q],
         UNCHANGED <<step, execution, killed, install, faultVars>>
  PROVE  Good
<1>1. TypeOK'
  BY NewRequest DEF IInv, TypeOK, faultVars
<1>2. StepsHaveRequests' /\ IndependentReview' /\ ReviewsStand
  BY NewRequest DEF IInv, StepsHaveRequests, IndependentReview, ReviewsStand, Decisions
<1>3. StepsInsertedOnce'
  <2>1. \A s \in Requests : s # r => req'[s] = req[s]
    BY DEF IInv, TypeOK
  <2>2. req'[r] = q
    BY DEF IInv, TypeOK
  <2>3. ASSUME NEW s \in Requests, NEW b \in Approvals, Inserts(s, b)'
        PROVE  IF s = r THEN b = a ELSE Inserts(s, b) /\ b # a
    BY <2>1, <2>2, <2>3, NewRequest DEF Inserts
  <2> QED
    BY <2>3, NewRequest DEF IInv, StepsInsertedOnce
<1>4. NothingRunsUnapproved' /\ WorkStands /\ InstallsWereApproved'
  BY NewRequest, WorkKept, InstallsKept
<1> QED
  BY <1>1, <1>2, <1>3, <1>4 DEF IInv, Good

\* A statement that changes neither requests nor steps and lets nobody begin
\* to insert a step.
LEMMA RestKept ==
  ASSUME IInv, UNCHANGED <<approval, step, execution, install>>, killed' \subseteq Runtimes,
         req' \in [Requests -> Request], restarts' \in 0..MaxRestarts, errors' \in 0..MaxErrors,
         \A r \in Requests, a \in Approvals : Inserts(r, a)' => Inserts(r, a)
  PROVE  Good
<1>1. TypeOK'
  BY DEF IInv, TypeOK
<1> QED
  BY <1>1, NobodyBeginsToInsert, ReviewsKept, WorkKept, InstallsKept DEF IInv, Good

\* A request finishes or goes on with a statement that inserts no step.
LEMMA MovesOn ==
  ASSUME IInv, NEW r \in Requests, NEW q \in Request, q.next # "insert_step",
         req' = [req EXCEPT ![r] = q]
  PROVE  /\ req' \in [Requests -> Request]
         /\ \A s \in Requests, a \in Approvals : Inserts(s, a)' => Inserts(s, a) /\ s # r
<1>1. req' \in [Requests -> Request]
  BY DEF IInv, TypeOK
<1>2. \A s \in Requests : req'[s] = IF s = r THEN q ELSE req[s]
  BY DEF IInv, TypeOK
<1> QED
  BY <1>1, <1>2 DEF Inserts

LEMMA AfterStepMoves ==
  ASSUME IInv, NEW r \in Requests, AfterStep(r)
  PROVE  \E q \in Request : q.next # "insert_step" /\ req' = [req EXCEPT ![r] = q]
<1> PICK q \in Request : q = req[r]
  BY DEF IInv, TypeOK
<1>1. CASE q.executes
  <2> DEFINE g == [q EXCEPT !.next = "insert_execution"]
  <2>1. g \in Request /\ g.next = "insert_execution"
    BY GotoType DEF Steps, Request
  <2>2. req' = [req EXCEPT ![r] = g]
    BY <1>1 DEF AfterStep, Goto, IInv, TypeOK
  <2> HIDE DEF g
  <2> QED
    BY <2>1, <2>2
<1>2. CASE ~q.executes
  BY <1>2, IdleType DEF AfterStep, Finish, Idle
<1> QED
  BY <1>1, <1>2 DEF Request

-----------------------------------------------------------------------------
(* One lemma for each action.                                              *)

LEMMA CreateRequestStep ==
  ASSUME IInv, NEW r \in Requests, NEW a \in Approvals, NEW u \in Users,
         NEW type \in Types, NEW p \in Metadata(type), CreateRequest(r, a, type, u, p)
  PROVE  Good
<1> DEFINE q == [Idle EXCEPT !.next = "insert_step", !.approval = a]
<1>1. q \in Request /\ q.approval = a
  BY IdleType DEF Request, Idle, Steps
<1>2. InsertRequest(a, type, u, p) /\ req' = [req EXCEPT ![r] = q]
      /\ UNCHANGED <<step, execution, killed, install, faultVars>>
  BY DEF CreateRequest
<1>3. p \in Places \cup {NoPlace}
  BY DEF Metadata
<1> HIDE DEF q
<1> QED
  BY <1>1, <1>2, <1>3, Asked

LEMMA RequestExecutionStep ==
  ASSUME IInv, NEW r \in Requests, NEW a \in Approvals, NEW u \in Users,
         NEW t \in Runtimes \cup {NoRuntime}, RequestExecution(r, a, u, t)
  PROVE  Good
<1> DEFINE q == [next |-> "insert_step", approval |-> a, runtime |-> t, executes |-> TRUE]
<1>1. q \in Request /\ q.approval = a
  BY DEF Request, Steps
<1>2. InsertRequest(a, "execution", u, NoPlace) /\ req' = [req EXCEPT ![r] = q]
      /\ UNCHANGED <<step, execution, killed, install, faultVars>>
  BY DEF RequestExecution
<1> HIDE DEF q
<1> QED
  BY <1>1, <1>2, Asked DEF Types

LEMMA InsertStepStep ==
  ASSUME IInv, NEW r \in Requests, InsertStep(r)
  PROVE  Good
<1> PICK q \in Request : q.next # "insert_step" /\ req' = [req EXCEPT ![r] = q]
  BY AfterStepMoves DEF InsertStep
<1>1. /\ req' \in [Requests -> Request]
      /\ \A s \in Requests, a \in Approvals : Inserts(s, a)' => Inserts(s, a) /\ s # r
  BY MovesOn
<1>2. step' \in [Approvals -> StepRow]
  BY DEF InsertStep, IInv, TypeOK, StepRow, ReviewStatuses
<1>3. \A a \in Approvals :
        IF Inserts(r, a) THEN step'[a].status = "pending" ELSE step'[a] = step[a]
  BY DEF InsertStep, At, Inserts, IInv, TypeOK, StepRow
<1>4. UNCHANGED <<approval, execution, install>>
  BY DEF InsertStep
<1>5. TypeOK'
  BY <1>1, <1>2 DEF InsertStep, IInv, TypeOK, faultVars
<1>6. StepsHaveRequests'
  BY <1>3, <1>4 DEF IInv, StepsHaveRequests, StepsInsertedOnce
<1>7. StepsInsertedOnce'
  <2> SUFFICES ASSUME NEW s \in Requests, NEW a \in Approvals, Inserts(s, a)'
               PROVE  /\ approval[a].status # "none"
                      /\ step'[a].status = "none"
                      /\ \A t \in Requests : Inserts(t, a)' => t = s
    BY <1>4 DEF StepsInsertedOnce
  <2>1. Inserts(s, a) /\ ~Inserts(r, a)
    BY <1>1 DEF IInv, StepsInsertedOnce
  <2> QED
    BY <1>1, <1>3, <2>1 DEF IInv, StepsInsertedOnce
<1>8. IndependentReview' /\ ReviewsStand
  BY <1>3, <1>4 DEF IInv, IndependentReview, ReviewsStand, StepsInsertedOnce, Decisions
<1> QED
  BY <1>4, <1>5, <1>6, <1>7, <1>8, WorkKept, InstallsKept DEF IInv, Good

\* A row of executions that was not there.
LEMMA NewExecution ==
  ASSUME IInv, NEW e \in Executions, execution[e].status = "none",
         NEW x \in ExecutionRow,
         x.status = "waiting_approval" \/ x.approval = NoApproval,
         execution' = [execution EXCEPT ![e] = x],
         UNCHANGED <<approval, step, killed, install, faultVars>>,
         req' \in [Requests -> Request],
         \A r \in Requests, a \in Approvals : Inserts(r, a)' => Inserts(r, a)
  PROVE  Good
<1>1. execution' \in [Executions -> ExecutionRow]
      /\ \A f \in Executions : execution'[f] = IF f = e THEN x ELSE execution[f]
  BY DEF IInv, TypeOK
<1>2. TypeOK'
  BY <1>1 DEF IInv, TypeOK, faultVars
<1>3. NothingRunsUnapproved' /\ WorkStands
  BY <1>1 DEF IInv, NothingRunsUnapproved, WorkStands
<1> QED
  BY <1>2, <1>3, NobodyBeginsToInsert, ReviewsKept, InstallsKept DEF IInv, Good

LEMMA InsertExecutionStep ==
  ASSUME IInv, NEW r \in Requests, NEW e \in Executions, InsertExecution(r, e)
  PROVE  Good
<1> PICK q \in Request : q = req[r]
  BY DEF IInv, TypeOK
<1> DEFINE x == [status |-> "waiting_approval", runtime |-> q.runtime, approval |-> q.approval]
<1>1. x \in ExecutionRow /\ x.status = "waiting_approval"
  BY DEF ExecutionRow, ExecutionStatuses, Request
<1>2. execution[e].status = "none" /\ execution' = [execution EXCEPT ![e] = x]
      /\ UNCHANGED <<approval, step, killed, install, faultVars>>
  BY DEF InsertExecution
<1>3. req' = [req EXCEPT ![r] = Idle] /\ Idle.next # "insert_step"
  BY DEF InsertExecution, Finish, Idle
<1> HIDE DEF x
<1> QED
  BY <1>1, <1>2, <1>3, IdleType, MovesOn, NewExecution

LEMMA RunExecutionStep ==
  ASSUME IInv, NEW e \in Executions, NEW t \in Runtimes \cup {NoRuntime}, RunExecution(e, t)
  PROVE  Good
<1> DEFINE x == [status |-> "completed", runtime |-> t, approval |-> NoApproval]
<1>1. x \in ExecutionRow /\ x.approval = NoApproval
  BY DEF ExecutionRow, ExecutionStatuses
<1>2. execution[e].status = "none" /\ execution' = [execution EXCEPT ![e] = x]
      /\ UNCHANGED <<approval, step, killed, install, faultVars>> /\ UNCHANGED req
  BY DEF RunExecution
<1> HIDE DEF x
<1>3. req' \in [Requests -> Request]
      /\ \A r \in Requests, a \in Approvals : Inserts(r, a)' => Inserts(r, a)
  BY <1>2 DEF IInv, TypeOK, Inserts
<1> QED
  BY <1>1, <1>2, <1>3, NewExecution

LEMMA DecideStep ==
  ASSUME IInv, NEW u \in Users, NEW a \in Approvals, NEW d \in Decisions, Decide(u, a, d)
  PROVE  Good
<1> USE NoApprovalNew
<1>1. approval[a].status = "pending" /\ approval[a].requester # u
  BY DEF Decide, MayDecide
<1>2. /\ approval' \in [Approvals -> ApprovalRow]
      /\ \A b \in Approvals : b # a => approval'[b] = approval[b]
      /\ approval'[a].status = d /\ approval'[a].requester = approval[a].requester
      /\ approval'[a].type = approval[a].type /\ approval'[a].place = approval[a].place
  BY DEF Decide, IInv, TypeOK, ApprovalRow, ReviewStatuses
<1>3. /\ step' \in [Approvals -> StepRow]
      /\ \A b \in Approvals : b # a => step'[b] = step[b]
      /\ step'[a] = IF step[a].status = "pending" THEN [status |-> d, reviewer |-> u] ELSE step[a]
  BY DEF Decide, IInv, TypeOK, StepRow, ReviewStatuses
<1>4. UNCHANGED <<killed, req, faultVars>>
  BY DEF Decide
<1>5. /\ execution' \in [Executions -> ExecutionRow]
      /\ \A e \in Executions :
           /\ execution'[e].approval = execution[e].approval
           /\ execution[e].approval # a => execution'[e] = execution[e]
           /\ execution'[e] = execution[e] \/ execution'[e].status = Outcome(d)
  BY DEF Decide, ApplyToExecutions, Outcome, IInv, TypeOK, ExecutionRow, ExecutionStatuses
<1>6. /\ install' \in [Places -> InstallRow]
      /\ \A p \in Places :
           \/ install'[p] = install[p]
           \/ install[p].approval = a
           \/ /\ approval[a].type = "skill_install" /\ d = "approved"
              /\ install'[p] = [status |-> "installed", approval |-> a]
              /\ p = approval[a].place /\ Owner[p] = approval[a].requester
  <2>1. CASE approval[a].type # "skill_install"
    BY <2>1 DEF Decide, ApplyToInstalls, IInv, TypeOK
  <2>2. CASE approval[a].type = "skill_install" /\ d = "approved"
    BY <2>2 DEF Decide, ApplyToInstalls, InstallApproved, IInv, TypeOK, InstallRow
  <2>3. CASE approval[a].type = "skill_install" /\ d # "approved"
    BY <2>3 DEF Decide, ApplyToInstalls, InstallRejected, IInv, TypeOK, InstallRow
  <2> QED
    BY <2>1, <2>2, <2>3
<1>7. TypeOK'
  BY <1>2, <1>3, <1>4, <1>5, <1>6 DEF IInv, TypeOK, faultVars
<1>8. StepsHaveRequests' /\ IndependentReview' /\ ReviewsStand
  BY <1>1, <1>2, <1>3 DEF IInv, StepsHaveRequests, IndependentReview, ReviewsStand, Decisions
<1>9. StepsInsertedOnce'
  BY <1>2, <1>3, <1>4 DEF IInv, StepsInsertedOnce, Inserts, Decisions
<1>10. NothingRunsUnapproved' /\ WorkStands
  <2> SUFFICES ASSUME NEW e \in Executions
               PROVE  /\ execution'[e].approval # NoApproval =>
                           /\ execution'[e].status = "completed" =>
                                approval'[execution'[e].approval].status = "approved"
                           /\ execution'[e].status = "rejected" =>
                                approval'[execution'[e].approval].status = "rejected"
                      /\ execution[e].status \in {"completed", "rejected"} =>
                           execution'[e] = execution[e]
    BY DEF NothingRunsUnapproved, WorkStands
  <2>1. CASE execution[e].approval = a
    BY <1>1, <1>2, <1>5, <2>1 DEF IInv, NothingRunsUnapproved, Outcome, Decisions
  <2>2. CASE execution[e].approval # a
    <3>1. execution[e].approval \in Approvals \cup {NoApproval} /\ execution'[e] = execution[e]
      BY <1>5, <2>2 DEF IInv, TypeOK, ExecutionRow
    <3> QED
      BY <1>2, <2>2, <3>1 DEF IInv, NothingRunsUnapproved
  <2> QED
    BY <2>1, <2>2
<1>11. InstallsWereApproved'
  <2> SUFFICES ASSUME NEW p \in Places, install'[p].approval # NoApproval
               PROVE  LET b == install'[p].approval IN
                        /\ approval'[b].status = "approved"
                        /\ approval'[b].type = "skill_install"
                        /\ approval'[b].place = p
                        /\ approval'[b].requester = Owner[p]
    BY DEF InstallsWereApproved
  <2>1. install[p].approval # a
    BY <1>1 DEF IInv, InstallsWereApproved
  <2>2. CASE install'[p] = install[p]
    <3>1. install[p].approval \in Approvals
      BY <2>2 DEF IInv, TypeOK, InstallRow
    <3> QED
      BY <1>2, <2>1, <2>2, <3>1 DEF IInv, InstallsWereApproved
  <2>3. CASE install'[p] # install[p]
    BY <1>2, <1>6, <2>1, <2>3
  <2> QED
    BY <2>2, <2>3
<1> QED
  BY <1>7, <1>8, <1>9, <1>10, <1>11 DEF IInv, Good

LEMMA InstallSkillStep ==
  ASSUME IInv, NEW p \in Places, InstallSkill(p)
  PROVE  Good
<1>1. install' \in [Places -> InstallRow]
      /\ \A o \in Places : install'[o] = install[o] \/ install'[o].approval = NoApproval
  BY DEF InstallSkill, IInv, TypeOK, InstallRow
<1>2. UNCHANGED <<approval, step, execution, killed, req, faultVars>>
  BY DEF InstallSkill
<1>3. TypeOK' /\ InstallsWereApproved'
  BY <1>1, <1>2 DEF IInv, TypeOK, faultVars, InstallsWereApproved
<1>4. StepsInsertedOnce'
  BY <1>2 DEF IInv, StepsInsertedOnce, Inserts
<1> QED
  BY <1>2, <1>3, <1>4, ReviewsKept, WorkKept DEF IInv, Good

LEMMA KillRuntimeStep ==
  ASSUME IInv, NEW r \in Requests, NEW t \in Runtimes, KillRuntime(r, t)
  PROVE  Good
<1> DEFINE q == [Idle EXCEPT !.next = "cancel_executions", !.runtime = t]
<1>1. q \in Request /\ q.next # "insert_step"
  BY IdleType DEF Request, Idle, Steps
<1>2. /\ req' = [req EXCEPT ![r] = q] /\ killed' = killed \cup {t}
      /\ UNCHANGED <<approval, step, execution, install, faultVars>>
  BY DEF KillRuntime
<1> HIDE DEF q
<1>3. /\ killed' \subseteq Runtimes /\ restarts' \in 0..MaxRestarts /\ errors' \in 0..MaxErrors
  BY <1>2 DEF IInv, TypeOK, faultVars
<1> QED
  BY <1>1, <1>2, <1>3, MovesOn, RestKept

LEMMA CancelExecutionsStep ==
  ASSUME IInv, NEW r \in Requests, CancelExecutions(r)
  PROVE  Good
<1>1. /\ execution' \in [Executions -> ExecutionRow]
      /\ \A e \in Executions :
           execution'[e] = execution[e] \/ execution'[e].status = "cancelled"
      /\ \A e \in Executions : execution[e].status # "waiting_approval" =>
           execution'[e] = execution[e]
  BY DEF CancelExecutions, IInv, TypeOK, ExecutionRow, ExecutionStatuses
<1>2. req' = [req EXCEPT ![r] = Idle] /\ Idle.next # "insert_step"
      /\ UNCHANGED <<approval, step, killed, install, faultVars>>
  BY DEF CancelExecutions, Finish, Idle
<1>3. req' \in [Requests -> Request]
      /\ \A s \in Requests, a \in Approvals : Inserts(s, a)' => Inserts(s, a)
  BY <1>2, IdleType, MovesOn
<1>4. TypeOK'
  BY <1>1, <1>2, <1>3 DEF IInv, TypeOK, faultVars
<1>5. NothingRunsUnapproved' /\ WorkStands
  BY <1>1, <1>2 DEF IInv, NothingRunsUnapproved, WorkStands
<1> QED
  BY <1>2, <1>3, <1>4, <1>5, NobodyBeginsToInsert, ReviewsKept, InstallsKept DEF IInv, Good

LEMMA StatementFailsStep ==
  ASSUME IInv, NEW r \in Requests, StatementFails(r)
  PROVE  Good
<1>1. \E q \in Request : q.next # "insert_step" /\ req' = [req EXCEPT ![r] = q]
  BY AfterStepMoves, IdleType DEF StatementFails, Finish, Idle
<1>2. /\ killed' \subseteq Runtimes /\ restarts' \in 0..MaxRestarts
      /\ UNCHANGED <<approval, step, execution, install>>
  BY DEF StatementFails, IInv, TypeOK
<1>3. errors' \in 0..MaxErrors
  BY BoundsType DEF StatementFails, IInv, TypeOK
<1> QED
  BY <1>1, <1>2, <1>3, MovesOn, RestKept

LEMMA SeedStep ==
  ASSUME IInv, NEW a \in Approvals, NEW done \in Executions, NEW waiting \in Executions,
         NEW u \in Users, NEW t \in Runtimes \cup {NoRuntime},
         \A e \in Executions : execution[e].status = "none",
         SeedExecutions(a, done, waiting, u, t), done # waiting,
         restarts' \in 0..MaxRestarts, req' = [r \in Requests |-> Idle],
         UNCHANGED <<killed, install, errors>>
  PROVE  Good
<1>1. InsertRequest(a, "execution", u, NoPlace) /\ "execution" \in Types
  BY DEF SeedExecutions, Types
<1>2. /\ approval' \in [Approvals -> ApprovalRow]
      /\ approval'[a].status = "pending"
      /\ \A b \in Approvals : b # a => approval'[b] = approval[b]
      /\ \A b \in Approvals : approval[b].status \in Decisions => approval'[b] = approval[b]
  BY <1>1, NewRequest
<1>3. /\ step' \in [Approvals -> StepRow]
      /\ step'[a].status = "pending"
      /\ \A b \in Approvals : b # a => step'[b] = step[b]
      /\ step[a].status = "none"
  BY <1>1, NewRequest DEF SeedExecutions, IInv, TypeOK, StepRow, ReviewStatuses
<1>4. /\ execution' \in [Executions -> ExecutionRow]
      /\ \A e \in Executions : execution'[e] = execution[e]
           \/ execution'[e].status = "waiting_approval" \/ execution'[e].approval = NoApproval
  BY DEF SeedExecutions, IInv, TypeOK, ExecutionRow, ExecutionStatuses
<1>5. req' \in [Requests -> Request] /\ \A r \in Requests, b \in Approvals : ~Inserts(r, b)'
  BY IdleType DEF Inserts, Idle
<1>6. TypeOK'
  BY <1>2, <1>3, <1>4, <1>5 DEF IInv, TypeOK
<1>7. StepsHaveRequests' /\ IndependentReview' /\ ReviewsStand /\ StepsInsertedOnce'
  BY <1>2, <1>3, <1>5
     DEF IInv, StepsHaveRequests, IndependentReview, ReviewsStand, StepsInsertedOnce, Decisions
<1>8. NothingRunsUnapproved' /\ WorkStands
  BY <1>4 DEF NothingRunsUnapproved, WorkStands
<1> QED
  BY <1>2, <1>6, <1>7, <1>8, InstallsKept DEF IInv, Good

LEMMA RestartStep ==
  ASSUME IInv, Restart
  PROVE  Good
<1>1. restarts' \in 0..MaxRestarts
  BY BoundsType DEF Restart, IInv, TypeOK
<1>2. req' = [r \in Requests |-> Idle] /\ UNCHANGED <<killed, install, errors>>
  BY DEF Restart
<1>3. CASE \E e \in Executions : execution[e].status # "none"
  <2>1. req' \in [Requests -> Request] /\ \A r \in Requests, a \in Approvals : ~Inserts(r, a)'
    BY <1>2, IdleType DEF Inserts, Idle
  <2>2. UNCHANGED <<approval, step, execution>>
    BY <1>3 DEF Restart
  <2>3. killed' \subseteq Runtimes /\ errors' \in 0..MaxErrors
    BY <1>2 DEF IInv, TypeOK
  <2> QED
    BY <1>1, <1>2, <2>1, <2>2, <2>3, RestKept
<1>4. CASE ~ \E e \in Executions : execution[e].status # "none"
  <2>1. PICK a \in Approvals, done \in Executions, waiting \in Executions, u \in Users,
             t \in Runtimes \cup {NoRuntime} :
               done # waiting /\ SeedExecutions(a, done, waiting, u, t)
    BY <1>4 DEF Restart
  <2> QED
    BY <1>1, <1>2, <1>4, <2>1, SeedStep
<1> QED
  BY <1>3, <1>4

-----------------------------------------------------------------------------
(* Theorems.                                                               *)

\* Every step of the specification preserves the invariant and what is decided.
LEMMA NextGood ==
  ASSUME IInv, [Next]_vars
  PROVE  Good
<1>1. CASE UNCHANGED vars
  <2>1. req' \in [Requests -> Request] /\ killed' \subseteq Runtimes
        /\ restarts' \in 0..MaxRestarts /\ errors' \in 0..MaxErrors
        /\ UNCHANGED <<approval, step, execution, install>>
    BY <1>1 DEF vars, faultVars, IInv, TypeOK
  <2>2. \A r \in Requests, a \in Approvals : Inserts(r, a)' => Inserts(r, a)
    BY <1>1 DEF vars, Inserts
  <2> QED
    BY <2>1, <2>2, RestKept
<1>2. ASSUME NEW r \in Requests, Handle(r)
      PROVE  Good
  BY <1>2, CreateRequestStep, RequestExecutionStep, InsertStepStep, InsertExecutionStep,
     KillRuntimeStep, CancelExecutionsStep, StatementFailsStep DEF Handle
<1> QED
  BY <1>1, <1>2, RunExecutionStep, DecideStep, InstallSkillStep, RestartStep DEF Next

\* The inductive invariant holds in every reachable state.
THEOREM InvariantHolds == Spec => []IInv
<1>1. IInv /\ [Next]_vars => IInv'
  BY NextGood DEF Good
<1> QED
  BY InitIInv, <1>1, PTL DEF Spec

\* Every row, request and counter keeps its type.
THEOREM TypeCorrect == Spec => []TypeOK
<1>1. IInv => TypeOK
  BY DEF IInv
<1> QED
  BY InvariantHolds, <1>1, PTL

\* Work of high risk completes only after its request was approved, and is
\* rejected only with it.
THEOREM WorkFollowsDecisions == Spec => []NothingRunsUnapproved
<1>1. IInv => NothingRunsUnapproved
  BY DEF IInv
<1> QED
  BY InvariantHolds, <1>1, PTL

\* Nobody reviews a request of his own.
THEOREM ReviewsIndependent == Spec => []IndependentReview
<1>1. IInv => IndependentReview
  BY DEF IInv
<1> QED
  BY InvariantHolds, <1>1, PTL

\* A skill is installed by an approval only for the owner who asked.
THEOREM InstallsApproved == Spec => []InstallsWereApproved
<1>1. IInv => InstallsWereApproved
  BY DEF IInv
<1> QED
  BY InvariantHolds, <1>1, PTL

\* A decision stands, with its step and the work it let through or refused.
THEOREM DecisionsAreFinal == Spec => DecisionsStand
<1>1. IInv /\ [Next]_vars =>
        [/\ \A a \in Approvals : approval[a].status \in Decisions =>
              /\ approval'[a] = approval[a]
              /\ step[a].status \in Decisions => step'[a] = step[a]
         /\ \A e \in Executions : execution[e].status \in {"completed", "rejected"} =>
              execution'[e] = execution[e]]_vars
  BY NextGood DEF Good, ReviewsStand, WorkStands
<1> QED
  BY InvariantHolds, <1>1, PTL DEF Spec, DecisionsStand

-----------------------------------------------------------------------------
(* Requests that nothing interrupts.                                        *)

\* While a request inserts what belongs to its approval, the approval is
\* undecided; before its step is inserted there is none, then it is pending.
\* An idle request and the kill switch hold no approval.
Begun(r) ==
  /\ req[r].next \in {"insert_step", "insert_execution"} => req[r].approval # NoApproval
  /\ At(r, "insert_execution") => req[r].executes
  /\ \A a \in Approvals : req[r].approval = a =>
       /\ req[r].next \in {"insert_step", "insert_execution"}
       /\ approval[a].status = "pending"
       /\ req[r].executes => approval[a].type = "execution"
       /\ step[a].status = IF At(r, "insert_step") THEN "none" ELSE "pending"

\* An execution waits for an approval that the decision will bring back to it.
Awaits(e) == execution[e].status = "waiting_approval" =>
  /\ execution[e].approval # NoApproval
  /\ \A a \in Approvals : execution[e].approval = a =>
       approval[a].status = "pending" /\ approval[a].type = "execution"

Alone == \A r, q \in Requests : ~Free(r) /\ ~Free(q) => r = q

InOrder ==
  /\ Alone
  /\ \A r \in Requests : Begun(r)
  /\ StepShowsDecision
  /\ \A e \in Executions : Awaits(e)

SequenceInv == IInv /\ (~disturbed => InOrder)

\* The request a step moves is the only one that is not idle.
LEMMA OnlyOne ==
  ASSUME IInv, \A r \in Requests : Begun(r), NEW r \in Requests, NEW q \in Request,
         \A s \in Requests \ {r} : Free(s), req' = [req EXCEPT ![r] = q]
  PROVE  /\ Alone' /\ req'[r] = q
         /\ \A s \in Requests \ {r} : Begun(s)'
         /\ \A s \in Requests \ {r}, a \in Approvals : req'[s].approval # a /\ req[s].approval # a
<1>1. req'[r] = q /\ \A s \in Requests \ {r} : req'[s] = req[s]
  BY DEF IInv, TypeOK
<1>2. \A s \in Requests \ {r}, a \in Approvals : req[s].approval # a
  BY DEF Begun, Free
<1> QED BY <1>1, <1>2 DEF Alone, Free, Begun, At

\* The first statement of createApproval.
LEMMA AskedInOrder ==
  ASSUME IInv, InOrder, NEW r \in Requests, Free(r), NEW a \in Approvals, NEW type \in Types,
         NEW u \in Users, NEW p \in Places \cup {NoPlace}, NEW q \in Request,
         \A s \in Requests \ {r} : Free(s),
         InsertRequest(a, type, u, p), q.approval = a, q.next = "insert_step",
         q.executes => type = "execution",
         req' = [req EXCEPT ![r] = q], UNCHANGED <<step, execution>>
  PROVE  InOrder'
<1> USE NoApprovalNew
<1>1. /\ approval'[a].status = "pending" /\ approval'[a].type = type
      /\ approval[a].status = "none" /\ step[a].status = "none"
      /\ \A b \in Approvals : b # a => approval'[b] = approval[b]
  <2>1. approval'[a].type = type /\ approval[a].status = "none"
    BY DEF InsertRequest, IInv, TypeOK
  <2> QED BY <2>1, NewRequest
<1>2. /\ Alone' /\ req'[r] = q /\ \A s \in Requests \ {r} : Begun(s)'
      /\ \A s \in Requests \ {r}, b \in Approvals : req[s].approval # b
  BY OnlyOne DEF InOrder
<1>3. Begun(r)'
  BY <1>1, <1>2 DEF Begun, At
<1>4. StepShowsDecision'
  <2> SUFFICES ASSUME NEW b \in Approvals, AtRest(b)' PROVE step'[b].status = approval'[b].status
    BY DEF StepShowsDecision
  <2>1. b # a
    BY <1>2 DEF AtRest
  <2>2. AtRest(b)
    BY <1>2 DEF AtRest, InOrder, Begun, Free
  <2> QED BY <1>1, <2>1, <2>2 DEF InOrder, StepShowsDecision
<1>5. \A e \in Executions : Awaits(e)'
  BY <1>1 DEF InOrder, Awaits
<1> QED BY <1>2, <1>3, <1>4, <1>5 DEF InOrder

\* A request ends: what it held rests.
LEMMA EndsInOrder ==
  ASSUME IInv, InOrder, NEW r \in Requests, \A s \in Requests \ {r} : Free(s), Finish(r),
         UNCHANGED approval,
         \A b \in Approvals : IF req[r].approval = b
                                THEN step'[b].status = "pending" ELSE step'[b] = step[b]
  PROVE  Alone' /\ (\A s \in Requests : Begun(s)') /\ StepShowsDecision'
<1> USE NoApprovalNew
<1>1. /\ Alone' /\ req'[r] = Idle /\ \A s \in Requests \ {r} : Begun(s)'
      /\ \A s \in Requests \ {r}, b \in Approvals : req[s].approval # b
  <2> PICK q \in Request : q = Idle
    BY IdleType
  <2>1. req' = [req EXCEPT ![r] = q] /\ \A s \in Requests : Begun(s)
    BY DEF Finish, InOrder
  <2>2. /\ Alone' /\ req'[r] = q
        /\ \A s \in Requests \ {r} : Begun(s)'
        /\ \A s \in Requests \ {r}, b \in Approvals : req'[s].approval # b /\ req[s].approval # b
    BY <2>1, OnlyOne
  <2> QED BY <2>2
<1>2. Begun(r)'
  BY <1>1 DEF Begun, At, Idle
<1>3. StepShowsDecision'
  <2> SUFFICES ASSUME NEW b \in Approvals PROVE step'[b].status = approval[b].status
    BY DEF StepShowsDecision
  <2>1. CASE req[r].approval = b
    BY <2>1 DEF InOrder, Begun
  <2>2. CASE req[r].approval # b
    <3>1. AtRest(b)
      BY <1>1, <2>2 DEF AtRest
    <3> QED BY <2>2, <3>1 DEF InOrder, StepShowsDecision
  <2> QED BY <2>1, <2>2
<1> QED BY <1>1, <1>2, <1>3

LEMMA InsertStepInOrder ==
  ASSUME IInv, InOrder, NEW r \in Requests, \A s \in Requests \ {r} : Free(s), InsertStep(r)
  PROVE  InOrder'
<1> USE NoApprovalNew
<1>1. /\ UNCHANGED <<approval, execution>>
      /\ \A b \in Approvals : IF req[r].approval = b
                                THEN step'[b].status = "pending" ELSE step'[b] = step[b]
  BY DEF InsertStep, IInv, TypeOK, StepRow
<1>2. \A e \in Executions : Awaits(e)'
  BY <1>1 DEF InOrder, Awaits
<1>3. CASE ~req[r].executes
  <2>1. Finish(r)
    BY <1>3 DEF InsertStep, AfterStep
  <2> QED BY <1>1, <1>2, <2>1, EndsInOrder DEF InOrder
<1>4. CASE req[r].executes
  <2> PICK q \in Request : q = req[r]
    BY DEF IInv, TypeOK
  <2> DEFINE g == [q EXCEPT !.next = "insert_execution"]
  <2>1. /\ g \in Request /\ g.next = "insert_execution" /\ g.approval = q.approval
        /\ g.executes = q.executes
    BY GotoType DEF Steps, Request
  <2>2. req' = [req EXCEPT ![r] = g]
    BY <1>4 DEF InsertStep, AfterStep, Goto, IInv, TypeOK
  <2> HIDE DEF g
  <2>3. /\ Alone' /\ req'[r] = g /\ \A s \in Requests \ {r} : Begun(s)'
        /\ \A s \in Requests \ {r}, b \in Approvals : req[s].approval # b
    <3>1. \A s \in Requests : Begun(s)
      BY DEF InOrder
    <3>2. /\ Alone' /\ req'[r] = g
          /\ \A s \in Requests \ {r} : Begun(s)'
          /\ \A s \in Requests \ {r}, b \in Approvals : req'[s].approval # b /\ req[s].approval # b
      BY <2>1, <2>2, <3>1, OnlyOne
    <3> QED BY <3>2
  <2>4. Begun(r)'
    <3>1. req'[r].approval = req[r].approval /\ req'[r].next = "insert_execution"
          /\ req'[r].executes = req[r].executes /\ req[r].next = "insert_step"
      BY <2>1, <2>3 DEF InsertStep, At
    <3>2. Begun(r)
      BY DEF InOrder
    <3> QED BY <1>1, <1>4, <3>1, <3>2 DEF Begun, At
  <2>5. StepShowsDecision'
    <3> SUFFICES ASSUME NEW b \in Approvals, AtRest(b)' PROVE step'[b].status = approval[b].status
      BY <1>1 DEF StepShowsDecision
    <3>1. req[r].approval # b /\ AtRest(b)
      BY <2>1, <2>3 DEF AtRest
    <3> QED BY <1>1, <3>1 DEF InOrder, StepShowsDecision
  <2> QED BY <1>2, <2>3, <2>4, <2>5 DEF InOrder
<1> QED BY <1>3, <1>4

LEMMA InsertExecutionInOrder ==
  ASSUME IInv, InOrder, NEW r \in Requests, NEW e \in Executions,
         \A s \in Requests \ {r} : Free(s), InsertExecution(r, e)
  PROVE  InOrder'
<1> USE NoApprovalNew
<1>1. /\ UNCHANGED <<approval, step>> /\ Finish(r) /\ At(r, "insert_execution")
      /\ execution' = [execution EXCEPT ![e] =
           [status |-> "waiting_approval", runtime |-> req[r].runtime,
            approval |-> req[r].approval]]
  BY DEF InsertExecution
<1>2. \A b \in Approvals : IF req[r].approval = b
                             THEN step'[b].status = "pending" ELSE step'[b] = step[b]
  BY <1>1 DEF InOrder, Begun, At
<1>3. \A f \in Executions : Awaits(f)'
  <2>1. execution'[e].approval = req[r].approval /\ \A f \in Executions \ {e} : execution'[f] = execution[f]
    BY <1>1 DEF IInv, TypeOK
  <2>2. Awaits(e)'
    BY <1>1, <2>1 DEF InOrder, Begun, At, Awaits
  <2> QED BY <1>1, <2>1, <2>2 DEF InOrder, Awaits
<1> QED BY <1>1, <1>2, <1>3, EndsInOrder DEF InOrder

LEMMA CancelExecutionsInOrder ==
  ASSUME IInv, InOrder, NEW r \in Requests, \A s \in Requests \ {r} : Free(s), CancelExecutions(r)
  PROVE  InOrder'
<1>1. UNCHANGED <<approval, step>> /\ Finish(r) /\ At(r, "cancel_executions")
  BY DEF CancelExecutions
<1>2. \A b \in Approvals : req[r].approval # b
  BY <1>1 DEF InOrder, Begun, At
<1>3. \A e \in Executions : execution'[e] = execution[e] \/ execution'[e].status = "cancelled"
  BY DEF CancelExecutions, IInv, TypeOK, ExecutionRow
<1>4. \A e \in Executions : Awaits(e)'
  BY <1>1, <1>3 DEF InOrder, Awaits
<1> QED BY <1>1, <1>2, <1>4, EndsInOrder DEF InOrder

LEMMA KillRuntimeInOrder ==
  ASSUME IInv, InOrder, NEW r \in Requests, NEW t \in Runtimes,
         \A s \in Requests \ {r} : Free(s), KillRuntime(r, t)
  PROVE  InOrder'
<1> USE NoApprovalNew
<1> DEFINE q == [Idle EXCEPT !.next = "cancel_executions", !.runtime = t]
<1>1. q \in Request /\ q.next = "cancel_executions" /\ q.approval = NoApproval
  BY IdleType DEF Request, Idle, Steps
<1>2. req' = [req EXCEPT ![r] = q] /\ UNCHANGED <<approval, step, execution>> /\ Free(r)
  BY DEF KillRuntime
<1> HIDE DEF q
<1>3. /\ Alone' /\ req'[r] = q /\ \A s \in Requests \ {r} : Begun(s)'
      /\ \A s \in Requests \ {r}, b \in Approvals : req[s].approval # b
  BY <1>1, <1>2, OnlyOne DEF InOrder
<1>4. Begun(r)'
  BY <1>1, <1>3 DEF Begun, At
<1>5. StepShowsDecision'
  <2>1. \A b \in Approvals : AtRest(b)
    BY <1>2, <1>3 DEF AtRest, InOrder, Begun, Free
  <2> QED BY <1>2, <2>1 DEF InOrder, StepShowsDecision
<1> QED BY <1>2, <1>3, <1>4, <1>5 DEF InOrder, Awaits

\* When every request is idle.
LEMMA AllRest ==
  ASSUME InOrder, \A r \in Requests : Free(r)
  PROVE  \A a \in Approvals : AtRest(a) /\ step[a].status = approval[a].status
BY DEF InOrder, Begun, Free, AtRest, StepShowsDecision

LEMMA DecideInOrder ==
  ASSUME IInv, InOrder, \A r \in Requests : Free(r), NEW u \in Users, NEW a \in Approvals,
         NEW d \in Decisions, Decide(u, a, d)
  PROVE  InOrder'
<1> USE NoApprovalNew
<1>1. /\ approval[a].status = "pending" /\ approval'[a].status = d
      /\ \A b \in Approvals : b # a => approval'[b] = approval[b]
  BY DEF Decide, MayDecide, IInv, TypeOK, ApprovalRow
<1>2. /\ step[a].status = "pending" => step'[a].status = d
      /\ \A b \in Approvals : b # a => step'[b] = step[b]
  BY DEF Decide, IInv, TypeOK
<1>3. req' = req
  BY DEF Decide
<1>4. Alone' /\ \A r \in Requests : Begun(r)'
  <2>1. \A r \in Requests, b \in Approvals : req[r].approval # b
    BY AllRest DEF AtRest
  <2> QED BY <1>3, <2>1 DEF InOrder, Alone, Begun, Free, At
<1>5. StepShowsDecision'
  BY <1>1, <1>2, AllRest DEF StepShowsDecision
<1>6. ASSUME NEW e \in Executions PROVE Awaits(e)'
  <2>1. CASE approval[a].type = "execution" /\ execution[e].approval = a
    <3>1. execution'[e].status = Outcome(d)
      BY <2>1 DEF Decide, ApplyToExecutions, IInv, TypeOK, ExecutionRow
    <3> QED BY <3>1 DEF Awaits, Outcome
  <2>2. CASE ~(approval[a].type = "execution" /\ execution[e].approval = a)
    <3>1. execution'[e] = execution[e]
      BY <2>2 DEF Decide, ApplyToExecutions
    <3>2. execution[e].status = "waiting_approval" => execution[e].approval # a
      BY <2>2 DEF InOrder, Awaits
    <3> QED BY <1>1, <3>1, <3>2 DEF InOrder, Awaits
  <2> QED BY <2>1, <2>2
<1> QED BY <1>4, <1>5, <1>6 DEF InOrder

\* A boot while every request is idle.
LEMMA RestartInOrder ==
  ASSUME IInv, InOrder, \A r \in Requests : Free(r), Restart
  PROVE  InOrder'
<1> USE NoApprovalNew
<1>1. \A r \in Requests : req'[r] = Idle
  BY DEF Restart
<1>2. Alone' /\ \A r \in Requests : Begun(r)'
  BY <1>1 DEF Alone, Free, Begun, At, Idle
<1>3. CASE UNCHANGED <<approval, step, execution>>
  <2>1. StepShowsDecision'
    BY <1>3, AllRest DEF StepShowsDecision
  <2> QED BY <1>2, <1>3, <2>1 DEF InOrder, Awaits
<1>4. ASSUME NEW a \in Approvals, NEW done \in Executions, NEW waiting \in Executions,
             NEW u \in Users, NEW t \in Runtimes \cup {NoRuntime},
             done # waiting, SeedExecutions(a, done, waiting, u, t)
      PROVE  InOrder'
  <2>1. InsertRequest(a, "execution", u, NoPlace) /\ "execution" \in Types
    BY <1>4 DEF SeedExecutions, Types
  <2>2. /\ approval'[a].status = "pending" /\ step'[a].status = "pending"
        /\ approval'[a].type = "execution" /\ approval[a].status = "none"
        /\ \A b \in Approvals : b # a => approval'[b] = approval[b] /\ step'[b] = step[b]
    BY <1>4, <2>1 DEF SeedExecutions, InsertRequest, IInv, TypeOK, StepRow
  <2>3. StepShowsDecision'
    BY <2>2, AllRest DEF StepShowsDecision
  <2>4. /\ execution'[done].status = "completed"
        /\ execution'[waiting].approval = a
        /\ \A e \in Executions \ {done, waiting} : execution'[e] = execution[e]
    BY <1>4 DEF SeedExecutions, IInv, TypeOK
  <2>5. ASSUME NEW e \in Executions PROVE Awaits(e)'
    <3>1. CASE e = done
      BY <2>4, <3>1 DEF Awaits
    <3>2. CASE e = waiting
      BY <2>2, <2>4, <3>2 DEF Awaits
    <3>3. CASE e \notin {done, waiting}
      BY <2>2, <2>4, <3>3 DEF InOrder, Awaits
    <3> QED BY <3>1, <3>2, <3>3
  <2> QED BY <1>2, <2>3, <2>5 DEF InOrder
<1> QED BY <1>3, <1>4 DEF Restart

\* A step that changes no row of an approval, a step or a waiting execution
\* while every request is idle.
LEMMA RestInOrder ==
  ASSUME IInv, InOrder,
         (\E e \in Executions, t \in Runtimes \cup {NoRuntime} : RunExecution(e, t))
           \/ (\E p \in Places : InstallSkill(p)) \/ UNCHANGED vars
  PROVE  InOrder'
<1>1. UNCHANGED <<req, approval, step>>
  BY DEF RunExecution, InstallSkill, vars
<1>2. \A e \in Executions : execution'[e] = execution[e] \/ execution'[e].status = "completed"
  BY DEF RunExecution, InstallSkill, vars, IInv, TypeOK
<1> QED
  BY <1>1, <1>2 DEF InOrder, Alone, Free, Begun, At, StepShowsDecision, AtRest, Awaits

LEMMA SequenceStep ==
  ASSUME SequenceInv, [MCNext]_<<vars, disturbed>>
  PROVE  SequenceInv'
<1>1. IInv /\ IInv' /\ TypeOK
  <2>1. [Next]_vars
    BY DEF MCNext
  <2> QED BY <2>1, NextGood DEF SequenceInv, Good, IInv
<1> SUFFICES ASSUME ~disturbed' PROVE InOrder'
  BY <1>1 DEF SequenceInv
<1>2. CASE UNCHANGED <<vars, disturbed>>
  BY <1>1, <1>2, RestInOrder DEF SequenceInv
<1>3. CASE MCNext
  <2>1. InOrder /\ ~Interrupted
    BY <1>3 DEF SequenceInv, MCNext
  <2>2. ASSUME NEW r \in Requests, Handle(r) PROVE InOrder'
    <3>1. \A s \in Requests \ {r} : req'[s] = req[s]
      <4>1. \E q : req' = [req EXCEPT ![r] = q]
        BY <2>2 DEF Handle, CreateRequest, RequestExecution, InsertStep, InsertExecution,
          KillRuntime, CancelExecutions, StatementFails, AfterStep, Goto, Finish
      <4> QED BY <1>1, <4>1 DEF TypeOK
    <3>2. \A s \in Requests \ {r} : Free(s)
      BY <2>1, <3>1 DEF Interrupted
    <3>3. ~StatementFails(r)
      <4>1. StatementFails(r) => ~Free(r) /\ errors' # errors
        BY <1>1 DEF StatementFails, TypeOK
      <4> QED BY <2>1, <4>1 DEF Interrupted
    <3>4. ASSUME NEW a \in Approvals, NEW u \in Users, NEW type \in Types, NEW p \in Metadata(type),
                 CreateRequest(r, a, type, u, p)
          PROVE  InOrder'
      <4> DEFINE q == [Idle EXCEPT !.next = "insert_step", !.approval = a]
      <4>1. q \in Request /\ q.approval = a /\ q.next = "insert_step" /\ ~q.executes
        BY IdleType DEF Request, Idle, Steps
      <4>2. /\ Free(r) /\ InsertRequest(a, type, u, p) /\ req' = [req EXCEPT ![r] = q]
            /\ UNCHANGED <<step, execution>>
        BY <3>4 DEF CreateRequest
      <4>3. p \in Places \cup {NoPlace}
        BY DEF Metadata
      <4> HIDE DEF q
      <4> QED BY <1>1, <2>1, <3>2, <4>1, <4>2, <4>3, AskedInOrder
    <3>5. ASSUME NEW a \in Approvals, NEW u \in Users, NEW t \in Runtimes \cup {NoRuntime},
                 RequestExecution(r, a, u, t)
          PROVE  InOrder'
      <4> DEFINE q == [next |-> "insert_step", approval |-> a, runtime |-> t, executes |-> TRUE]
      <4>1. q \in Request /\ q.approval = a /\ q.next = "insert_step"
        BY DEF Request, Steps
      <4>2. /\ Free(r) /\ InsertRequest(a, "execution", u, NoPlace) /\ req' = [req EXCEPT ![r] = q]
            /\ UNCHANGED <<step, execution>>
        BY <3>5 DEF RequestExecution
      <4> HIDE DEF q
      <4> QED BY <1>1, <2>1, <3>2, <4>1, <4>2, AskedInOrder DEF Types
    <3> QED
      BY <1>1, <2>1, <2>2, <3>2, <3>3, <3>4, <3>5, InsertStepInOrder, InsertExecutionInOrder,
        CancelExecutionsInOrder, KillRuntimeInOrder DEF Handle
  <2>3. ASSUME NEW u \in Users, NEW a \in Approvals, NEW d \in Decisions, Decide(u, a, d)
        PROVE  InOrder'
    <3>1. \A r \in Requests : Free(r)
      BY <2>1, <2>3 DEF Decide, Interrupted
    <3> QED BY <1>1, <2>1, <2>3, <3>1, DecideInOrder
  <2>4. CASE Restart
    <3>1. restarts' # restarts
      BY <1>1, <2>4 DEF Restart, TypeOK
    <3>2. \A r \in Requests : Free(r)
      BY <2>1, <3>1 DEF Interrupted
    <3> QED BY <1>1, <2>1, <2>4, <3>2, RestartInOrder
  <2> QED BY <1>1, <1>3, <2>1, <2>2, <2>3, <2>4, RestInOrder DEF MCNext, Next
<1> QED BY <1>2, <1>3

LEMMA InitSequence == MCInit => SequenceInv
<1> SUFFICES ASSUME MCInit PROVE SequenceInv
  OBVIOUS
<1>1. IInv
  BY InitIInv DEF MCInit
<1>2. Alone /\ \A r \in Requests : Begun(r)
  BY NoApprovalNew DEF MCInit, Init, Idle, Alone, Free, Begun, At
<1>3. StepShowsDecision /\ \A e \in Executions : Awaits(e)
  BY DEF MCInit, Init, StepShowsDecision, Awaits, NoExecution
<1> QED BY <1>1, <1>2, <1>3 DEF SequenceInv, InOrder

\* Without interruption every step shows the decision on its request.
\* (createApproval, decideApprovalV033Hotfix)
THEOREM StepsShow == MCSpec => []StepShowsDecisionInSequence
<1>1. SequenceInv => StepShowsDecisionInSequence
  BY DEF SequenceInv, InOrder, StepShowsDecisionInSequence
<1>2. SequenceInv /\ [MCNext]_<<vars, disturbed>> => SequenceInv'
  BY SequenceStep
<1> QED BY <1>1, <1>2, InitSequence, PTL DEF MCSpec

\* Without interruption no execution waits for a decision that was taken.
\* (createExecution, decideApprovalV033Hotfix)
THEOREM DecisionsReach == MCSpec => []DecisionReachesExecutionInSequence
<1>1. SequenceInv => DecisionReachesExecutionInSequence
  <2> SUFFICES ASSUME SequenceInv, ~disturbed, NEW e \in Executions,
                      execution[e].status = "waiting_approval"
               PROVE  approval[execution[e].approval].status = "pending"
    BY DEF DecisionReachesExecutionInSequence, DecisionReachesExecution
  <2>1. execution[e].approval \in Approvals
    BY DEF SequenceInv, InOrder, Awaits, IInv, TypeOK, ExecutionRow
  <2> QED BY <2>1 DEF SequenceInv, InOrder, Awaits
<1>2. SequenceInv /\ [MCNext]_<<vars, disturbed>> => SequenceInv'
  BY SequenceStep
<1> QED BY <1>1, <1>2, InitSequence, PTL DEF MCSpec
=============================================================================
