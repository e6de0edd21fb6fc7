--------------------------- MODULE MCApprovalCenter ---------------------------
(* Instances of ApprovalCenter for TLC.                                        *)
EXTENDS ApprovalCenter, TLC

CONSTANTS u1, u2, p1

OwnedByFirst == (p1 :> u1)

\* Whether so far a request was interrupted between two of its statements, by
\* a step of somebody else, a refused statement or a restart.
VARIABLE disturbed

MCInit == Init /\ disturbed = FALSE

Interrupted == \E r \in Requests :
  ~Free(r) /\ (req'[r] = req[r] \/ restarts' # restarts \/ errors' # errors)

MCNext == Next /\ disturbed' = (disturbed \/ Interrupted)

MCSpec == MCInit /\ [][MCNext]_<<vars, disturbed>>

\* Without interruption every step shows the decision on its request
\* (createApproval inserts the step after the request, with its error discarded).
StepShowsDecisionInSequence == ~disturbed => StepShowsDecision

\* Without interruption no execution waits for a decision that was taken
\* (createExecution inserts the execution after its request).
DecisionReachesExecutionInSequence == ~disturbed => DecisionReachesExecution

Interchangeable ==
  Permutations(Requests) \cup Permutations(Approvals) \cup Permutations(Executions)
=============================================================================
