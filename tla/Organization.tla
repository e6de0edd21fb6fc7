----------------------------- MODULE Organization -----------------------------
(* Who belongs to the organization, shared by the modules that model what the *)
(* administration assigns to its members.                                     *)
CONSTANTS
  Users, Departments, Roles,
  Everyone,        \* the organization itself as a target
  None             \* no row, no department, nothing to remember

\* A row says which kind of target it names.
ASSUME KindsOfTargets ==
  /\ Users \cap Departments = {} /\ Users \cap Roles = {} /\ Departments \cap Roles = {}
  /\ {Everyone, None} \cap (Users \cup Departments \cup Roles) = {} /\ Everyone # None

\* What a template, a policy or a binding can be assigned to.
Sources == {Everyone} \cup Departments \cup Roles \cup Users
=============================================================================
