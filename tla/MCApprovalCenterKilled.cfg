CONSTANTS
  u1 = u1
  u2 = u2
  p1 = p1
  Approvals = {a1, a2}
  NoApproval = NoApproval
  Executions = {e1, e2}
  Users = {u1, u2}
  NoUser = NoUser
  Runtimes = {t1}
  NoRuntime = NoRuntime
  Places = {p1}
  NoPlace = NoPlace
  Owner <- OwnedByFirst
  Requests = {r1, r2}
  MaxRestarts = 0
  MaxErrors = 0
SPECIFICATION MCSpec
PROPERTIES
  KilledRuntimeDoesNoWork
