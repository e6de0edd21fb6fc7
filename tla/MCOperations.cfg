CONSTANTS
  Runtimes = {r1, r2}
  Hosts = {h1, h2}
  SeededRuntimes = {r1}
  DemoHost = h1
  RuntimeRequests = {q1, q2}
  Nothing = Nothing
  MaxRuntimeCalls = 3
  MaxRuntimeRestarts = 1
  ChatRequests = {q1, q2}
  Nobody = Nobody
  MaxMessages = 6
  Titles = {a}
  Untitled = Untitled
  MaxItems = 2
  ImportRequests = {q1, q2}
  MaxImports = 2
  MaxInsertErrors = 1
  Migrations <- Files3
  MaxBoots = 3
SPECIFICATION MCSpec
CHECK_DEADLOCK FALSE
INVARIANTS
  OperationsTypeOK
  RuntimesAgreeInSequence
  OneCandidateInContext
  ImportAccountsForRows
  RecordedMigrationIsComplete
