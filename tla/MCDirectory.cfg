CONSTANTS
  t1 = t1
  n1 = n1
  SeededUsers = {u1}
  SeededName <- Names1
  SeededDepartment = d1
  ro1 = ro1
  ro2 = ro2
  p1 = p1
  p2 = p2
  RoleIds = {ro1, ro2}
  Permissions = {p1, p2}
  UnknownCode = p0
  SeedGrants <- Grants
  SeedRevokes <- Revokes
  RoleRequests = {q1, q2}
  MaxRoleUpdates = 3
  MaxRoleErrors = 1
  MaxRoleRestarts = 1
  MaxPolicies = 3
  MaxBindings = 1
  MaxAssignments = 2
  RuntimeTemplates = {x1, x2}
  SeededTemplate = x1
  MaxRuntimeBindings = 2
  MaxDemotionErrors = 1
  Users = {u1, u2}
  Departments = {d1}
  Roles = {ro1}
  StandardRole = ro1
  Everyone = Everyone
  Templates = {t1, t2}
  Names = {n1, n2}
  None = None
  ProfRequests = {r1, r2}
  MaxRoleRows = 1
  MaxCalls = 3
  MaxProfRestarts = 1
SPECIFICATION MCSpec
SYMMETRY Sym
CHECK_DEADLOCK FALSE
INVARIANTS
  DirectoryTypeOK
  NoUnearnedProfile
  ProfilesFollowSourcesInSequence
  PermissionsAsAskedInSequence
  MostSpecificPolicyDecides
  BlockedSkillStaysOff
