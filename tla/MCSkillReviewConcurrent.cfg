CONSTANTS
  k1 = k1
  v1 = v1
  v2 = v2
  s1 = s1
  s2 = s2
  r1 = r1
  r2 = r2
  sec = sec
  sys = sys
  c1 = c1
  SeedText = SeedText
  Gone = Gone
  NoRole = NoRole
  NoVersion = NoVersion
  Skills = {k1}
  Versions = {v1, v2}
  SkillOf <- TwoVersions
  Seeded = {}
  Contents = {c1}
  Workflows = {1}
  StepLists <- LongList
  Submissions = {s1, s2}
  Requests = {r1, r2}
  SubmitSchema = TRUE
  StaffedRoles = {sec, sys}
  Roles = {sec, sys}
  MaxFiles = 2
  MaxRestarts = 1
  MaxErrors = 1
  MaxFaults = 1
SPECIFICATION MCSpec
SYMMETRY InterchangeableVersions
INVARIANTS
  TypeOK
  ReviewInOrder
  OutcomeMatchesSteps
  
  PublishedWasReviewed
  PublishedSkillHasVersion
  
PROPERTIES
  DecisionsFinal
  PublishedContentFrozenInSequence
