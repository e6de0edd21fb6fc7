CONSTANTS
  Documents = {d1}
  Bodies = {b1, b2}
  NoBody = NoBody
  NoDocument = NoDocument
  Requests = {r1, r2, r3}
  MaxVersion = 3
  MaxRestarts = 1
  MaxErrors = 1
SPECIFICATION MCSpec
SYMMETRY Interchangeable
INVARIANTS
  TypeOK
  OnlyNewestIsDraft
  DocumentShowsNewestInSequence
  IndexShowsNewestInSequence
PROPERTIES
  PublishedVersionFrozenInSequence
