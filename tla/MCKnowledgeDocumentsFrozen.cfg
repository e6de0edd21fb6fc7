CONSTANTS
  Documents = {d1}
  Bodies = {b1, b2}
  NoBody = NoBody
  NoDocument = NoDocument
  Requests = {r1, r2}
  MaxVersion = 1
  MaxRestarts = 0
  MaxErrors = 0
SPECIFICATION MCSpec
PROPERTIES
  PublishedVersionFrozen
