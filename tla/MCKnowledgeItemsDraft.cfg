CONSTANTS
  Items = {i1}
  Bodies = {b1, b2}
  NoBody = NoBody
  NoItem = NoItem
  Requests = {r1, r2}
  MaxVersion = 2
  MaxRestarts = 0
  MaxErrors = 0
SPECIFICATION MCSpec
INVARIANTS
  DraftRetained
