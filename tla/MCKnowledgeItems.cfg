CONSTANTS
  Items = {i1}
  Bodies = {b1, b2}
  NoBody = NoBody
  NoItem = NoItem
  Requests = {r1, r2}
  MaxVersion = 3
  MaxRestarts = 1
  MaxErrors = 1
SPECIFICATION MCSpec
SYMMETRY Interchangeable
INVARIANTS
  TypeOK
  IndexedWasReleased
  ItemShowsItsVersionInSequence
  IndexShowsItemInSequence
PROPERTIES
  ImplementsHistory
