\* One split to create, at most two timers each, one start time.
SPECIFICATION Spec
CONSTANTS
  alice = alice
  bob = bob
  nil = nil
  r1 = r1
  r2 = r2
  Users <- TwoUsers
  Nil = nil
  Requests <- TwoRequests
  Starts <- OneStart
  MaxSplits = 2
  MaxLen = 2
SYMMETRY Symmetry
INVARIANTS
  TypeOK
  TimersLiveOrDieTogether
  ListedWhole
  PostedOnce
PROPERTIES
  OnlyOwnersWrite
  RowsOnlyMoveForward
