\* A delete overtakes the create of the same split.
SPECIFICATION Spec
CONSTANTS
  alice = alice
  bob = bob
  nil = nil
  r1 = r1
  r2 = r2
  Users <- TwoUsers
  Nil = nil
  Requests <- TwoRequests
  Starts <- OneStart
  MaxSplits = 2
  MaxLen = 1
SYMMETRY Symmetry
PROPERTY DeletedSplitRefusesPosts
