\* The split of the newest timer is deleted.
SPECIFICATION Spec
CONSTANTS
  alice = alice
  bob = bob
  nil = nil
  r1 = r1
  r2 = r2
  Users <- TwoUsers
  Nil = nil
  Requests <- TwoRequests
  Starts <- TwoStarts
  MaxSplits = 2
  MaxLen = 1
SYMMETRY Symmetry
PROPERTY LatestIsNewest
