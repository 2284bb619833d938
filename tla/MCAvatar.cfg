\* Two requests of one user, at once or in turn, and uploads at any time.
SPECIFICATION Spec
CONSTANTS
  alice = alice
  r1 = r1
  r2 = r2
  png = png
  jpeg = jpeg
  t1 = t1
  t2 = t2
  Users <- OneUser
  Nil = nil
  Requests <- TwoRequests
  Exts <- TwoExts
  Texts <- TwoTexts
  NoAvatar = none
SYMMETRY Symmetry
INVARIANTS
  NoOrphan
PROPERTIES
  NoLostUpdate
  DeleteLeavesNothing
