\* A delete races a replacement.
SPECIFICATION Spec
CONSTANTS
  alice = alice
  r1 = r1
  r2 = r2
  png = png
  jpeg = jpeg
  t1 = t1
  t2 = t2
  Users <- OneUser
  Nil = nil
  Requests <- TwoRequests
  Exts <- TwoExts
  Texts <- OneText
  NoAvatar = none
SYMMETRY Symmetry
PROPERTY DeleteRemovesAvatar
