\* Two requests of two users, or of nobody, take turns on one connection.
SPECIFICATION TagsFairSpec
CONSTANTS
  c1 = c1
  r1 = r1
  r2 = r2
  u1 = u1
  u2 = u2
  n1 = n1
  n2 = n2
  Conns <- OneConn
  Requests <- TwoRequests
  Users <- TwoUsers
  Nil = nil
  NoConn = noconn
  Names <- TwoNames
  MaxTags = 2
INVARIANTS
  SessionMatchesRequest
  HeldByOneRequest
  TagsTypeOK
PROPERTIES
  SetupEnds
  OnlyOwnersWrite
  ImplementsTagStore
