\* Three workers and four connections, and six descriptors: for all workers' polls and
\* two connections with one to spare, or three connections and none.
SPECIFICATION FairSpec
CONSTANTS
  w1 = w1
  w2 = w2
  w3 = w3
  a = a
  b = b
  c = c
  d = d
  Threads <- ThreeThreads
  Conns <- FourConns
  NoOne = noone
  MaxFiles = 6
INVARIANTS
  TypeOK
  NoWakeUpLost
  StaysUp
PROPERTIES
  QueueServed
