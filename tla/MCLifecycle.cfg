\* Two instances of the timekeeper and one of the user service.
SPECIFICATION LifeFairSpec
CONSTANTS
  timekeeper = timekeeper
  user = user
  t1 = t1
  t2 = t2
  u1 = u1
  Services <- TwoServices
  Setup = setup
  UidService = user
  Instances <- ThreeInstances
  ServiceOf <- Containers
  Nobody = nobody
  MaxFails = 2
  Exporters <- BothExporters
  MaxOpen = 1
  MaxStops = 2
INVARIANTS
  LifecycleOK
  RunsOnce
  ServesMigrated
  StopsCleanly
PROPERTY ComesUp
\* Instances that serve do nothing more.
CHECK_DEADLOCK FALSE
