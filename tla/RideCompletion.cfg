SPECIFICATION FairSpec
CONSTANTS
  c1 = c1
  c2 = c2
  u1 = u1
  u2 = u2
  Nobody = Nobody
  Calls <- TwoRequests
  Users <- TwoUsers
  EnvSecret = env
  FileSecret = file
  DefaultSecret = default
  TTL = 2
  MaxTime = 1
  Troubles <- NoTroubles
  Bundled <- AllServices
  Extended <- NoServices
  Faults <- NoFaults
  MaxFaults = 0
PROPERTIES RidesCanBeCompleted
CHECK_DEADLOCK FALSE
