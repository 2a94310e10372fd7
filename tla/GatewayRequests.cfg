SPECIFICATION FairSpec
CONSTANTS
  c1 = c1
  c2 = c2
  u1 = u1
  u2 = u2
  Nobody = Nobody
  Calls <- TwoRequests
  Users <- TwoUsers
  EnvSecret = env
  FileSecret = file
  DefaultSecret = default
  TTL = 1
  MaxTime = 1
  Troubles <- AllTroubles
  Bundled <- AllServices
  Extended <- NoServices
  Faults <- KillsOnly
  MaxFaults = 1
INVARIANTS TypeOK OkIsDone RefusedIsUntouched ActsForCaller RunsOnce TokensAreAccepted
PROPERTIES EveryRequestIsAnswered
CHECK_DEADLOCK FALSE
