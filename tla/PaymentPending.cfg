SPECIFICATION Spec
CONSTANTS
  r1 = r1
  u1 = u1
  u2 = u2
  h1 = h1
  h2 = h2
  Rooms <- OneRoom
  Users <- TwoUsers
  UserLists <- OneUserEach
  Handlers <- OneHandler
  Clients <- WithCredentials
  Faults <- NoFaults
  MaxNamed = 1
INVARIANTS RefundReachesEveryone
