SPECIFICATION Spec
CONSTANTS
  r1 = r1
  u1 = u1
  u2 = u2
  h1 = h1
  h2 = h2
  Rooms <- OneRoom
  Users <- TwoUsers
  UserLists <- OnceOrTwice
  Handlers <- TwoHandlers
  Clients <- ClientKinds
  Faults <- OwnFaults
  MaxNamed = 3
PROPERTIES RefundedIsFinal
