SPECIFICATION Spec
CONSTANTS
  r1 = r1
  u1 = u1
  u2 = u2
  h1 = h1
  h2 = h2
  Rooms <- OneRoom
  Users <- TwoUsers
  UserLists <- OneOrTwo
  Handlers <- TwoHandlers
  Clients <- Production
  Faults <- WholeReads
  MaxNamed = 3
SYMMETRY Symmetry
INVARIANTS TypeOK NoDoubleCharge RecordsAreTrue SuccessIsRecorded
PROPERTIES ImplementsLedger
