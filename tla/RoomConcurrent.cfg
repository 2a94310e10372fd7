SPECIFICATION Spec
CONSTANTS
  r1 = r1
  u1 = u1
  u2 = u2
  u3 = u3
  h1 = h1
  h2 = h2
  Nil = Nil
  Rooms <- OneRoom
  Users <- ThreeUsers
  Handlers <- TwoHandlers
  SeatCounts <- UpToTwoSeats
  Prices <- FreeOrPaid
  Faults <- StopsAndErrors
SYMMETRY Symmetry
INVARIANTS TypeOK OverbookingBounded ShareWithinRoom CompletedBeforeBilled ListedRidesAreNotOver
PROPERTIES ImplementsLedger
