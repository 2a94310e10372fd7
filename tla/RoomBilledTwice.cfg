SPECIFICATION Spec
CONSTANTS
  r1 = r1
  u1 = u1
  u2 = u2
  u3 = u3
  h1 = h1
  h2 = h2
  Nil = Nil
  Rooms <- OneRoom
  Users <- TwoUsers
  Handlers <- OneHandler
  SeatCounts <- UpToTwoSeats
  Prices <- FreeOrPaid
  Faults <- NoFaults
INVARIANTS RideBilledOnce
