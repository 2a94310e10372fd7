SPECIFICATION FairSpec
CONSTANTS
  r1 = r1
  u1 = u1
  u2 = u2
  u3 = u3
  h1 = h1
  h2 = h2
  Nil = Nil
  Rooms <- OneRoom
  Users <- TwoUsers
  Handlers <- TwoHandlers
  SeatCounts <- UpToTwoSeats
  Prices <- FreeOrPaid
  Faults <- BrokenRows
PROPERTIES CompletedRideIsBilled CompletedRideIsSaved
