SPECIFICATION Spec
CONSTANTS
  r1 = r1
  u1 = u1
  u2 = u2
  h1 = h1
  h2 = h2
  d1 = d1
  Nil = Nil
  Nobody = Nobody
  Rooms <- OneRoom
  Users <- TwoUsers
  Handlers <- TwoHandlers
  Callers <- OneCaller
  SeatCounts <- TwoSeats
  Prices <- FreeOrPaid
  DirectAmounts <- OneAmount
  UserLists <- InOrder
  MaxCalls = 2
  MaxNamed = 4
SYMMETRY Symmetry
VIEW View
INVARIANTS PriceIsCharged RidersAreCharged AmountsAreAsked RideIsInHistory
PROPERTIES ImplementsLedger
