SPECIFICATION FairSpec
CONSTANTS
  c1 = c1
  c2 = c2
  Calls <- TwoCalls
  Bundled <- AllServices
  Extended <- RoomOnly
  Faults <- AllFaults
  MaxFaults = 3
INVARIANTS TypeOK HandlersAreBacked
PROPERTIES StopsLoseNoCall ServesAgain
CHECK_DEADLOCK FALSE
