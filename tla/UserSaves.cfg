SPECIFICATION FairSpec
CONSTANTS
  r1 = r1
  r2 = r2
  u1 = u1
  u2 = u2
  e1 = e1
  p1 = p1
  p2 = p2
  h1 = h1
  h2 = h2
  Nobody = Nobody
  Rooms <- TwoRooms
  Users <- TwoUsers
  UserLists <- NoneToTwo
  Emails <- OneAddress
  Passwords <- TwoPasswords
  Handlers <- TwoHandlers
  Faults <- AllFaults
  MaxSaves = 3
INVARIANTS TypeOK RouteIsWhole AnsweredIsSaved CredentialsWork
PROPERTIES SavesEnd
