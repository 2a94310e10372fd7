---------------------------- MODULE MCUserService ----------------------------
\* Constants for model checking UserService.
EXTENDS UserService

CONSTANTS r1, r2, u1, u2, e1, p1, p2, h1, h2

TwoRooms     == {r1, r2}
TwoUsers     == {u1, u2}
NoneToTwo    == {<<>>, <<u1>>, <<u1, u2>>}
OneAddress   == {e1}
TwoPasswords == {p1, p2}
TwoHandlers  == {h1, h2}
AllFaults    == FaultKinds
=============================================================================
