---------------------------- MODULE MCRoomService ----------------------------
\* Constants and symmetry for model checking RoomService.
EXTENDS RoomService, TLC

CONSTANTS r1, u1, u2, u3, h1, h2

OneRoom     == {r1}
TwoUsers    == {u1, u2}
ThreeUsers  == {u1, u2, u3}
OneHandler  == {h1}
TwoHandlers == {h1, h2}

UpToTwoSeats == {0, 1, 2}
FreeOrPaid   == {0, 6}

NoFaults       == {}
StopsAndErrors == {"statement", "rpc", "crash"}
BrokenRows     == {"rows"}

Symmetry == Permutations(ThreeUsers) \cup Permutations(TwoHandlers)
=============================================================================
