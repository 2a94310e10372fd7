---------------------------- MODULE MCApiGateway ----------------------------
\* Constants for model checking ApiGateway.
EXTENDS ApiGateway

CONSTANTS c1, c2, u1, u2

TwoRequests == {c1, c2}
TwoUsers    == {u1, u2}
AllTroubles == TroubleKinds
AllServices == {"user", "room", "payment"}
NoServices  == {}
NoTroubles  == {}
KillsOnly   == {"kill"}
NoFaults    == {}
=============================================================================
