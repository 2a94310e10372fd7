-------------------------- MODULE MCPaymentService --------------------------
\* Constants and symmetry for model checking PaymentService.
EXTENDS PaymentService, TLC

CONSTANTS r1, u1, u2, h1, h2

OneRoom     == {r1}
TwoUsers    == {u1, u2}
OneHandler  == {h1}
TwoHandlers == {h1, h2}

OneUserEach  == {<<u1>>, <<u2>>}
OneOrTwo     == {<<u1>>, <<u1, u2>>}
OnceOrTwice  == {<<u1>>, <<u1, u1>>}

Production      == {"configured", "nil_pointer"}
WithCredentials == {"configured"}

NoFaults   == {}
WholeReads == FaultKinds \ {"rows"}
OwnFaults  == {"statement", "rows", "crash"}

Symmetry == Permutations(TwoHandlers)
=============================================================================
