---------------------------- MODULE MCRideSystem ----------------------------
\* Constants and symmetry for model checking RideSystem.
EXTENDS RideSystem, TLC

CONSTANTS r1, u1, u2, h1, h2, d1

OneRoom     == {r1}
TwoUsers    == {u1, u2}
TwoHandlers == {h1, h2}
OneCaller   == {d1}
InOrder     == {<<u1>>, <<u2>>, <<u1, u2>>}
TwoSeats    == {2}
FreeOrPaid  == {0, 101}
OneAmount   == {30}

Symmetry == Permutations(TwoHandlers)

\* The state but for what no step of the composition reads and no property speaks
\* of: without refunds the payments table is only written.
View == <<roomVars, userVars, between, charges, payPc, payCall, payTodo,
          [c \in Calls |-> payResult[c].status]>>
=============================================================================
