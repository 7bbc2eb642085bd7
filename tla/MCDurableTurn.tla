--------------------------- MODULE MCDurableTurn ---------------------------
\* Model values and symmetry for the runs of DurableTurn.
EXTENDS DurableTurn, TLC

CONSTANTS d1, d2, c1, c2

OneDriver == {d1}
TwoDrivers == {d1, d2}
OneCall == {c1}
TwoCalls == {c1, c2}

Symmetry == Permutations(Drivers) \cup Permutations(CallIds)
=============================================================================
