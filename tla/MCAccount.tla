-------------------------------- MODULE MCAccount -------------------------------
EXTENDS Account, TLC
CONSTANTS c1, c2, p1, p2, p3, r1, r2
Symmetry == Permutations({r1, r2})
===============================================================================
