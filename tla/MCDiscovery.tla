------------------------------- MODULE MCDiscovery ------------------------------
EXTENDS Discovery, TLC
CONSTANTS c1, c2, k1, v1, v2, r1, r2
Symmetry == Permutations({c1, c2}) \cup Permutations({r1, r2}) \cup Permutations({v1, v2})
===============================================================================
