--------------------------------- MODULE MCChat ---------------------------------
EXTENDS Chat, TLC
CONSTANTS m1, m2, m3, r1, r2, s1, s2
Symmetry == Permutations({r1, r2}) \cup Permutations({s1, s2})
MCAuthor == m1 :> "customer" @@ m2 :> "companion" @@ m3 :> "staff"
===============================================================================
