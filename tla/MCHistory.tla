------------------------------ MODULE MCHistory -----------------------------
\* Instances of History.
EXTENDS History
CONSTANTS u, w

\* Rings that grow, wrap and are read; and read markers with little else going on.
Reading == [accounts |-> {}, sizes |-> {0, 2, 3}, msgs |-> 4, redacts |-> 1, rare |-> 2]
Marking == [accounts |-> {u, w}, sizes |-> {1}, msgs |-> 1, redacts |-> 0, rare |-> 6]
Both == {Reading, Marking}
Symmetry == Permutations(Chans)
=============================================================================
