---------------------------- MODULE MCAdmission -----------------------------
\* Instances of Admission: two addresses of one class that share a slot of the tables, and a
\* gateway of no class.
EXTENDS Admission, TLC
CONSTANTS a, b, gw
MCAddr == {a, b, gw}
MCClassOf == [x \in MCAddr |-> IF x = gw THEN None ELSE "home"]
MCCaps == {[c \in {"home"} |-> n] : n \in {1, 2}}
MCClassPerIp == [c \in {"home"} |-> 1]
MCSlot == [x \in MCAddr |-> IF x = gw THEN 2 ELSE 1]
Symmetry == Permutations({a, b})
=============================================================================
