-------------------------- MODULE MCNodeExecution --------------------------
(* Values for the constants of NodeExecution on small instances.           *)
EXTENDS NodeExecution, TLC
CONSTANTS c1, c2, s1, s2, sx, sy
\* Each candidate trades a symbol of its own.
OwnSymbols == [c \in Cand |-> IF c = c1 THEN sx ELSE sy]
\* The two slots run the same loop and the code never compares them.
Interchangeable == Permutations(Slot)
=============================================================================
