------------------------------ MODULE MCCodeRun ------------------------------
(* Instances of CodeRun for TLC. *)
EXTENDS CodeRun, TLC

CONSTANTS r1, r2, r3, s1, s2

OneSession  == [r \in Runs |-> s1]
TwoSessions == [r \in Runs |-> IF r = r1 THEN s1 ELSE s2]

Symmetry == Permutations(Runs)
=============================================================================
