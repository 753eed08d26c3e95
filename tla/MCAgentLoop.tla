---------------------------- MODULE MCAgentLoop ----------------------------
(* Instances of AgentLoop for TLC. *)
EXTENDS AgentLoop, TLC

CONSTANTS r1, r2, a1, a2

FailLimits == [k \in Failures |-> IF k = "transport" THEN 2 ELSE 1]

Budgets == [r \in Runs |-> IF r = r1 THEN 2 ELSE 1]

Symmetry == Permutations(Actions)
=============================================================================
