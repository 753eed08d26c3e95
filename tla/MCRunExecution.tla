--------------------------- MODULE MCRunExecution ---------------------------
(* Instances of RunExecution for TLC. *)
EXTENDS RunExecution, TLC

CONSTANTS t1, t2, s1, s2, w1, w2

(* A task for each run, or one for both; one session for both tasks, or one *)
(* for each.                                                                *)
OwnTask  == [r \in Runs |-> IF r = 1 THEN t1 ELSE t2]
SameTask == [r \in Runs |-> t1]
SameSession == [t \in {t1, t2} |-> s1]
OwnSession  == [t \in {t1, t2} |-> IF t = t1 THEN s1 ELSE s2]

(* Executors are interchangeable; not used with liveness. *)
Executors == Permutations(Workers)
=============================================================================
