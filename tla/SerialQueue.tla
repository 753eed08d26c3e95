----------------------------- MODULE SerialQueue -----------------------------
(***************************************************************************)
(* What the scheduled-task queue promises, without leases, clocks or       *)
(* processes: each session serves its runs one at a time, a run that ended *)
(* stays ended, and a run whose service was cut off is never served again, *)
(* only given up.                                                          *)
(***************************************************************************)
CONSTANTS Runs, Sessions,
          HomeOf,      \* the session of each run
          Nobody

VARIABLES status,      \* where each run is in its life
          serving      \* the run each session is serving

Init ==
    /\ status = [r \in Runs |-> "absent"]
    /\ serving = [s \in Sessions |-> Nobody]

(* Runs of R go to status x. *)
Move(R, x) == status' = [r \in Runs |-> IF r \in R THEN x ELSE status[r]]

Enqueue(r) ==
    /\ status[r] = "absent"
    /\ Move({r}, "queued")
    /\ UNCHANGED serving

Serve(r) ==
    /\ status[r] = "queued"
    /\ serving[HomeOf[r]] = Nobody
    /\ Move({r}, "active")
    /\ serving' = [serving EXCEPT ![HomeOf[r]] = r]

(* A served run ends, or goes back to wait for another attempt. *)
Conclude(s, x) ==
    /\ serving[s] # Nobody
    /\ x \in {"ended", "queued"}
    /\ Move({serving[s]}, x)
    /\ serving' = [serving EXCEPT ![s] = Nobody]

(* Whoever served the run is gone. *)
Abandon(s) ==
    /\ serving[s] # Nobody
    /\ serving' = [serving EXCEPT ![s] = Nobody]
    /\ UNCHANGED status

(* Runs that wait are cancelled or have waited for too long. *)
Withdraw(R) ==
    /\ \A r \in R : status[r] = "queued"
    /\ Move(R, "ended")
    /\ UNCHANGED serving

(* Runs that were abandoned are given up. *)
GiveUp(R) ==
    /\ \A r \in R : status[r] = "active" /\ \A s \in Sessions : serving[s] # r
    /\ Move(R, "ended")
    /\ UNCHANGED serving

Next ==
    \/ \E r \in Runs : Enqueue(r) \/ Serve(r)
    \/ \E s \in Sessions : Abandon(s) \/ \E x \in {"ended", "queued"} : Conclude(s, x)
    \/ \E R \in SUBSET Runs : Withdraw(R) \/ GiveUp(R)

Spec == Init /\ [][Next]_<<status, serving>>
=============================================================================
