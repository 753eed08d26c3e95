---------------------------- MODULE RunExecution ----------------------------
(***************************************************************************)
(* How scheduled-task runs are executed.                                   *)
(*                                                                         *)
(* Rows of scheduled_task_runs wait as "pending".  Executor processes      *)
(* (workers/scheduled_tasks.py, run_executor_once) claim them under a      *)
(* lease on the run and a lease on the slot of the run's chat session,     *)
(* drive the session's Agent and write a verdict.  A scheduler process     *)
(* fails runs whose owner looks dead and runs that queued for too long.    *)
(* Users stop, disable and delete tasks and start runs by hand.            *)
(* Executors crash anywhere; a restarted one keeps its worker id, which is *)
(* the host name.                                                          *)
(*                                                                         *)
(* Every timestamp is only ever compared with the present, so it is kept   *)
(* as a distance from it: a deadline is the ticks left (0: reached), a     *)
(* past instant is its age, capped one past the bound it is compared with. *)
(***************************************************************************)
EXTENDS Integers, FiniteSets

CONSTANTS
    Runs,         \* run ids, numbered in the order (scheduled_for, id)
    Tasks,
    Sessions,
    Workers,      \* executor processes, by worker id
    TaskOf,       \* the task of each run
    SessionOf,    \* the chat session of each task
    Notifying,    \* tasks with notification_enabled and a channel
    NoRun, NoWorker,
    Lease,        \* DEFAULT_LEASE_DURATION        5 min
    StaleAfter,   \* HEALTH_STALE_AFTER            1 min
    ExecTimeout,  \* execution_timeout_seconds    10 min by default
    MaxQueueAge,  \* MAX_QUEUE_AGE                60 min
    MaxAttempts,  \* MAX_ATTEMPTS                  3
    RetryBase     \* RETRY_BASE_DELAY              1 min

(* The pause before the retry that follows the a-th failed attempt. *)
Backoff(a) == RetryBase * 2^(a - 1)

ASSUME RunsAssumption ==
    /\ Runs \subseteq Nat /\ NoRun \notin Runs
    /\ TaskOf \in [Runs -> Tasks]
    /\ SessionOf \in [Tasks -> Sessions]
    /\ Notifying \subseteq Tasks
    /\ NoWorker \notin Workers

ASSUME TimingAssumption ==
    /\ {Lease, StaleAfter, ExecTimeout, MaxQueueAge} \subseteq Nat \ {0}
    /\ MaxAttempts \in Nat \ {0}
    /\ \A a \in 1 .. MaxAttempts : Backoff(a) \in Nat

VARIABLES
    state,      \* ScheduledTaskRun.state, "none" for a row not yet created
    attempt,    \* .attempt
    delay,      \* .available_at, as ticks left
    age,        \* .queued_at, as an age
    cancel,     \* runs whose .cancel_requested_at is set
    message,    \* runs whose .chat_message_id is set
    owner,      \* .lease_owner
    leaseLeft,  \* .lease_expires_at, as ticks left
    slotRun,    \* ScheduledTaskSessionSlot.active_run_id
    slotLeft,   \* its lease_expires_at, as ticks left
    outbox,     \* inserts into ScheduledTaskNotificationDelivery, per run
    beat,       \* age of each executor's last heartbeat
    pc,         \* what each executor process is doing
    job,        \* the run it holds in memory
    elapsed,    \* ticks since it claimed that run
    verdict     \* runs a scheduler transaction read as stale, not yet committed

runVars  == <<state, attempt, delay, age, cancel, message, outbox>>
leaseVars == <<owner, leaseLeft, slotRun, slotLeft>>
procVars == <<beat, pc, job, elapsed>>
vars     == <<runVars, leaseVars, procVars, verdict>>

Terminal == {"succeeded", "failed", "cancelled"}
Busy     == {"claimed", "agent", "returned", "noprogress", "saved", "commit"}
Session(r) == SessionOf[TaskOf[r]]

TypeOK ==
    /\ state \in [Runs -> {"none", "pending", "running"} \cup Terminal]
    /\ attempt \in [Runs -> 0 .. MaxAttempts]
    /\ delay \in [Runs -> Nat]
    /\ age \in [Runs -> 0 .. MaxQueueAge + 1]
    /\ cancel \subseteq Runs
    /\ message \subseteq Runs
    /\ outbox \in [Runs -> Nat]
    /\ owner \in [Runs -> Workers \cup {NoWorker}]
    /\ leaseLeft \in [Runs -> 0 .. Lease]
    /\ slotRun \in [Sessions -> Runs \cup {NoRun}]
    /\ slotLeft \in [Sessions -> 0 .. Lease]
    /\ beat \in [Workers -> 0 .. StaleAfter + 1]
    /\ pc \in [Workers -> {"down", "idle", "poll"} \cup Busy]
    /\ job \in [Workers -> Runs \cup {NoRun}]
    /\ elapsed \in [Workers -> 0 .. ExecTimeout]
    /\ verdict \subseteq Runs

(* Empty tables; no executor has ever sent a heartbeat, which a missing row *)
(* and a stale one both make unhealthy.                                     *)
Init ==
    /\ state = [r \in Runs |-> "none"]
    /\ attempt = [r \in Runs |-> 0]
    /\ delay = [r \in Runs |-> 0]
    /\ age = [r \in Runs |-> 0]
    /\ cancel = {}
    /\ message = {}
    /\ outbox = [r \in Runs |-> 0]
    /\ owner = [r \in Runs |-> NoWorker]
    /\ leaseLeft = [r \in Runs |-> 0]
    /\ slotRun = [s \in Sessions |-> NoRun]
    /\ slotLeft = [s \in Sessions |-> 0]
    /\ beat = [w \in Workers |-> StaleAfter + 1]
    /\ pc = [w \in Workers |-> "idle"]
    /\ job = [w \in Workers |-> NoRun]
    /\ elapsed = [w \in Workers |-> 0]
    /\ verdict = {}

-----------------------------------------------------------------------------
(* Time.  wait_for interrupts the Agent at ExecTimeout, and what an executor *)
(* does before and after the Agent is a few database calls, so no run is     *)
(* held for longer than that.                                                *)

Less(n)      == IF n > 0 THEN n - 1 ELSE 0
More(n, cap) == IF n < cap THEN n + 1 ELSE n

Tick ==
    /\ \A w \in Workers : pc[w] \in Busy => elapsed[w] < ExecTimeout
    /\ delay' = [r \in Runs |-> Less(delay[r])]
    /\ age' = [r \in Runs |-> IF state[r] = "none" THEN age[r]
                              ELSE More(age[r], MaxQueueAge + 1)]
    /\ leaseLeft' = [r \in Runs |-> Less(leaseLeft[r])]
    /\ slotLeft' = [s \in Sessions |-> Less(slotLeft[s])]
    /\ beat' = [w \in Workers |-> More(beat[w], StaleAfter + 1)]
    /\ elapsed' = [w \in Workers |-> IF pc[w] \in Busy THEN elapsed[w] + 1
                                     ELSE elapsed[w]]
    /\ UNCHANGED <<state, attempt, cancel, message, outbox, owner, slotRun,
                   pc, job, verdict>>

-----------------------------------------------------------------------------
(* Requests of users. *)

(* create_manual_run: enters the queue of every other run, without asking  *)
(* whether the task is enabled or its session busy.                        *)
CreateRun(r) ==
    /\ state[r] = "none"
    /\ state' = [state EXCEPT ![r] = "pending"]
    /\ UNCHANGED <<attempt, delay, age, cancel, message, outbox, leaseVars,
                   procVars, verdict>>

(* retry_failed_run: a failed run is never restarted, a new one is created. *)
RetryFailedRun(r, new) ==
    /\ state[r] = "failed"
    /\ TaskOf[new] = TaskOf[r]
    /\ CreateRun(new)

RunsIn(t, s) == {r \in Runs : TaskOf[r] = t /\ state[r] = s}

(* soft_delete_task, and update_task with enabled = False. *)
CancelUnstartedRuns(t) ==
    /\ RunsIn(t, "pending") # {}
    /\ state' = [r \in Runs |-> IF r \in RunsIn(t, "pending") THEN "cancelled"
                                ELSE state[r]]
    /\ UNCHANGED <<attempt, delay, age, cancel, message, outbox, leaseVars,
                   procVars, verdict>>

(* request_stop_task: pending runs end, running ones are asked to. *)
RequestStopTask(t) ==
    /\ RunsIn(t, "pending") \cup RunsIn(t, "running") # {}
    /\ state' = [r \in Runs |-> IF r \in RunsIn(t, "pending") THEN "cancelled"
                                ELSE state[r]]
    /\ cancel' = cancel \cup RunsIn(t, "running")
    /\ UNCHANGED <<attempt, delay, age, message, outbox, leaseVars, procVars,
                   verdict>>

-----------------------------------------------------------------------------
(* The executor: run_executor_once. *)

Heartbeat(w) ==
    /\ pc[w] = "idle"
    /\ beat' = [beat EXCEPT ![w] = 0]
    /\ pc' = [pc EXCEPT ![w] = "poll"]
    /\ UNCHANGED <<runVars, leaseVars, job, elapsed, verdict>>

(* Mutant: running runs are claimed again. *)
ClaimableAgain == {r \in Runs : state[r] \in {"pending", "running"} /\ delay[r] = 0}

Claimable == {r \in Runs : state[r] = "pending" /\ delay[r] = 0}

(* A claim looks at one run: the first by (scheduled_for, id) that no other  *)
(* claim has locked (with_for_update(skip_locked) on PostgreSQL).           *)
OtherClaims(w) == Cardinality({v \in Workers \ {w} : pc[v] = "poll"})

IsCandidate(w, r) ==
    /\ r \in Claimable
    /\ Cardinality({q \in Claimable : q < r}) <= OtherClaims(w)

(* Mutant: the lease of the slot is not looked at. *)
SlotOpenAnyway(s, r) == s \in Sessions /\ r \in Runs

(* A slot is taken when it is free, expired, or already this run's. *)
SlotOpen(s, r) == slotRun[s] = r \/ slotLeft[s] = 0

ClaimRun(w, r) ==
    /\ pc[w] = "poll"
    /\ IsCandidate(w, r)
    /\ SlotOpen(Session(r), r)
    /\ state' = [state EXCEPT ![r] = "running"]
    /\ owner' = [owner EXCEPT ![r] = w]
    /\ leaseLeft' = [leaseLeft EXCEPT ![r] = Lease]
    /\ slotRun' = [slotRun EXCEPT ![Session(r)] = r]
    /\ slotLeft' = [slotLeft EXCEPT ![Session(r)] = Lease]
    /\ pc' = [pc EXCEPT ![w] = "claimed"]
    /\ job' = [job EXCEPT ![w] = r]
    /\ elapsed' = [elapsed EXCEPT ![w] = 0]
    /\ UNCHANGED <<attempt, delay, age, cancel, message, outbox, beat, verdict>>

(* Nothing to claim, everything locked by others, or the candidate's session *)
(* is taken: no other run is tried before the next poll.                    *)
ClaimNothing(w) ==
    /\ pc[w] = "poll"
    /\ \/ Cardinality(Claimable) <= OtherClaims(w)
       \/ \E r \in Runs : IsCandidate(w, r) /\ ~SlotOpen(Session(r), r)
    /\ pc' = [pc EXCEPT ![w] = "idle"]
    /\ UNCHANGED <<runVars, leaseVars, beat, job, elapsed, verdict>>

(* Mutant: the slot's lease is ended but active_run_id is kept. *)
SlotReleaseKeepsRun(rs) ==
    /\ slotRun' = slotRun
    /\ slotLeft' = [s \in Sessions |-> IF slotRun[s] \in rs THEN 0 ELSE slotLeft[s]]

(* What every verdict shares: the run's lease is cleared, its slot is      *)
(* released unless another run has taken it, and the executor polls again. *)
SlotRelease(rs) ==
    /\ slotRun' = [s \in Sessions |-> IF slotRun[s] \in rs THEN NoRun ELSE slotRun[s]]
    /\ slotLeft' = [s \in Sessions |-> IF slotRun[s] \in rs THEN 0 ELSE slotLeft[s]]

Settle(w, verdictState) ==
    /\ state' = [state EXCEPT ![job[w]] = verdictState]
    /\ owner' = [owner EXCEPT ![job[w]] = NoWorker]
    /\ leaseLeft' = [leaseLeft EXCEPT ![job[w]] = 0]
    /\ SlotRelease({job[w]})
    /\ pc' = [pc EXCEPT ![w] = "idle"]
    /\ job' = [job EXCEPT ![w] = NoRun]
    /\ elapsed' = [elapsed EXCEPT ![w] = 0]
    /\ UNCHANGED <<age, cancel, beat, verdict>>

(* Mutant: one retry too many. *)
RetriesOnceMore(w, transient) ==
    LET a     == attempt[job[w]] + 1
        again == transient /\ a <= MaxAttempts
    IN  /\ attempt' = [attempt EXCEPT ![job[w]] = a]
        /\ delay' = IF again THEN [delay EXCEPT ![job[w]] = Backoff(a)] ELSE delay
        /\ Settle(w, IF again THEN "pending" ELSE "failed")
        /\ UNCHANGED <<message, outbox>>

(* finish_run_failure: a transient error is retried after a growing pause  *)
(* until MaxAttempts attempts have failed.                                 *)
FinishRunFailure(w, transient) ==
    LET a     == attempt[job[w]] + 1
        again == transient /\ a < MaxAttempts
    IN  /\ attempt' = [attempt EXCEPT ![job[w]] = a]
        /\ delay' = IF again THEN [delay EXCEPT ![job[w]] = Backoff(a)] ELSE delay
        /\ Settle(w, IF again THEN "pending" ELSE "failed")
        /\ UNCHANGED <<message, outbox>>

FinishRunCancelled(w) ==
    /\ Settle(w, "cancelled")
    /\ UNCHANGED <<attempt, delay, outbox>>

Goto(w, label) ==
    /\ pc' = [pc EXCEPT ![w] = label]
    /\ UNCHANGED <<state, attempt, delay, age, cancel, outbox, leaseVars, beat,
                   job, elapsed, verdict>>

AlreadyFinalized(r) == r \in message \/ state[r] \in Terminal

(* execute_claimed_run up to the call of run_agent.  A task or agent that   *)
(* is gone, or an empty prompt, may fail a run that passed the other checks. *)
RefuseRun(w) ==
    /\ pc[w] = "claimed"
    /\ AlreadyFinalized(job[w]) \/ job[w] \notin cancel
    /\ FinishRunFailure(w, FALSE)

CancelBeforeAgent(w) ==
    /\ pc[w] = "claimed"
    /\ ~AlreadyFinalized(job[w]) /\ job[w] \in cancel
    /\ FinishRunCancelled(w)
    /\ UNCHANGED message

StartAgent(w) ==
    /\ pc[w] = "claimed"
    /\ ~AlreadyFinalized(job[w]) /\ job[w] \notin cancel
    /\ Goto(w, "agent")
    /\ UNCHANGED message

(* run_agent raises, with an error is_transient_error accepts or not. *)
AgentRaises(w, transient) ==
    /\ pc[w] = "agent"
    /\ FinishRunFailure(w, transient)

(* ScheduledTaskTimeout is never transient. *)
AgentTimesOut(w) ==
    /\ pc[w] = "agent"
    /\ elapsed[w] >= ExecTimeout
    /\ FinishRunFailure(w, FALSE)

(* run_agent returns, by itself or because the watcher stopped the chat; a *)
(* stop request is looked for once more.                                   *)
AgentCancelled(w) ==
    /\ pc[w] = "agent"
    /\ job[w] \in cancel
    /\ FinishRunCancelled(w)
    /\ UNCHANGED message

AgentReturns(w) ==
    /\ pc[w] = "agent"
    /\ job[w] \notin cancel
    /\ Goto(w, "returned")
    /\ UNCHANGED message

(* An empty reply, or no message of this run in the session. *)
BindFails(w) ==
    /\ pc[w] = "returned"
    /\ FinishRunFailure(w, FALSE)

(* bind_run_message.  After a forced stop the rewritten message is committed *)
(* before the verdict; otherwise the binding waits for the verdict's commit. *)
BindMessage(w, forcedStop) ==
    /\ pc[w] = "returned"
    /\ message' = IF forcedStop THEN message \cup {job[w]} ELSE message
    /\ Goto(w, "saved")

BindNoProgress(w) ==
    /\ pc[w] = "returned"
    /\ message' = message \cup {job[w]}
    /\ Goto(w, "noprogress")

FailNoProgress(w) ==
    /\ pc[w] = "noprogress"
    /\ FinishRunFailure(w, FALSE)

(* finish_run_success: cancel_requested_at is read again, then the verdict *)
(* is written in a later statement.                                        *)
SuccessFindsCancel(w) ==
    /\ pc[w] = "saved"
    /\ job[w] \in cancel
    /\ message' = message \cup {job[w]}
    /\ FinishRunCancelled(w)

SuccessChecksCancel(w) ==
    /\ pc[w] = "saved"
    /\ job[w] \notin cancel
    /\ Goto(w, "commit")
    /\ UNCHANGED message

CommitSuccess(w) ==
    /\ pc[w] = "commit"
    /\ message' = message \cup {job[w]}
    /\ outbox' = IF TaskOf[job[w]] \in Notifying
                 THEN [outbox EXCEPT ![job[w]] = @ + 1] ELSE outbox
    /\ Settle(w, "succeeded")
    /\ UNCHANGED <<attempt, delay>>

Crash(w) ==
    /\ pc[w] # "down"
    /\ pc' = [pc EXCEPT ![w] = "down"]
    /\ job' = [job EXCEPT ![w] = NoRun]
    /\ elapsed' = [elapsed EXCEPT ![w] = 0]
    /\ UNCHANGED <<runVars, leaseVars, beat, verdict>>

Restart(w) ==
    /\ pc[w] = "down"
    /\ pc' = [pc EXCEPT ![w] = "idle"]
    /\ UNCHANGED <<runVars, leaseVars, beat, job, elapsed, verdict>>

-----------------------------------------------------------------------------
(* The scheduler's clean-up: run_scheduler_pass without create_due_runs.   *)

(* Mutant: a worker with a heartbeat is healthy however old that is. *)
WorkerIsUnknown(w) == w = NoWorker

WorkerIsUnhealthy(w) == w = NoWorker \/ beat[w] > StaleAfter

(* Mutant: the lease of the run is not looked at. *)
StaleDespiteLease == {r \in Runs : /\ state[r] = "running"
                                   /\ owner[r] # NoWorker
                                   /\ WorkerIsUnhealthy(owner[r])}

Stale == {r \in Runs : /\ state[r] = "running"
                       /\ owner[r] # NoWorker
                       /\ leaseLeft[r] = 0
                       /\ WorkerIsUnhealthy(owner[r])}

(* finalize_stale_running_runs reads the rows and the heartbeats first ...  *)
ReadStale ==
    /\ verdict = {} /\ Stale # {}
    /\ verdict' = Stale
    /\ UNCHANGED <<runVars, leaseVars, procVars>>

(* Mutant: the lease columns of the run are not cleared. *)
FinalizeKeepsLease ==
    /\ verdict # {}
    /\ state' = [r \in Runs |-> IF r \in verdict THEN "failed" ELSE state[r]]
    /\ SlotRelease(verdict)
    /\ verdict' = {}
    /\ UNCHANGED <<attempt, delay, age, cancel, message, outbox, owner, leaseLeft, procVars>>

(* Mutant: stale runs are queued again instead of failed. *)
FinalizeRequeues ==
    /\ verdict # {}
    /\ state' = [r \in Runs |-> IF r \in verdict THEN "pending" ELSE state[r]]
    /\ owner' = [r \in Runs |-> IF r \in verdict THEN NoWorker ELSE owner[r]]
    /\ leaseLeft' = [r \in Runs |-> IF r \in verdict THEN 0 ELSE leaseLeft[r]]
    /\ SlotRelease(verdict)
    /\ verdict' = {}
    /\ UNCHANGED <<attempt, delay, age, cancel, message, outbox, procVars>>

(* ... and commits its verdicts by run id, whatever became of the runs.  A   *)
(* scheduler that dies in between has written nothing, which is a pass that *)
(* read nothing.                                                            *)
FinalizeStale ==
    /\ verdict # {}
    /\ state' = [r \in Runs |-> IF r \in verdict THEN "failed" ELSE state[r]]
    /\ owner' = [r \in Runs |-> IF r \in verdict THEN NoWorker ELSE owner[r]]
    /\ leaseLeft' = [r \in Runs |-> IF r \in verdict THEN 0 ELSE leaseLeft[r]]
    /\ SlotRelease(verdict)
    /\ verdict' = {}
    /\ UNCHANGED <<attempt, delay, age, cancel, message, outbox, procVars>>

(* Mutant: only runs that were never started grow too old. *)
OverAgeUnstarted == {r \in Runs : /\ state[r] = "pending" /\ attempt[r] = 0
                                  /\ age[r] > MaxQueueAge}

OverAge == {r \in Runs : state[r] = "pending" /\ age[r] > MaxQueueAge}

FailExpiredPendingRuns ==
    /\ OverAge # {}
    /\ state' = [r \in Runs |-> IF r \in OverAge THEN "failed" ELSE state[r]]
    /\ UNCHANGED <<attempt, delay, age, cancel, message, outbox, leaseVars,
                   procVars, verdict>>

-----------------------------------------------------------------------------
UserNext ==
    \/ \E r \in Runs : CreateRun(r)
    \/ \E r, new \in Runs : RetryFailedRun(r, new)
    \/ \E t \in Tasks : CancelUnstartedRuns(t) \/ RequestStopTask(t)

(* What an executor does between a claim and its verdict. *)
Execute(w) ==
    \/ RefuseRun(w) \/ CancelBeforeAgent(w) \/ StartAgent(w)
    \/ \E transient \in BOOLEAN : AgentRaises(w, transient)
    \/ AgentTimesOut(w) \/ AgentCancelled(w) \/ AgentReturns(w)
    \/ BindFails(w) \/ BindNoProgress(w) \/ FailNoProgress(w)
    \/ \E forcedStop \in BOOLEAN : BindMessage(w, forcedStop)
    \/ SuccessFindsCancel(w) \/ SuccessChecksCancel(w) \/ CommitSuccess(w)

Claim(w) == ClaimNothing(w) \/ \E r \in Runs : ClaimRun(w, r)

SchedulerNext ==
    ReadStale \/ FinalizeStale \/ FailExpiredPendingRuns

Next ==
    \/ Tick
    \/ UserNext
    \/ \E w \in Workers : \/ Heartbeat(w) \/ Claim(w) \/ Execute(w)
                          \/ Crash(w) \/ Restart(w)
    \/ SchedulerNext

Spec == Init /\ [][Next]_vars

(* Clocks advance, a live executor keeps polling and brings what it claimed *)
(* to a verdict (wait_for bounds the Agent), and the scheduler keeps making *)
(* passes that reach their commit.  Nothing obliges a crashed executor to   *)
(* come back, nor a user to do anything.                                    *)
Fairness ==
    /\ WF_vars(Tick)
    /\ \A w \in Workers : /\ WF_vars(Heartbeat(w))
                          /\ WF_vars(Claim(w))
                          /\ WF_vars(Execute(w))
    /\ WF_vars(ReadStale)
    /\ WF_vars(FinalizeStale)
    /\ WF_vars(FailExpiredPendingRuns)

FairSpec == Spec /\ Fairness

-----------------------------------------------------------------------------
(* Properties that hold whatever the timing constants are. *)

(* No run is ever held by two executors, although claims race, leases       *)
(* expire under live executors and verdicts are written without a guard:    *)
(* only its own holder can put a run back into the queue.                   *)
NoDoubleExecution ==
    \A w1, w2 \in Workers : w1 # w2 /\ job[w1] # NoRun => job[w1] # job[w2]

(* A slot names a run of its session that is running, and a released slot   *)
(* is open at once: no order of verdicts, take-overs and clean-ups leaves a *)
(* session blocked by a run that ended.                                     *)
SlotNamesRunningRun ==
    \A s \in Sessions :
        IF slotRun[s] = NoRun THEN slotLeft[s] = 0
        ELSE state[slotRun[s]] = "running" /\ Session(slotRun[s]) = s

(* The lease columns are set exactly while a run is running, so the         *)
(* clean-up, which asks for lease_expires_at != NULL, overlooks no run.     *)
RunningIsLeased == \A r \in Runs : state[r] = "running" <=> owner[r] # NoWorker

(* A run that can still start an Agent has an attempt left. *)
AttemptsBounded ==
    \A r \in Runs : \/ state[r] \in {"pending", "running"}
                    \/ \E w \in Workers : job[w] = r
                    => attempt[r] < MaxAttempts

(* finish_run_success inserts at most one delivery per run, so the unique    *)
(* constraint on (run, channel) never makes its commit fail, and what        *)
(* succeeded is bound to a message and announced if its task asks for it.    *)
SuccessReportedOnce ==
    \A r \in Runs :
        /\ outbox[r] <= 1
        /\ state[r] = "succeeded" =>
              r \in message /\ (TaskOf[r] \in Notifying => outbox[r] = 1)

(* Before its lease expires a slot passes to no other run; it can only be    *)
(* released.                                                                *)
SlotNotStolen ==
    [][\A s \in Sessions : slotLeft[s] > 0 => slotRun'[s] \in {slotRun[s], NoRun}]_vars

(* A run queues for a bounded time, even if no executor ever comes. *)
QueueingEnds == \A r \in Runs : state[r] = "pending" ~> state[r] # "pending"

(* What a worker held when it went away for good does not stay running.     *)
AbandonedRunsEnd ==
    \A w \in Workers :
        <>[](pc[w] = "down") =>
            \A r \in Runs : (state[r] = "running" /\ owner[r] = w)
                                ~> ~(state[r] = "running" /\ owner[r] = w)

-----------------------------------------------------------------------------
(* Properties that hold when the execution timeout is below the lease, or   *)
(* for a single executor.                                                   *)

(* At most one Agent runs for a session. *)
SessionExclusive ==
    \A w1, w2 \in Workers :
        w1 # w2 /\ pc[w1] = "agent" /\ pc[w2] = "agent"
            => Session(job[w1]) # Session(job[w2])

(* A verdict is never rewritten: not by an executor that lost its lease, nor *)
(* by a clean-up that judged an earlier state of the run.                    *)
VerdictIsFinal ==
    [][\A r \in Runs : state[r] \in Terminal => state'[r] = state[r]]_vars

(* Whoever is told of a result can find a run that succeeded. *)
NotifiedRunsSucceeded ==
    \A r \in Runs : outbox[r] > 0 => state[r] = "succeeded"

-----------------------------------------------------------------------------
(* The queue that RunExecution implements when the timeout is below the     *)
(* lease: a session serves the run its slot names while an executor holds it. *)

StatusOf(x) == CASE x = "none" -> "absent"
                 [] x = "pending" -> "queued"
                 [] x = "running" -> "active"
                 [] OTHER -> "ended"

Status  == [r \in Runs |-> StatusOf(state[r])]
Serving == [s \in Sessions |->
               IF \E w \in Workers : job[w] # NoRun /\ job[w] = slotRun[s]
               THEN slotRun[s] ELSE NoRun]
HomeOf  == [r \in Runs |-> Session(r)]

Queue == INSTANCE SerialQueue WITH Nobody <- NoRun, status <- Status, serving <- Serving

(* Runs of a session are served one at a time, each is served again only     *)
(* after its own executor put it back, and verdicts stay.                    *)
ImplementsSerialQueue == Queue!Spec

-----------------------------------------------------------------------------
(* Claims of the repository that the code does not keep. *)

(* A run failed as stale is not executed again. *)
StaleRunNotRequeued ==
    [][\A r \in Runs : state[r] = "failed" => state'[r] # "pending"]_vars

(* A requested stop is never treated as an error to retry. *)
StoppedRunNotRetried ==
    [][\A r \in cancel : state'[r] = "pending" => state[r] = "pending"]_vars

(* The stop request that is in the database wins over the success verdict. *)
CancelWins == \A r \in cancel : state[r] # "succeeded"

(* Once executors are back up and stay healthy, every running run ends.     *)
RunningEnds ==
    <>[](\A w \in Workers : pc[w] # "down" /\ beat[w] <= StaleAfter)
        => \A r \in Runs : state[r] = "running" ~> state[r] # "running"
=============================================================================
