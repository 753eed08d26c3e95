------------------------- MODULE RunExecutionProofs -------------------------
(***************************************************************************)
(* RunExecution proved for every set of runs, tasks, sessions and workers  *)
(* and every value of the timing constants.                                *)
(*                                                                         *)
(* Inv is inductive without any assumption on timing.  TimelyInv adds what *)
(* holds when an execution times out before its lease does.                *)
(***************************************************************************)
EXTENDS RunExecution, TLAPS

Held(r) == \E w \in Workers : job[w] = r

(* An executor holds a run exactly while it is working on one. *)
HoldersAreBusy == \A w \in Workers : job[w] # NoRun <=> pc[w] \in Busy

(* A held run may have been given a verdict by the clean-up, but it is not  *)
(* back in the queue: this is what keeps a second executor away from it.    *)
HeldNotQueued ==
    \A w \in Workers : job[w] # NoRun => state[job[w]] \notin {"none", "pending"}

AttemptLeft ==
    \A r \in Runs : state[r] \in {"none", "pending", "running"} \/ Held(r)
                        => attempt[r] < MaxAttempts

(* A run whose delivery is written succeeded, was let go, and can at most    *)
(* have been failed by the clean-up since.                                   *)
DeliveredIsOver ==
    \A r \in Runs : outbox[r] > 0 => state[r] \in {"succeeded", "failed"} /\ ~Held(r)

Inv ==
    /\ TypeOK
    /\ HoldersAreBusy
    /\ HeldNotQueued
    /\ NoDoubleExecution
    /\ SlotNamesRunningRun
    /\ RunningIsLeased
    /\ AttemptLeft
    /\ DeliveredIsOver
    /\ SuccessReportedOnce

USE DEF Terminal, Busy

-----------------------------------------------------------------------------
(* Steps that are parts of several actions.                                *)

(* A verdict of the holder of a run, whatever it is, keeps the invariant.   *)
LEMMA SettleKeepsInv ==
    ASSUME Inv,
           NEW w \in Workers, job[w] # NoRun,
           NEW v \in {"pending"} \cup Terminal,
           Settle(w, v),
           attempt' \in [Runs -> 0 .. MaxAttempts],
           \A r \in Runs \ {job[w]} : attempt'[r] = attempt[r],
           v = "pending" => attempt'[job[w]] < MaxAttempts,
           delay' \in [Runs -> Nat],
           message \subseteq message', message' \subseteq Runs,
           outbox' = IF v = "succeeded" /\ TaskOf[job[w]] \in Notifying
                     THEN [outbox EXCEPT ![job[w]] = @ + 1] ELSE outbox,
           v = "succeeded" => job[w] \in message'
    PROVE  Inv'
<1>1. PICK j \in Runs : j = job[w] /\ j # NoRun /\ outbox[j] = 0
  <2>1. job[w] \in Runs /\ outbox[job[w]] \in Nat
    BY DEF Inv, TypeOK
  <2>2. ~(outbox[job[w]] > 0)
    BY <2>1 DEF Inv, DeliveredIsOver, Held
  <2> QED BY <2>1, <2>2
<1>2. /\ state' = [state EXCEPT ![j] = v]
      /\ owner' = [owner EXCEPT ![j] = NoWorker]
      /\ job' = [job EXCEPT ![w] = NoRun]
      /\ \A x \in Workers : x # w => job[x] # j
  BY <1>1, RunsAssumption DEF Settle, Inv, NoDoubleExecution, TypeOK
<1>3. TypeOK'
  <2>1. outbox' \in [Runs -> Nat]
    BY <1>1 DEF Inv, TypeOK
  <2>2. slotRun' \in [Sessions -> Runs \cup {NoRun}] /\ slotLeft' \in [Sessions -> 0 .. Lease]
    BY TimingAssumption DEF Settle, SlotRelease, Inv, TypeOK
  <2>3. leaseLeft' \in [Runs -> 0 .. Lease] /\ elapsed' \in [Workers -> 0 .. ExecTimeout]
    BY <1>1, TimingAssumption DEF Settle, Inv, TypeOK
  <2>4. /\ state' \in [Runs -> {"none", "pending", "running"} \cup Terminal]
        /\ owner' \in [Runs -> Workers \cup {NoWorker}]
        /\ pc' \in [Workers -> {"down", "idle", "poll"} \cup Busy]
        /\ job' \in [Workers -> Runs \cup {NoRun}]
    BY <1>1, <1>2 DEF Settle, Inv, TypeOK
  <2> QED BY <2>1, <2>2, <2>3, <2>4 DEF Settle, Inv, TypeOK
<1>4. HoldersAreBusy' /\ HeldNotQueued' /\ NoDoubleExecution'
  <2>1. HoldersAreBusy'
    BY <1>1, RunsAssumption DEF Settle, Inv, HoldersAreBusy, TypeOK
  <2>2. HeldNotQueued'
    BY <1>1, <1>2, RunsAssumption DEF Inv, HeldNotQueued, TypeOK
  <2>3. NoDoubleExecution'
    BY <1>1, <1>2, RunsAssumption DEF Inv, NoDoubleExecution, TypeOK
  <2> QED BY <2>1, <2>2, <2>3
<1>5. SlotNamesRunningRun'
  BY <1>1, <1>2, RunsAssumption DEF Settle, SlotRelease, Inv, SlotNamesRunningRun, TypeOK, Session
<1>6. RunningIsLeased'
  BY <1>1, <1>2, RunsAssumption DEF Inv, RunningIsLeased, TypeOK
<1>7. AttemptLeft'
  BY <1>1, <1>2, RunsAssumption DEF Inv, AttemptLeft, Held, TypeOK
<1>8. DeliveredIsOver' /\ SuccessReportedOnce'
  <2>1. \A r \in Runs : Held(r)' => Held(r)
    <3> SUFFICES ASSUME NEW r \in Runs, NEW x \in Workers, job'[x] = r
                 PROVE  Held(r)
      BY DEF Held
    <3>1. job[x] = r
      BY <1>2, RunsAssumption DEF Inv, TypeOK
    <3> QED BY <3>1 DEF Held
  <2>2. ~Held(j)'
    BY <1>1, <1>2 DEF Held, Inv, TypeOK
  <2>3. \A r \in Runs \ {j} : outbox'[r] = outbox[r] /\ state'[r] = state[r]
    BY <1>1, <1>2 DEF Inv, TypeOK
  <2>4. /\ state'[j] = v
        /\ outbox'[j] = IF v = "succeeded" /\ TaskOf[j] \in Notifying THEN 1 ELSE 0
    BY <1>1, <1>2 DEF Inv, TypeOK
  <2>5. DeliveredIsOver'
    <3> SUFFICES ASSUME NEW r \in Runs, outbox'[r] > 0
                 PROVE  state'[r] \in {"succeeded", "failed"} /\ ~Held(r)'
      BY DEF DeliveredIsOver
    <3>1. CASE r = j
      BY <3>1, <2>2, <2>4 DEF Held
    <3>2. CASE r # j
      BY <3>2, <2>1, <2>3 DEF Inv, DeliveredIsOver
    <3> QED BY <3>1, <3>2
  <2>6. SuccessReportedOnce'
    BY <1>1, <2>3, <2>4 DEF Inv, SuccessReportedOnce
  <2> QED BY <2>5, <2>6
<1> QED BY <1>3, <1>4, <1>5, <1>6, <1>7, <1>8 DEF Inv

(* finish_run_failure by the holder of a run. *)
LEMMA FailureKeepsInv ==
    ASSUME Inv, NEW w \in Workers, pc[w] \in Busy, NEW transient \in BOOLEAN,
           FinishRunFailure(w, transient)
    PROVE  Inv'
<1> DEFINE j == job[w]
           a == attempt[j] + 1
           again == transient /\ a < MaxAttempts
<1>1. j # NoRun /\ j \in Runs /\ attempt[j] < MaxAttempts
  BY RunsAssumption DEF Inv, HoldersAreBusy, TypeOK, AttemptLeft, Held
<1>2. /\ attempt' = [attempt EXCEPT ![j] = a]
      /\ delay' = IF again THEN [delay EXCEPT ![j] = Backoff(a)] ELSE delay
      /\ Settle(w, IF again THEN "pending" ELSE "failed")
      /\ UNCHANGED <<message, outbox>>
  BY DEF FinishRunFailure
<1>3. a \in 1 .. MaxAttempts
  BY <1>1, TimingAssumption DEF Inv, TypeOK
<1>4. attempt' \in [Runs -> 0 .. MaxAttempts]
  BY <1>1, <1>2, <1>3, TimingAssumption DEF Inv, TypeOK
<1>5. Backoff(a) \in Nat
  BY <1>3, TimingAssumption
<1>6. delay' \in [Runs -> Nat]
  BY <1>1, <1>2, <1>5 DEF Inv, TypeOK
<1>7. again => attempt'[j] < MaxAttempts
  BY <1>1, <1>2 DEF Inv, TypeOK
<1>8. \A r \in Runs \ {j} : attempt'[r] = attempt[r]
  BY <1>1, <1>2 DEF Inv, TypeOK
<1>9. message' = message /\ outbox' = outbox /\ message \subseteq Runs
  BY <1>2 DEF Inv, TypeOK
<1>10. CASE again
  <2>1. Settle(w, "pending")
    BY <1>2, <1>10
  <2> QED
    BY <1>1, <1>4, <1>6, <1>7, <1>8, <1>9, <1>10, <2>1, SettleKeepsInv
<1>11. CASE ~again
  <2>1. Settle(w, "failed")
    BY <1>2, <1>11
  <2> QED
    BY <1>1, <1>4, <1>6, <1>8, <1>9, <2>1, SettleKeepsInv
<1> QED BY <1>10, <1>11

(* finish_run_cancelled by the holder of a run. *)
LEMMA CancelledKeepsInv ==
    ASSUME Inv, NEW w \in Workers, pc[w] \in Busy, FinishRunCancelled(w),
           message \subseteq message', message' \subseteq Runs
    PROVE  Inv'
<1>1. job[w] # NoRun /\ Settle(w, "cancelled")
  BY DEF Inv, HoldersAreBusy, FinishRunCancelled
<1>2. attempt' = attempt /\ delay' = delay /\ outbox' = outbox
  BY DEF FinishRunCancelled
<1> QED BY <1>1, <1>2, SettleKeepsInv DEF Inv, TypeOK

(* A step of an executor that only moves on with its run. *)
LEMMA GotoKeepsInv ==
    ASSUME Inv, NEW w \in Workers, pc[w] \in Busy, NEW label \in Busy,
           Goto(w, label), message \subseteq message', message' \subseteq Runs
    PROVE  Inv'
<1> USE DEF Inv, Goto, runVars, leaseVars, procVars
<1>1. TypeOK'
  BY DEF TypeOK
<1>2. HoldersAreBusy' /\ HeldNotQueued' /\ NoDoubleExecution'
  BY DEF TypeOK, HoldersAreBusy, HeldNotQueued, NoDoubleExecution
<1>3. SlotNamesRunningRun' /\ RunningIsLeased'
  BY DEF SlotNamesRunningRun, RunningIsLeased
<1>4. AttemptLeft' /\ DeliveredIsOver'
  BY DEF AttemptLeft, DeliveredIsOver, Held
<1>5. SuccessReportedOnce'
  BY DEF SuccessReportedOnce
<1> QED BY <1>1, <1>2, <1>3, <1>4, <1>5

-----------------------------------------------------------------------------
(* One lemma for each group of actions.                                    *)

(* The empty tables satisfy the invariant. *)
LEMMA InitInv == Init => Inv
<1> SUFFICES ASSUME Init PROVE Inv
  OBVIOUS
<1> USE RunsAssumption, TimingAssumption DEF Init
<1>1. TypeOK
  BY DEF TypeOK
<1>2. HoldersAreBusy /\ HeldNotQueued /\ NoDoubleExecution
  BY DEF HoldersAreBusy, HeldNotQueued, NoDoubleExecution
<1>3. SlotNamesRunningRun /\ RunningIsLeased /\ AttemptLeft
  BY DEF SlotNamesRunningRun, RunningIsLeased, AttemptLeft
<1>4. DeliveredIsOver /\ SuccessReportedOnce
  BY DEF DeliveredIsOver, SuccessReportedOnce
<1> QED BY <1>1, <1>2, <1>3, <1>4 DEF Inv

(* The passing of time changes no table, only distances. *)
LEMMA TickKeepsInv == Inv /\ Tick => Inv'
<1> SUFFICES ASSUME Inv, Tick PROVE Inv'
  OBVIOUS
<1> USE DEF Inv, Tick
<1>1. TypeOK'
  <2>1. /\ delay' \in [Runs -> Nat]
        /\ leaseLeft' \in [Runs -> 0 .. Lease]
        /\ slotLeft' \in [Sessions -> 0 .. Lease]
    BY TimingAssumption DEF TypeOK, Less
  <2>2. age' \in [Runs -> 0 .. MaxQueueAge + 1] /\ beat' \in [Workers -> 0 .. StaleAfter + 1]
    BY TimingAssumption DEF TypeOK, More
  <2>3. elapsed' \in [Workers -> 0 .. ExecTimeout]
    BY TimingAssumption DEF TypeOK
  <2> QED BY <2>1, <2>2, <2>3 DEF TypeOK
<1>2. HoldersAreBusy' /\ HeldNotQueued' /\ NoDoubleExecution'
  BY DEF HoldersAreBusy, HeldNotQueued, NoDoubleExecution
<1>3. SlotNamesRunningRun' /\ RunningIsLeased' /\ AttemptLeft'
  BY DEF SlotNamesRunningRun, RunningIsLeased, AttemptLeft, Held, Session, Less
<1>4. DeliveredIsOver' /\ SuccessReportedOnce'
  BY DEF DeliveredIsOver, SuccessReportedOnce, Held
<1> QED BY <1>1, <1>2, <1>3, <1>4

(* A step that only moves rows of runs nobody holds out of the queue, or     *)
(* creates them: the requests of users and the queue-age clean-up.           *)
LEMMA QueueStepKeepsInv ==
    ASSUME Inv, cancel' \subseteq Runs,
           state' \in [Runs -> {"none", "pending", "running"} \cup Terminal],
           \A r \in Runs : \/ state'[r] = state[r]
                           \/ state[r] = "none" /\ state'[r] = "pending"
                           \/ state[r] = "pending" /\ state'[r] \in {"cancelled", "failed"},
           UNCHANGED <<attempt, delay, age, message, outbox, leaseVars, procVars, verdict>>
    PROVE  Inv'
<1> USE DEF Inv, leaseVars, procVars
<1>1. TypeOK'
  BY DEF TypeOK
<1>2. HoldersAreBusy' /\ NoDoubleExecution'
  BY DEF HoldersAreBusy, NoDoubleExecution
<1>3. HeldNotQueued'
  BY RunsAssumption DEF HeldNotQueued, TypeOK
<1>4. SlotNamesRunningRun' /\ RunningIsLeased'
  <2>1. SlotNamesRunningRun'
    BY DEF SlotNamesRunningRun, TypeOK, Session
  <2>2. RunningIsLeased'
    BY DEF RunningIsLeased
  <2> QED BY <2>1, <2>2
<1>5. AttemptLeft' /\ DeliveredIsOver'
  <2>1. AttemptLeft'
    BY RunsAssumption DEF AttemptLeft, Held, HeldNotQueued, TypeOK
  <2>2. DeliveredIsOver'
    BY DEF DeliveredIsOver, Held
  <2> QED BY <2>1, <2>2
<1>6. SuccessReportedOnce'
  BY DEF SuccessReportedOnce
<1> QED BY <1>1, <1>2, <1>3, <1>4, <1>5, <1>6

LEMMA UserKeepsInv == Inv /\ UserNext => Inv'
<1> SUFFICES ASSUME Inv, UserNext PROVE Inv'
  OBVIOUS
<1> USE DEF TypeOK, Inv
<1>1. ASSUME NEW r \in Runs, CreateRun(r) PROVE Inv'
  BY <1>1, QueueStepKeepsInv DEF CreateRun
<1>2. ASSUME NEW t \in Tasks, CancelUnstartedRuns(t) PROVE Inv'
  BY <1>2, QueueStepKeepsInv DEF CancelUnstartedRuns, RunsIn
<1>3. ASSUME NEW t \in Tasks, RequestStopTask(t) PROVE Inv'
  BY <1>3, QueueStepKeepsInv DEF RequestStopTask, RunsIn
<1> QED BY <1>1, <1>2, <1>3 DEF UserNext, RetryFailedRun

(* A claim takes a run from the queue that nobody holds. *)
LEMMA ClaimKeepsInv ==
    ASSUME Inv, NEW w \in Workers, NEW r \in Runs, ClaimRun(w, r)
    PROVE  Inv'
<1> USE DEF ClaimRun
<1>1. state[r] = "pending" /\ r # NoRun /\ job[w] = NoRun
  <2>1. state[r] = "pending" /\ r # NoRun
    BY RunsAssumption DEF IsCandidate, Claimable
  <2>2. job[w] = NoRun
    BY DEF Inv, HoldersAreBusy
  <2> QED BY <2>1, <2>2
<1>2. ~Held(r) /\ outbox[r] = 0 /\ owner[r] = NoWorker /\ attempt[r] < MaxAttempts
  <2>1. ~Held(r)
    BY <1>1 DEF Held, Inv, HeldNotQueued
  <2>2. outbox[r] = 0
    BY <1>1 DEF Inv, DeliveredIsOver, TypeOK
  <2> QED BY <1>1, <2>1, <2>2 DEF Inv, RunningIsLeased, AttemptLeft
<1>3. TypeOK'
  <2>1. leaseLeft' \in [Runs -> 0 .. Lease] /\ elapsed' \in [Workers -> 0 .. ExecTimeout]
    BY TimingAssumption DEF Inv, TypeOK
  <2>2. Session(r) \in Sessions
    BY RunsAssumption DEF Session
  <2>3. slotRun' \in [Sessions -> Runs \cup {NoRun}] /\ slotLeft' \in [Sessions -> 0 .. Lease]
    BY <2>2, TimingAssumption DEF Inv, TypeOK
  <2> QED BY <2>1, <2>3 DEF Inv, TypeOK
<1>4. HoldersAreBusy'
  BY <1>1 DEF Inv, HoldersAreBusy, TypeOK
<1>5. HeldNotQueued' /\ NoDoubleExecution'
  <2>1. HeldNotQueued'
    BY <1>1, <1>2 DEF Inv, HeldNotQueued, TypeOK, Held
  <2>2. NoDoubleExecution'
    BY <1>1, <1>2 DEF Inv, NoDoubleExecution, TypeOK, Held
  <2> QED BY <2>1, <2>2
<1>6. SlotNamesRunningRun'
  BY <1>1, RunsAssumption DEF Inv, SlotNamesRunningRun, TypeOK, Session
<1>7. RunningIsLeased'
  BY <1>1, RunsAssumption DEF Inv, RunningIsLeased, TypeOK
<1>8. AttemptLeft'
  BY <1>1, <1>2, RunsAssumption DEF Inv, AttemptLeft, TypeOK, Held
<1>9. DeliveredIsOver' /\ SuccessReportedOnce'
  <2>1. DeliveredIsOver'
    BY <1>1, <1>2, RunsAssumption DEF Inv, DeliveredIsOver, TypeOK, Held
  <2>2. SuccessReportedOnce'
    BY <1>1 DEF Inv, SuccessReportedOnce, TypeOK
  <2> QED BY <2>1, <2>2
<1> QED BY <1>3, <1>4, <1>5, <1>6, <1>7, <1>8, <1>9 DEF Inv

(* Polling, crashing and restarting touch no table but the heartbeats. *)
LEMMA ProcessKeepsInv ==
    ASSUME Inv, NEW w \in Workers,
           Heartbeat(w) \/ ClaimNothing(w) \/ Crash(w) \/ Restart(w)
    PROVE  Inv'
<1> USE DEF runVars, leaseVars
<1>1. CASE Heartbeat(w) \/ ClaimNothing(w) \/ Restart(w)
  <2> USE <1>1 DEF Heartbeat, ClaimNothing, Restart, Inv
  <2>1. TypeOK'
    BY TimingAssumption DEF TypeOK
  <2>2. HoldersAreBusy' /\ HeldNotQueued' /\ NoDoubleExecution'
    BY DEF HoldersAreBusy, HeldNotQueued, NoDoubleExecution, TypeOK
  <2>3. SlotNamesRunningRun' /\ RunningIsLeased' /\ AttemptLeft'
    BY DEF SlotNamesRunningRun, RunningIsLeased, AttemptLeft, Held
  <2>4. DeliveredIsOver' /\ SuccessReportedOnce'
    BY DEF DeliveredIsOver, SuccessReportedOnce, Held
  <2> QED BY <2>1, <2>2, <2>3, <2>4
<1>2. CASE Crash(w)
  <2> USE <1>2 DEF Crash, Inv
  <2>1. TypeOK'
    BY TimingAssumption DEF TypeOK
  <2>2. HoldersAreBusy' /\ HeldNotQueued' /\ NoDoubleExecution'
    BY DEF HoldersAreBusy, HeldNotQueued, NoDoubleExecution, TypeOK
  <2>3. SlotNamesRunningRun' /\ RunningIsLeased'
    BY DEF SlotNamesRunningRun, RunningIsLeased
  <2>4. \A r \in Runs : Held(r)' => Held(r)
    BY RunsAssumption DEF Held, TypeOK
  <2>5. AttemptLeft' /\ DeliveredIsOver' /\ SuccessReportedOnce'
    BY <2>4 DEF AttemptLeft, DeliveredIsOver, SuccessReportedOnce
  <2> QED BY <2>1, <2>2, <2>3, <2>5
<1> QED BY <1>1, <1>2

(* Whatever an executor does with the run it holds. *)
LEMMA ExecuteKeepsInv ==
    ASSUME Inv, NEW w \in Workers, Execute(w)
    PROVE  Inv'
<1>1. pc[w] \in Busy
  BY DEF Execute, RefuseRun, CancelBeforeAgent, StartAgent, AgentRaises, AgentTimesOut,
         AgentCancelled, AgentReturns, BindFails, BindNoProgress, FailNoProgress,
         BindMessage, SuccessFindsCancel, SuccessChecksCancel, CommitSuccess
<1>2. job[w] # NoRun /\ job[w] \in Runs /\ message \subseteq Runs
  BY <1>1 DEF Inv, HoldersAreBusy, TypeOK
<1>3. CASE \/ RefuseRun(w) \/ AgentTimesOut(w) \/ BindFails(w) \/ FailNoProgress(w)
           \/ \E transient \in BOOLEAN : AgentRaises(w, transient)
  <2>1. PICK transient \in BOOLEAN : FinishRunFailure(w, transient)
    BY <1>3 DEF RefuseRun, AgentTimesOut, BindFails, FailNoProgress, AgentRaises
  <2> QED BY <1>1, <2>1, FailureKeepsInv
<1>4. CASE CancelBeforeAgent(w) \/ AgentCancelled(w) \/ SuccessFindsCancel(w)
  <2>1. FinishRunCancelled(w) /\ message \subseteq message' /\ message' \subseteq Runs
    BY <1>2, <1>4 DEF CancelBeforeAgent, AgentCancelled, SuccessFindsCancel
  <2> QED BY <1>1, <2>1, CancelledKeepsInv
<1>5. CASE \/ StartAgent(w) \/ AgentReturns(w) \/ BindNoProgress(w) \/ SuccessChecksCancel(w)
           \/ \E forcedStop \in BOOLEAN : BindMessage(w, forcedStop)
  <2>1. PICK label \in Busy : Goto(w, label)
    BY <1>5 DEF StartAgent, AgentReturns, BindNoProgress, SuccessChecksCancel, BindMessage
  <2>2. message \subseteq message' /\ message' \subseteq Runs
    BY <1>2, <1>5 DEF StartAgent, AgentReturns, BindNoProgress, SuccessChecksCancel, BindMessage
  <2> QED BY <1>1, <2>1, <2>2, GotoKeepsInv
<1>6. CASE CommitSuccess(w)
  <2>1. /\ Settle(w, "succeeded") /\ attempt' = attempt /\ delay' = delay
        /\ message' = message \cup {job[w]}
        /\ outbox' = IF "succeeded" = "succeeded" /\ TaskOf[job[w]] \in Notifying
                     THEN [outbox EXCEPT ![job[w]] = @ + 1] ELSE outbox
    BY <1>6 DEF CommitSuccess
  <2>2. attempt' \in [Runs -> 0 .. MaxAttempts] /\ delay' \in [Runs -> Nat]
    BY <2>1 DEF Inv, TypeOK
  <2> QED BY <1>2, <2>1, <2>2, SettleKeepsInv
<1> QED BY <1>3, <1>4, <1>5, <1>6 DEF Execute

(* The clean-up writes its verdicts without looking at the runs again. *)
LEMMA SchedulerKeepsInv == Inv /\ SchedulerNext => Inv'
<1> SUFFICES ASSUME Inv, SchedulerNext PROVE Inv'
  OBVIOUS
<1>1. CASE ReadStale
  <2> USE <1>1 DEF ReadStale, runVars, leaseVars, procVars, Inv
  <2>1. TypeOK'
    BY DEF TypeOK, Stale
  <2>2. HoldersAreBusy' /\ HeldNotQueued' /\ NoDoubleExecution'
    BY DEF HoldersAreBusy, HeldNotQueued, NoDoubleExecution
  <2>3. SlotNamesRunningRun' /\ RunningIsLeased' /\ AttemptLeft'
    BY DEF SlotNamesRunningRun, RunningIsLeased, AttemptLeft, Held
  <2>4. DeliveredIsOver' /\ SuccessReportedOnce'
    BY DEF DeliveredIsOver, SuccessReportedOnce, Held
  <2> QED BY <2>1, <2>2, <2>3, <2>4
<1>2. CASE FinalizeStale
  <2> USE <1>2 DEF FinalizeStale, procVars, Inv
  <2>1. TypeOK'
    <3>1. leaseLeft' \in [Runs -> 0 .. Lease] /\ slotLeft' \in [Sessions -> 0 .. Lease]
      BY TimingAssumption DEF TypeOK, SlotRelease
    <3> QED BY <3>1 DEF TypeOK, SlotRelease
  <2>2. HoldersAreBusy' /\ HeldNotQueued' /\ NoDoubleExecution'
    BY DEF HoldersAreBusy, HeldNotQueued, NoDoubleExecution, TypeOK
  <2>3. SlotNamesRunningRun'
    BY RunsAssumption DEF SlotNamesRunningRun, SlotRelease, TypeOK, Session
  <2>4. RunningIsLeased'
    BY DEF RunningIsLeased
  <2>5. AttemptLeft' /\ DeliveredIsOver'
    BY DEF AttemptLeft, DeliveredIsOver, Held
  <2>6. SuccessReportedOnce'
    BY DEF SuccessReportedOnce
  <2> QED BY <2>1, <2>2, <2>3, <2>4, <2>5, <2>6
<1>3. CASE FailExpiredPendingRuns
  BY <1>3, QueueStepKeepsInv DEF FailExpiredPendingRuns, OverAge, Inv, TypeOK
<1> QED BY <1>1, <1>2, <1>3 DEF SchedulerNext

-----------------------------------------------------------------------------
(* Every reachable state satisfies the invariant. *)
THEOREM Invariance == Spec => []Inv
<1>1. Init => Inv
  BY InitInv
<1>2. Inv /\ [Next]_vars => Inv'
  <2> SUFFICES ASSUME Inv, [Next]_vars PROVE Inv'
    OBVIOUS
  <2>1. CASE Tick
    BY <2>1, TickKeepsInv
  <2>2. CASE UserNext
    BY <2>2, UserKeepsInv
  <2>3. ASSUME NEW w \in Workers,
               Heartbeat(w) \/ Claim(w) \/ Execute(w) \/ Crash(w) \/ Restart(w)
        PROVE  Inv'
    BY <2>3, ProcessKeepsInv, ClaimKeepsInv, ExecuteKeepsInv DEF Claim
  <2>4. CASE SchedulerNext
    BY <2>4, SchedulerKeepsInv
  <2>5. CASE UNCHANGED vars
    BY <2>5 DEF vars, runVars, leaseVars, procVars, Inv, TypeOK, HoldersAreBusy,
                HeldNotQueued, NoDoubleExecution, SlotNamesRunningRun, RunningIsLeased,
                AttemptLeft, Held, DeliveredIsOver, SuccessReportedOnce
  <2> QED BY <2>1, <2>2, <2>3, <2>4, <2>5 DEF Next
<1> QED BY <1>1, <1>2, PTL DEF Spec

(* The tables stay well typed: in particular the attempts of a run never    *)
(* exceed MAX_ATTEMPTS.                                                      *)
THEOREM TypeCorrectness == Spec => []TypeOK
BY Invariance, PTL DEF Inv

(* No two executors ever hold the same run. *)
THEOREM SingleHolder == Spec => []NoDoubleExecution
BY Invariance, PTL DEF Inv

(* Slots name running runs, running runs are leased, and whatever succeeded  *)
(* was reported once.                                                        *)
THEOREM TablesAgree ==
    Spec => [](SlotNamesRunningRun /\ RunningIsLeased /\ SuccessReportedOnce)
BY Invariance, PTL DEF Inv

(* A success is bound to its message, and announced once if its task says so. *)
THEOREM SuccessesAreReported == Spec => []SuccessReportedOnce
<1>1. Inv => SuccessReportedOnce
  BY DEF Inv
<1> QED BY <1>1, Invariance, PTL

(* A run that can start an Agent has an attempt left. *)
THEOREM RetriesAreBounded == Spec => []AttemptsBounded
<1>1. Inv => AttemptsBounded
  BY DEF Inv, AttemptLeft, AttemptsBounded, Held
<1> QED BY <1>1, Invariance, PTL

(* A slot whose lease still runs is released or kept, never handed over. *)
THEOREM SlotsAreNotStolen == Spec => SlotNotStolen
<1> DEFINE Kept == \A s \in Sessions : slotLeft[s] > 0 => slotRun'[s] \in {slotRun[s], NoRun}
<1>1. TypeOK /\ [Next]_vars => Kept
  <2> SUFFICES ASSUME TypeOK, [Next]_vars, NEW s \in Sessions, slotLeft[s] > 0
               PROVE  slotRun'[s] \in {slotRun[s], NoRun}
    OBVIOUS
  <2> USE DEF leaseVars
  <2>1. CASE Tick \/ UserNext \/ UNCHANGED vars
    BY <2>1 DEF Tick, UserNext, CreateRun, RetryFailedRun, CancelUnstartedRuns,
                RequestStopTask, vars
  <2>2. ASSUME NEW w \in Workers, Heartbeat(w) \/ ClaimNothing(w) \/ Crash(w) \/ Restart(w)
        PROVE  slotRun' = slotRun
    BY <2>2 DEF Heartbeat, ClaimNothing, Crash, Restart
  <2>3. ASSUME NEW w \in Workers, NEW r \in Runs, ClaimRun(w, r)
        PROVE  slotRun'[s] \in {slotRun[s], NoRun}
    BY <2>3 DEF ClaimRun, SlotOpen, TypeOK
  <2>4. ASSUME NEW w \in Workers, Execute(w)
        PROVE  slotRun'[s] \in {slotRun[s], NoRun}
    BY <2>4 DEF Execute, RefuseRun, CancelBeforeAgent, StartAgent, AgentRaises, AgentTimesOut,
                AgentCancelled, AgentReturns, BindFails, BindNoProgress, FailNoProgress,
                BindMessage, SuccessFindsCancel, SuccessChecksCancel, CommitSuccess,
                FinishRunFailure, FinishRunCancelled, Goto, Settle, SlotRelease
  <2>5. CASE SchedulerNext
    BY <2>5 DEF SchedulerNext, ReadStale, FinalizeStale, FailExpiredPendingRuns, SlotRelease
  <2> QED BY <2>1, <2>2, <2>3, <2>4, <2>5 DEF Next, Claim
<1> QED BY <1>1, TypeCorrectness, PTL DEF Spec, SlotNotStolen

-----------------------------------------------------------------------------
(***************************************************************************)
(* When an execution times out before its lease does, nothing it holds can *)
(* be taken from it.  The clock of the execution and the two leases then   *)
(* add up, which is what makes the statement inductive.                    *)
(***************************************************************************)

HeldRunsAreCovered ==
    \A w \in Workers : job[w] # NoRun =>
        /\ state[job[w]] = "running"
        /\ leaseLeft[job[w]] + elapsed[w] = Lease
        /\ slotRun[Session(job[w])] = job[w]
        /\ slotLeft[Session(job[w])] + elapsed[w] = Lease
        /\ job[w] \notin verdict

JudgedRunsAreRunning == \A r \in verdict : state[r] = "running"

TimelyInv ==
    /\ Inv
    /\ HeldRunsAreCovered
    /\ JudgedRunsAreRunning
    /\ NotifiedRunsSucceeded

(* Under an early timeout a held run's lease and slot have not expired. *)
LEMMA HeldIsUnexpired ==
    ASSUME ExecTimeout < Lease, TimelyInv, NEW w \in Workers, job[w] # NoRun
    PROVE  /\ job[w] \in Runs /\ Session(job[w]) \in Sessions
           /\ leaseLeft[job[w]] > 0 /\ slotLeft[Session(job[w])] > 0
<1>1. job[w] \in Runs /\ Session(job[w]) \in Sessions /\ elapsed[w] \in 0 .. ExecTimeout
  BY RunsAssumption DEF TimelyInv, Inv, TypeOK, Session
<1>2. /\ leaseLeft[job[w]] \in 0 .. Lease /\ slotLeft[Session(job[w])] \in 0 .. Lease
      /\ leaseLeft[job[w]] + elapsed[w] = Lease
      /\ slotLeft[Session(job[w])] + elapsed[w] = Lease
  BY <1>1 DEF TimelyInv, Inv, TypeOK, HeldRunsAreCovered
<1> QED BY <1>1, <1>2, TimingAssumption

(* A verdict written by the holder of a run. *)
LEMMA SettleKeepsTimely ==
    ASSUME TimelyInv, Inv', NEW w \in Workers, job[w] # NoRun,
           NEW v \in {"pending"} \cup Terminal, Settle(w, v),
           outbox' = outbox \/ (v = "succeeded"
                                /\ outbox' = [outbox EXCEPT ![job[w]] = @ + 1])
    PROVE  TimelyInv'
<1>1. PICK j \in Runs : /\ j = job[w] /\ j # NoRun /\ j \notin verdict
                        /\ slotRun[Session(j)] = j
                        /\ \A x \in Workers : x # w => job[x] # j
  BY DEF TimelyInv, Inv, TypeOK, HeldRunsAreCovered, NoDoubleExecution
<1>2. /\ state' = [state EXCEPT ![j] = v]
      /\ leaseLeft' = [leaseLeft EXCEPT ![j] = 0]
      /\ job' = [job EXCEPT ![w] = NoRun]
      /\ elapsed' = [elapsed EXCEPT ![w] = 0]
      /\ slotRun' = [s \in Sessions |-> IF slotRun[s] = j THEN NoRun ELSE slotRun[s]]
      /\ slotLeft' = [s \in Sessions |-> IF slotRun[s] = j THEN 0 ELSE slotLeft[s]]
      /\ verdict' = verdict
  BY <1>1 DEF Settle, SlotRelease
<1>3. HeldRunsAreCovered'
  <2> SUFFICES ASSUME NEW x \in Workers, job'[x] # NoRun
               PROVE  /\ state'[job'[x]] = "running"
                      /\ leaseLeft'[job'[x]] + elapsed'[x] = Lease
                      /\ slotRun'[Session(job'[x])] = job'[x]
                      /\ slotLeft'[Session(job'[x])] + elapsed'[x] = Lease
                      /\ job'[x] \notin verdict'
    BY DEF HeldRunsAreCovered, Session
  <2>1. x # w /\ job'[x] = job[x] /\ job[x] \in Runs /\ job[x] # j
    BY <1>1, <1>2, RunsAssumption DEF TimelyInv, Inv, TypeOK
  <2>2. Session(job[x]) \in Sessions /\ slotRun[Session(job[x])] = job[x]
    BY <2>1, RunsAssumption DEF Session, TimelyInv, HeldRunsAreCovered
  <2> QED BY <1>2, <2>1, <2>2 DEF TimelyInv, Inv, TypeOK, HeldRunsAreCovered
<1>4. JudgedRunsAreRunning'
  BY <1>1, <1>2 DEF TimelyInv, Inv, TypeOK, JudgedRunsAreRunning
<1>5. NotifiedRunsSucceeded'
  BY <1>1, <1>2 DEF TimelyInv, Inv, TypeOK, NotifiedRunsSucceeded, DeliveredIsOver, Held
<1> QED BY <1>3, <1>4, <1>5 DEF TimelyInv

(* A step that changes no lease, slot or holder, and no row of a run that is *)
(* held or was judged.                                                       *)
LEMMA OtherStepKeepsTimely ==
    ASSUME TimelyInv, Inv',
           UNCHANGED <<leaseLeft, slotRun, slotLeft, job, elapsed, verdict, outbox>>,
           \A r \in Runs : \/ state'[r] = state[r]
                           \/ state[r] \in {"none", "pending"}
    PROVE  TimelyInv'
<1>1. HeldRunsAreCovered'
  BY DEF TimelyInv, Inv, TypeOK, HeldRunsAreCovered, HeldNotQueued, Session
<1>2. JudgedRunsAreRunning'
  BY DEF TimelyInv, Inv, TypeOK, JudgedRunsAreRunning
<1>3. NotifiedRunsSucceeded'
  BY DEF TimelyInv, NotifiedRunsSucceeded
<1> QED BY <1>1, <1>2, <1>3 DEF TimelyInv

(* Leases and the clock of an execution run down together. *)
LEMMA TickKeepsTimely ==
    ASSUME ExecTimeout < Lease, TimelyInv, Inv', Tick
    PROVE  TimelyInv'
<1>1. HeldRunsAreCovered'
  <2> SUFFICES ASSUME NEW w \in Workers, job[w] # NoRun
               PROVE  /\ state'[job[w]] = "running"
                      /\ leaseLeft'[job[w]] + elapsed'[w] = Lease
                      /\ slotRun'[Session(job[w])] = job[w]
                      /\ slotLeft'[Session(job[w])] + elapsed'[w] = Lease
                      /\ job[w] \notin verdict'
    BY DEF HeldRunsAreCovered, Tick, Session
  <2>1. /\ job[w] \in Runs /\ Session(job[w]) \in Sessions
        /\ leaseLeft[job[w]] > 0 /\ slotLeft[Session(job[w])] > 0
    BY HeldIsUnexpired
  <2>2. /\ leaseLeft'[job[w]] = leaseLeft[job[w]] - 1
        /\ slotLeft'[Session(job[w])] = slotLeft[Session(job[w])] - 1
    BY <2>1 DEF Tick, Less
  <2>3. elapsed'[w] = elapsed[w] + 1
    BY DEF Tick, TimelyInv, Inv, HoldersAreBusy
  <2>4. /\ leaseLeft[job[w]] \in 0 .. Lease /\ slotLeft[Session(job[w])] \in 0 .. Lease
        /\ elapsed[w] \in 0 .. ExecTimeout
    BY <2>1 DEF TimelyInv, Inv, TypeOK
  <2> QED BY <2>2, <2>3, <2>4, TimingAssumption DEF Tick, TimelyInv, HeldRunsAreCovered
<1>2. JudgedRunsAreRunning' /\ NotifiedRunsSucceeded'
  BY DEF Tick, TimelyInv, JudgedRunsAreRunning, NotifiedRunsSucceeded
<1> QED BY <1>1, <1>2 DEF TimelyInv

(* A claim finds the slots of held runs unexpired, and leaves them alone. *)
LEMMA ClaimKeepsTimely ==
    ASSUME ExecTimeout < Lease, TimelyInv, Inv',
           NEW w \in Workers, NEW r \in Runs, ClaimRun(w, r)
    PROVE  TimelyInv'
<1>1. /\ state[r] = "pending" /\ r # NoRun /\ SlotOpen(Session(r), r)
      /\ Session(r) \in Sessions /\ job[w] = NoRun
  <2>1. job[w] = NoRun
    BY DEF ClaimRun, TimelyInv, Inv, HoldersAreBusy
  <2> QED BY <2>1, RunsAssumption DEF ClaimRun, IsCandidate, Claimable, Session
<1>2. \A x \in Workers : job[x] # r
  BY <1>1 DEF TimelyInv, Inv, HeldNotQueued
<1>3. r \notin verdict /\ ~(outbox[r] > 0)
  BY <1>1 DEF TimelyInv, JudgedRunsAreRunning, NotifiedRunsSucceeded
<1>4. HeldRunsAreCovered'
  <2> SUFFICES ASSUME NEW x \in Workers, job'[x] # NoRun
               PROVE  /\ state'[job'[x]] = "running"
                      /\ leaseLeft'[job'[x]] + elapsed'[x] = Lease
                      /\ slotRun'[Session(job'[x])] = job'[x]
                      /\ slotLeft'[Session(job'[x])] + elapsed'[x] = Lease
                      /\ job'[x] \notin verdict'
    BY DEF HeldRunsAreCovered, Session
  <2>1. CASE x = w
    <3>1. job'[x] = r /\ elapsed'[x] = 0
      BY <2>1 DEF ClaimRun, TimelyInv, Inv, TypeOK
    <3>2. /\ state'[r] = "running" /\ leaseLeft'[r] = Lease /\ verdict' = verdict
          /\ slotRun'[Session(r)] = r /\ slotLeft'[Session(r)] = Lease
      BY <1>1 DEF ClaimRun, TimelyInv, Inv, TypeOK
    <3> QED BY <1>3, <3>1, <3>2, TimingAssumption
  <2>2. CASE x # w
    <3>1. job'[x] = job[x] /\ job[x] # NoRun /\ job[x] # r /\ elapsed'[x] = elapsed[x]
      BY <1>2, <2>2 DEF ClaimRun, TimelyInv, Inv, TypeOK
    <3>2. /\ job[x] \in Runs /\ Session(job[x]) \in Sessions
          /\ slotLeft[Session(job[x])] > 0
      BY <3>1, HeldIsUnexpired
    <3>3. slotRun[Session(job[x])] = job[x]
      BY <3>1 DEF TimelyInv, HeldRunsAreCovered
    <3>4. Session(job[x]) # Session(r)
      BY <1>1, <3>1, <3>2, <3>3 DEF SlotOpen
    <3> QED BY <1>1, <3>1, <3>2, <3>4 DEF ClaimRun, TimelyInv, Inv, TypeOK, HeldRunsAreCovered
  <2> QED BY <2>1, <2>2
<1>5. JudgedRunsAreRunning'
  BY DEF ClaimRun, TimelyInv, Inv, TypeOK, JudgedRunsAreRunning
<1>6. NotifiedRunsSucceeded'
  BY <1>3 DEF ClaimRun, TimelyInv, Inv, TypeOK, NotifiedRunsSucceeded
<1> QED BY <1>4, <1>5, <1>6 DEF TimelyInv

LEMMA ExecuteKeepsTimely ==
    ASSUME TimelyInv, Inv', NEW w \in Workers, Execute(w)
    PROVE  TimelyInv'
<1>1. job[w] # NoRun
  BY DEF TimelyInv, Inv, HoldersAreBusy, Execute, RefuseRun, CancelBeforeAgent, StartAgent,
         AgentRaises, AgentTimesOut, AgentCancelled, AgentReturns, BindFails, BindNoProgress,
         FailNoProgress, BindMessage, SuccessFindsCancel, SuccessChecksCancel, CommitSuccess
<1>2. CASE \/ RefuseRun(w) \/ AgentTimesOut(w) \/ BindFails(w) \/ FailNoProgress(w)
           \/ \E transient \in BOOLEAN : AgentRaises(w, transient)
  <2>1. PICK v \in {"pending", "failed"} : Settle(w, v) /\ outbox' = outbox
    BY <1>2 DEF RefuseRun, AgentTimesOut, BindFails, FailNoProgress, AgentRaises, FinishRunFailure
  <2> QED BY <1>1, <2>1, SettleKeepsTimely
<1>3. CASE CancelBeforeAgent(w) \/ AgentCancelled(w) \/ SuccessFindsCancel(w)
  <2>1. Settle(w, "cancelled") /\ outbox' = outbox
    BY <1>3 DEF CancelBeforeAgent, AgentCancelled, SuccessFindsCancel, FinishRunCancelled
  <2> QED BY <1>1, <2>1, SettleKeepsTimely
<1>4. CASE \/ StartAgent(w) \/ AgentReturns(w) \/ BindNoProgress(w) \/ SuccessChecksCancel(w)
           \/ \E forcedStop \in BOOLEAN : BindMessage(w, forcedStop)
  <2>1. UNCHANGED <<state, leaseLeft, slotRun, slotLeft, job, elapsed, verdict, outbox>>
    BY <1>4 DEF StartAgent, AgentReturns, BindNoProgress, SuccessChecksCancel, BindMessage,
                Goto, leaseVars
  <2> QED BY <2>1, OtherStepKeepsTimely
<1>5. CASE CommitSuccess(w)
  <2>1. /\ Settle(w, "succeeded")
        /\ outbox' = outbox \/ outbox' = [outbox EXCEPT ![job[w]] = @ + 1]
    BY <1>5 DEF CommitSuccess
  <2> QED BY <1>1, <2>1, SettleKeepsTimely
<1> QED BY <1>2, <1>3, <1>4, <1>5 DEF Execute

(* A crash only forgets; the clean-up only judges runs nobody holds. *)
LEMMA CrashKeepsTimely ==
    ASSUME TimelyInv, Inv', NEW w \in Workers, Crash(w)
    PROVE  TimelyInv'
<1>1. \A x \in Workers : job'[x] # NoRun => job'[x] = job[x] /\ elapsed'[x] = elapsed[x]
  BY DEF Crash, TimelyInv, Inv, TypeOK
<1>2. UNCHANGED <<runVars, leaseVars, verdict>>
  BY DEF Crash
<1> QED BY <1>1, <1>2 DEF TimelyInv, HeldRunsAreCovered, JudgedRunsAreRunning,
                          NotifiedRunsSucceeded, runVars, leaseVars, Session

LEMMA CleanUpKeepsTimely ==
    ASSUME ExecTimeout < Lease, TimelyInv, Inv', ReadStale \/ FinalizeStale
    PROVE  TimelyInv'
<1>1. CASE ReadStale
  <2>1. \A w \in Workers : job[w] # NoRun => job[w] \notin verdict'
    BY <1>1, HeldIsUnexpired DEF ReadStale, Stale
  <2>2. JudgedRunsAreRunning'
    BY <1>1 DEF ReadStale, Stale, JudgedRunsAreRunning, runVars
  <2> QED BY <1>1, <2>1, <2>2 DEF ReadStale, runVars, leaseVars, procVars, Session,
             TimelyInv, HeldRunsAreCovered, NotifiedRunsSucceeded
<1>2. CASE FinalizeStale
  <2>1. HeldRunsAreCovered'
    <3> SUFFICES ASSUME NEW w \in Workers, job[w] # NoRun
                 PROVE  /\ state'[job[w]] = "running"
                        /\ leaseLeft'[job[w]] + elapsed[w] = Lease
                        /\ slotRun'[Session(job[w])] = job[w]
                        /\ slotLeft'[Session(job[w])] + elapsed[w] = Lease
                        /\ job[w] \notin verdict'
      BY <1>2 DEF FinalizeStale, procVars, HeldRunsAreCovered, Session
    <3>1. job[w] \in Runs /\ job[w] \notin verdict /\ Session(job[w]) \in Sessions
      BY HeldIsUnexpired DEF TimelyInv, HeldRunsAreCovered
    <3> QED BY <1>2, <3>1 DEF FinalizeStale, SlotRelease, TimelyInv, HeldRunsAreCovered
  <2>2. JudgedRunsAreRunning' /\ NotifiedRunsSucceeded'
    BY <1>2 DEF FinalizeStale, TimelyInv, JudgedRunsAreRunning, NotifiedRunsSucceeded
  <2> QED BY <2>1, <2>2 DEF TimelyInv
<1> QED BY <1>1, <1>2

(* The theorems below are about one step from a state of TimelyInv.        *)
LEMMA StepKeepsTimely ==
    ASSUME ExecTimeout < Lease, TimelyInv, Inv', [Next]_vars
    PROVE  TimelyInv'
<1>1. CASE Tick
  BY <1>1, TickKeepsTimely
<1>2. CASE UserNext \/ FailExpiredPendingRuns
  <2>1. UNCHANGED <<leaseLeft, slotRun, slotLeft, job, elapsed, verdict, outbox>>
    BY <1>2 DEF UserNext, CreateRun, RetryFailedRun, CancelUnstartedRuns, RequestStopTask,
                FailExpiredPendingRuns, leaseVars, procVars
  <2>2. \A r \in Runs : state'[r] = state[r] \/ state[r] \in {"none", "pending"}
    BY <1>2 DEF UserNext, CreateRun, RetryFailedRun, CancelUnstartedRuns, RequestStopTask,
                FailExpiredPendingRuns, RunsIn, OverAge, TimelyInv, Inv, TypeOK
  <2> QED BY <2>1, <2>2, OtherStepKeepsTimely
<1>3. ASSUME NEW w \in Workers, Heartbeat(w) \/ ClaimNothing(w) \/ Restart(w)
      PROVE  TimelyInv'
  <2>1. UNCHANGED <<state, leaseLeft, slotRun, slotLeft, job, elapsed, verdict, outbox>>
    BY <1>3 DEF Heartbeat, ClaimNothing, Restart, runVars, leaseVars
  <2> QED BY <2>1, OtherStepKeepsTimely
<1>4. CASE UNCHANGED vars
  <2>1. UNCHANGED <<state, leaseLeft, slotRun, slotLeft, job, elapsed, verdict, outbox>>
    BY <1>4 DEF vars, runVars, leaseVars, procVars
  <2> QED BY <2>1, OtherStepKeepsTimely
<1>5. CASE ReadStale \/ FinalizeStale
  BY <1>5, CleanUpKeepsTimely
<1> QED BY <1>1, <1>2, <1>3, <1>4, <1>5, ClaimKeepsTimely, ExecuteKeepsTimely,
           CrashKeepsTimely DEF Next, Claim, SchedulerNext

LEMMA InitTimely == Init => TimelyInv
<1> SUFFICES ASSUME Init PROVE TimelyInv
  OBVIOUS
<1>1. HeldRunsAreCovered /\ JudgedRunsAreRunning /\ NotifiedRunsSucceeded
  BY DEF Init, HeldRunsAreCovered, JudgedRunsAreRunning, NotifiedRunsSucceeded
<1> QED BY <1>1, InitInv DEF TimelyInv

LEMMA TimelyInvariance == ASSUME ExecTimeout < Lease PROVE Spec => []TimelyInv
<1>1. Init => TimelyInv
  BY InitTimely
<1>2. TimelyInv /\ Inv' /\ [Next]_vars => TimelyInv'
  BY StepKeepsTimely
<1> QED BY <1>1, <1>2, Invariance, PTL DEF Spec

(* With the timeout below the lease no two Agents ever run for a session.   *)
THEOREM SessionsAreExclusive ==
    ASSUME ExecTimeout < Lease PROVE Spec => []SessionExclusive
<1>1. TimelyInv => SessionExclusive
  <2> SUFFICES ASSUME TimelyInv, NEW w1 \in Workers, NEW w2 \in Workers, w1 # w2,
                      pc[w1] = "agent", pc[w2] = "agent",
                      Session(job[w1]) = Session(job[w2])
               PROVE  FALSE
    BY DEF SessionExclusive
  <2>1. job[w1] # NoRun /\ job[w2] # NoRun
    BY DEF TimelyInv, Inv, HoldersAreBusy
  <2>2. job[w1] = job[w2]
    BY <2>1 DEF TimelyInv, HeldRunsAreCovered
  <2> QED BY <2>1, <2>2 DEF TimelyInv, Inv, NoDoubleExecution
<1> QED BY <1>1, TimelyInvariance, PTL

(* With the timeout below the lease a verdict is never rewritten. *)
THEOREM VerdictsAreFinal ==
    ASSUME ExecTimeout < Lease PROVE Spec => VerdictIsFinal
<1> DEFINE Final == \A r \in Runs : state[r] \in Terminal => state'[r] = state[r]
<1>1. TimelyInv /\ [Next]_vars => Final
  <2> SUFFICES ASSUME TimelyInv, [Next]_vars, NEW r \in Runs, state[r] \in Terminal
               PROVE  state'[r] = state[r]
    OBVIOUS
  <2> USE DEF TimelyInv, Inv, TypeOK, runVars
  <2>1. CASE Tick \/ UNCHANGED vars
    BY <2>1 DEF Tick, vars
  <2>2. CASE UserNext \/ FailExpiredPendingRuns
    BY <2>2 DEF UserNext, CreateRun, RetryFailedRun, CancelUnstartedRuns, RequestStopTask,
                FailExpiredPendingRuns, RunsIn, OverAge
  <2>3. ASSUME NEW w \in Workers, Heartbeat(w) \/ ClaimNothing(w) \/ Crash(w) \/ Restart(w)
        PROVE  state'[r] = state[r]
    BY <2>3 DEF Heartbeat, ClaimNothing, Crash, Restart
  <2>4. ASSUME NEW w \in Workers, NEW q \in Runs, ClaimRun(w, q)
        PROVE  state'[r] = state[r]
    BY <2>4 DEF ClaimRun, IsCandidate, Claimable
  <2>5. ASSUME NEW w \in Workers, Execute(w)
        PROVE  state'[r] = state[r]
    <3>1. CASE job[w] # NoRun
      <4>1. job[w] # r
        BY <3>1 DEF HeldRunsAreCovered
      <4> QED
        BY <2>5, <4>1 DEF Execute, RefuseRun, CancelBeforeAgent, StartAgent, AgentRaises,
           AgentTimesOut, AgentCancelled, AgentReturns, BindFails, BindNoProgress,
           FailNoProgress, BindMessage, SuccessFindsCancel, SuccessChecksCancel,
           CommitSuccess, FinishRunFailure, FinishRunCancelled, Goto, Settle
    <3>2. CASE job[w] = NoRun
      BY <2>5, <3>2 DEF HoldersAreBusy, Execute, RefuseRun, CancelBeforeAgent, StartAgent,
         AgentRaises, AgentTimesOut, AgentCancelled, AgentReturns, BindFails, BindNoProgress,
         FailNoProgress, BindMessage, SuccessFindsCancel, SuccessChecksCancel, CommitSuccess
    <3> QED BY <3>1, <3>2
  <2>6. CASE ReadStale \/ FinalizeStale
    BY <2>6 DEF ReadStale, FinalizeStale, JudgedRunsAreRunning
  <2> QED BY <2>1, <2>2, <2>3, <2>4, <2>5, <2>6 DEF Next, Claim, SchedulerNext
<1> QED BY <1>1, TimelyInvariance, PTL DEF Spec, VerdictIsFinal

(* With the timeout below the lease, who was notified finds a success. *)
THEOREM NotificationsAreTrue ==
    ASSUME ExecTimeout < Lease PROVE Spec => []NotifiedRunsSucceeded
BY TimelyInvariance, PTL DEF TimelyInv
=============================================================================
