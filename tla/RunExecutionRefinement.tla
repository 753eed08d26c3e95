----------------------- MODULE RunExecutionRefinement -----------------------
(***************************************************************************)
(* RunExecution implements SerialQueue when an execution times out before  *)
(* its lease does.  Each lemma maps the steps of one kind to a step of the *)
(* queue or to a stutter.                                                  *)
(***************************************************************************)
EXTENDS RunExecutionProofs

USE DEF Terminal, Busy

queueVars == <<Status, Serving>>

-----------------------------------------------------------------------------
(* What the mapped variables say. *)

(* A session serves exactly the run that an executor holds in it. *)
LEMMA ServingIsHeld ==
    ASSUME TimelyInv
    PROVE  /\ \A w \in Workers : job[w] # NoRun =>
                  /\ job[w] \in Runs /\ Session(job[w]) \in Sessions
                  /\ Serving[Session(job[w])] = job[w]
           /\ \A s \in Sessions : Serving[s] # NoRun =>
                  \E w \in Workers : job[w] # NoRun /\ job[w] = slotRun[s] /\ Serving[s] = job[w]
                                     /\ Session(job[w]) = s
<1>1. ASSUME NEW w \in Workers, job[w] # NoRun
      PROVE  /\ job[w] \in Runs /\ Session(job[w]) \in Sessions
             /\ Serving[Session(job[w])] = job[w]
  <2>1. job[w] \in Runs /\ Session(job[w]) \in Sessions
    BY <1>1, RunsAssumption DEF TimelyInv, Inv, TypeOK, Session
  <2>2. slotRun[Session(job[w])] = job[w]
    BY <1>1 DEF TimelyInv, HeldRunsAreCovered
  <2> QED BY <1>1, <2>1, <2>2 DEF Serving
<1>2. ASSUME NEW s \in Sessions, Serving[s] # NoRun
      PROVE  \E w \in Workers : job[w] # NoRun /\ job[w] = slotRun[s] /\ Serving[s] = job[w]
                                /\ Session(job[w]) = s
  <2>1. PICK w \in Workers : job[w] # NoRun /\ job[w] = slotRun[s] /\ Serving[s] = job[w]
    BY <1>2 DEF Serving
  <2>2. Session(job[w]) = s
    BY <2>1 DEF TimelyInv, Inv, SlotNamesRunningRun
  <2> QED BY <2>1, <2>2
<1> QED BY <1>1, <1>2

(* A step that moves the runs of R to one state moves their status. *)
LEMMA MovedStatus ==
    ASSUME NEW R, NEW x,
           state' = [r \in Runs |-> IF r \in R THEN x ELSE state[r]]
    PROVE  Status' = [r \in Runs |-> IF r \in R THEN StatusOf(x) ELSE Status[r]]
BY DEF Status

LEMMA SameServing ==
    ASSUME UNCHANGED <<slotRun, job>> PROVE UNCHANGED Serving
BY DEF Serving

(* Steps the queue does not see. *)
LEMMA StutterStep ==
    ASSUME UNCHANGED <<state, slotRun, job>> PROVE UNCHANGED queueVars
BY SameServing DEF queueVars, Status

-----------------------------------------------------------------------------
(* Steps that the queue sees. *)

LEMMA CreateEnqueues ==
    ASSUME TimelyInv, NEW r \in Runs, CreateRun(r) PROVE Queue!Enqueue(r)
<1>1. UNCHANGED Serving
  BY SameServing DEF CreateRun, leaseVars, procVars
<1>2. state' = [q \in Runs |-> IF q \in {r} THEN "pending" ELSE state[q]]
  BY DEF CreateRun, TimelyInv, Inv, TypeOK
<1>3. Status' = [q \in Runs |-> IF q \in {r} THEN StatusOf("pending") ELSE Status[q]]
  BY <1>2, Zenon DEF Status
<1>4. Status[r] = "absent" /\ StatusOf("pending") = "queued"
  BY DEF CreateRun, Status, StatusOf
<1> QED BY <1>1, <1>3, <1>4 DEF Queue!Enqueue, Queue!Move

(* Cancelled and over-aged runs are withdrawn. *)
LEMMA PendingRunsAreWithdrawn ==
    ASSUME NEW R \in SUBSET Runs, NEW x \in {"cancelled", "failed"},
           \A r \in R : state[r] = "pending",
           state' = [r \in Runs |-> IF r \in R THEN x ELSE state[r]],
           UNCHANGED <<slotRun, job>>
    PROVE  Queue!Withdraw(R)
<1>1. Status' = [r \in Runs |-> IF r \in R THEN StatusOf(x) ELSE Status[r]]
  BY MovedStatus
<1>2. StatusOf(x) = "ended" /\ \A r \in R : Status[r] = "queued"
  BY DEF StatusOf, Status
<1> QED BY <1>1, <1>2, SameServing DEF Queue!Withdraw, Queue!Move

LEMMA ClaimServes ==
    ASSUME ExecTimeout < Lease, TimelyInv, NEW w \in Workers, NEW r \in Runs, ClaimRun(w, r)
    PROVE  Queue!Serve(r)
<1>1. /\ state[r] = "pending" /\ r # NoRun /\ SlotOpen(Session(r), r)
      /\ Session(r) \in Sessions /\ job[w] = NoRun /\ HomeOf[r] = Session(r)
  <2>1. job[w] = NoRun
    BY DEF ClaimRun, TimelyInv, Inv, HoldersAreBusy
  <2> QED BY <2>1, RunsAssumption DEF ClaimRun, IsCandidate, Claimable, Session, HomeOf
<1>2. Serving[Session(r)] = NoRun
  <2> SUFFICES ASSUME Serving[Session(r)] # NoRun PROVE FALSE
    OBVIOUS
  <2>1. PICK x \in Workers : job[x] # NoRun /\ job[x] = slotRun[Session(r)]
                             /\ Session(job[x]) = Session(r)
    BY <1>1, ServingIsHeld
  <2>2. job[x] # r
    BY <1>1, <2>1 DEF TimelyInv, Inv, HeldNotQueued
  <2>3. slotLeft[Session(r)] > 0
    BY <2>1, HeldIsUnexpired
  <2> QED BY <1>1, <2>1, <2>2, <2>3 DEF SlotOpen
<1>3. Status' = [q \in Runs |-> IF q \in {r} THEN "active" ELSE Status[q]]
  <2>1. state' = [q \in Runs |-> IF q \in {r} THEN "running" ELSE state[q]]
    BY DEF ClaimRun, TimelyInv, Inv, TypeOK
  <2>2. Status' = [q \in Runs |-> IF q \in {r} THEN StatusOf("running") ELSE Status[q]]
    BY <2>1, Zenon DEF Status
  <2>3. StatusOf("running") = "active"
    BY DEF StatusOf
  <2> QED BY <2>2, <2>3
<1>4. Status[r] = "queued"
  BY <1>1 DEF Status, StatusOf
<1>5. Serving' = [Serving EXCEPT ![Session(r)] = r]
  <2>1. /\ slotRun' = [slotRun EXCEPT ![Session(r)] = r] /\ job' = [job EXCEPT ![w] = r]
        /\ slotRun \in [Sessions -> Runs \cup {NoRun}] /\ job \in [Workers -> Runs \cup {NoRun}]
    BY DEF ClaimRun, TimelyInv, Inv, TypeOK
  <2>2. Serving'[Session(r)] = r
    BY <1>1, <2>1 DEF Serving
  <2>3. ASSUME NEW s \in Sessions, s # Session(r) PROVE Serving'[s] = Serving[s]
    <3>1. slotRun[s] # r
      BY <1>1, <2>3 DEF TimelyInv, Inv, SlotNamesRunningRun
    <3> QED BY <1>1, <2>1, <2>3, <3>1 DEF Serving
  <2> QED BY <1>1, <2>2, <2>3 DEF Serving
<1> QED BY <1>1, <1>2, <1>3, <1>4, <1>5 DEF Queue!Serve, Queue!Move

(* What an executor stops holding, its session stops serving. *)
LEMMA LetGo ==
    ASSUME TimelyInv, NEW w \in Workers, job[w] # NoRun,
           job' = [job EXCEPT ![w] = NoRun],
           \/ slotRun' = slotRun
           \/ slotRun' = [s \in Sessions |-> IF slotRun[s] = job[w] THEN NoRun ELSE slotRun[s]]
    PROVE  Serving' = [Serving EXCEPT ![Session(job[w])] = NoRun]
<1>1. PICK j \in Runs : /\ j = job[w] /\ j # NoRun /\ Session(j) \in Sessions
                        /\ slotRun[Session(j)] = j
                        /\ \A x \in Workers : x # w => job[x] # j
  BY ServingIsHeld DEF TimelyInv, Inv, TypeOK, HeldRunsAreCovered, NoDoubleExecution
<1>2. /\ job \in [Workers -> Runs \cup {NoRun}] /\ slotRun \in [Sessions -> Runs \cup {NoRun}]
      /\ job' = [job EXCEPT ![w] = NoRun]
      /\ \/ slotRun' = slotRun
         \/ slotRun' = [s \in Sessions |-> IF slotRun[s] = j THEN NoRun ELSE slotRun[s]]
  BY <1>1 DEF TimelyInv, Inv, TypeOK
<1>3. Serving'[Session(j)] = NoRun
  BY <1>1, <1>2 DEF Serving
<1>4. ASSUME NEW s \in Sessions, s # Session(j) PROVE Serving'[s] = Serving[s]
  <2>1. slotRun[s] # j
    BY <1>1, <1>4 DEF TimelyInv, Inv, SlotNamesRunningRun
  <2>2. slotRun'[s] = slotRun[s]
    BY <1>2, <2>1
  <2>3. \A x \in Workers : job'[x] = slotRun[s] /\ job'[x] # NoRun
                               <=> job[x] = slotRun[s] /\ job[x] # NoRun
    BY <1>1, <1>2, <2>1
  <2> QED BY <2>2, <2>3 DEF Serving
<1>5. Serving' = [Serving EXCEPT ![Session(j)] = NoRun]
  BY <1>1, <1>3, <1>4 DEF Serving
<1> QED BY <1>1, <1>5

LEMMA VerdictConcludes ==
    ASSUME TimelyInv, NEW w \in Workers, job[w] # NoRun,
           NEW v \in {"pending"} \cup Terminal, Settle(w, v)
    PROVE  Queue!Conclude(Session(job[w]), StatusOf(v))
<1>1. PICK j \in Runs : j = job[w] /\ Serving[Session(job[w])] = j /\ j # NoRun
  BY ServingIsHeld
<1>2. StatusOf(v) \in {"ended", "queued"}
  BY DEF StatusOf
<1>3. state' = [r \in Runs |-> IF r \in {j} THEN v ELSE state[r]]
  BY <1>1 DEF Settle, TimelyInv, Inv, TypeOK
<1>4. Status' = [r \in Runs |-> IF r \in {j} THEN StatusOf(v) ELSE Status[r]]
  BY <1>3, Zenon DEF Status
<1>5. Serving' = [Serving EXCEPT ![Session(job[w])] = NoRun]
  <2>1. slotRun' = [s \in Sessions |-> IF slotRun[s] = job[w] THEN NoRun ELSE slotRun[s]]
    BY DEF Settle, SlotRelease
  <2> QED BY <2>1, LetGo DEF Settle
<1> QED BY <1>1, <1>2, <1>4, <1>5 DEF Queue!Conclude, Queue!Move

LEMMA CrashAbandons ==
    ASSUME TimelyInv, NEW w \in Workers, Crash(w)
    PROVE  UNCHANGED queueVars \/ Queue!Abandon(Session(job[w]))
<1>1. UNCHANGED <<state, slotRun>> /\ job' = [job EXCEPT ![w] = NoRun]
  BY DEF Crash, runVars, leaseVars
<1>2. CASE job[w] = NoRun
  <2>1. job' = job
    BY <1>1, <1>2 DEF TimelyInv, Inv, TypeOK
  <2> QED BY <1>1, <2>1, StutterStep
<1>3. CASE job[w] # NoRun
  <2>1. Serving' = [Serving EXCEPT ![Session(job[w])] = NoRun]
    BY <1>1, <1>3, LetGo
  <2>2. Serving[Session(job[w])] # NoRun /\ UNCHANGED Status
    BY <1>1, <1>3, ServingIsHeld DEF Status
  <2> QED BY <2>1, <2>2 DEF Queue!Abandon
<1> QED BY <1>2, <1>3

(* The clean-up gives up running runs that nobody holds. *)
LEMMA FinalizeGivesUp ==
    ASSUME TimelyInv, FinalizeStale PROVE Queue!GiveUp(verdict)
<1>1. verdict \subseteq Runs /\ \A r \in verdict : Status[r] = "active"
  BY DEF TimelyInv, Inv, TypeOK, JudgedRunsAreRunning, Status, StatusOf
<1>2. \A w \in Workers : job[w] # NoRun => job[w] \notin verdict
  BY DEF TimelyInv, HeldRunsAreCovered
<1>3. \A r \in verdict : \A s \in Sessions : Serving[s] # r
  <2> SUFFICES ASSUME NEW r \in verdict, NEW s \in Sessions, Serving[s] = r PROVE FALSE
    OBVIOUS
  <2>1. r # NoRun
    BY <1>1, RunsAssumption
  <2> QED BY <1>2, <2>1, ServingIsHeld
<1>4. Status' = [r \in Runs |-> IF r \in verdict THEN "ended" ELSE Status[r]]
  <2>1. state' = [r \in Runs |-> IF r \in verdict THEN "failed" ELSE state[r]]
    BY DEF FinalizeStale
  <2> QED BY <2>1, MovedStatus DEF StatusOf
<1>5. Serving' = Serving
  <2>1. /\ job' = job /\ NoRun \notin verdict
        /\ slotRun' = [s \in Sessions |-> IF slotRun[s] \in verdict THEN NoRun ELSE slotRun[s]]
    BY <1>1, RunsAssumption DEF FinalizeStale, SlotRelease, procVars
  <2>2. ASSUME NEW s \in Sessions PROVE Serving'[s] = Serving[s]
    <3>1. CASE slotRun[s] \in verdict
      <4>1. slotRun'[s] = NoRun /\ \A w \in Workers : job[w] # NoRun => job[w] # slotRun[s]
        BY <1>2, <2>1, <3>1
      <4> QED BY <2>1, <4>1 DEF Serving
    <3>2. CASE slotRun[s] \notin verdict
      <4>1. slotRun'[s] = slotRun[s]
        BY <2>1, <3>2
      <4> QED BY <2>1, <4>1 DEF Serving
    <3> QED BY <3>1, <3>2
  <2> QED BY <2>2 DEF Serving
<1> QED BY <1>1, <1>3, <1>4, <1>5 DEF Queue!GiveUp, Queue!Move

-----------------------------------------------------------------------------
LEMMA ExecuteStep ==
    ASSUME TimelyInv, NEW w \in Workers, Execute(w)
    PROVE  \/ UNCHANGED queueVars
           \/ \E x \in {"ended", "queued"} : Queue!Conclude(Session(job[w]), x)
<1>1. job[w] # NoRun
  BY DEF TimelyInv, Inv, HoldersAreBusy, Execute, RefuseRun, CancelBeforeAgent, StartAgent,
         AgentRaises, AgentTimesOut, AgentCancelled, AgentReturns, BindFails, BindNoProgress,
         FailNoProgress, BindMessage, SuccessFindsCancel, SuccessChecksCancel, CommitSuccess
<1>2. CASE \/ StartAgent(w) \/ AgentReturns(w) \/ BindNoProgress(w) \/ SuccessChecksCancel(w)
           \/ \E forcedStop \in BOOLEAN : BindMessage(w, forcedStop)
  <2>1. UNCHANGED <<state, slotRun, job>>
    BY <1>2 DEF StartAgent, AgentReturns, BindNoProgress, SuccessChecksCancel, BindMessage,
                Goto, leaseVars
  <2> QED BY <2>1, StutterStep
<1>3. CASE ~(\/ StartAgent(w) \/ AgentReturns(w) \/ BindNoProgress(w) \/ SuccessChecksCancel(w)
             \/ \E forcedStop \in BOOLEAN : BindMessage(w, forcedStop))
  <2>1. PICK v \in {"pending"} \cup Terminal : Settle(w, v)
    BY <1>3 DEF Execute, RefuseRun, AgentTimesOut, BindFails, FailNoProgress, AgentRaises,
                FinishRunFailure, CancelBeforeAgent, AgentCancelled, SuccessFindsCancel,
                FinishRunCancelled, CommitSuccess
  <2>2. StatusOf(v) \in {"ended", "queued"}
    BY DEF StatusOf
  <2> QED BY <1>1, <2>1, <2>2, VerdictConcludes
<1> QED BY <1>2, <1>3

(* Every step of the code is a step of the queue, or none. *)
LEMMA StepRefines ==
    ASSUME ExecTimeout < Lease, TimelyInv, [Next]_vars
    PROVE  [Queue!Next]_queueVars
<1> USE DEF Queue!Next
<1>1. CASE Tick \/ UNCHANGED vars \/ ReadStale
  <2>1. UNCHANGED <<state, slotRun, job>>
    BY <1>1 DEF Tick, ReadStale, vars, runVars, leaseVars, procVars
  <2> QED BY <2>1, StutterStep
<1>2. CASE UserNext
  <2>1. ASSUME NEW r \in Runs, NEW new \in Runs, CreateRun(r) \/ RetryFailedRun(new, r)
        PROVE  Queue!Next
    BY <2>1, CreateEnqueues DEF RetryFailedRun
  <2>2. ASSUME NEW t \in Tasks, CancelUnstartedRuns(t) \/ RequestStopTask(t)
        PROVE  Queue!Next
    <3>1. Queue!Withdraw(RunsIn(t, "pending"))
      BY <2>2, PendingRunsAreWithdrawn
         DEF CancelUnstartedRuns, RequestStopTask, RunsIn, leaseVars, procVars
    <3>2. RunsIn(t, "pending") \in SUBSET Runs
      BY DEF RunsIn
    <3> QED BY <3>1, <3>2
  <2> QED BY <1>2, <2>1, <2>2 DEF UserNext
<1>3. ASSUME NEW w \in Workers, Heartbeat(w) \/ ClaimNothing(w) \/ Restart(w)
      PROVE  UNCHANGED queueVars
  <2>1. UNCHANGED <<state, slotRun, job>>
    BY <1>3 DEF Heartbeat, ClaimNothing, Restart, runVars, leaseVars
  <2> QED BY <2>1, StutterStep
<1>4. ASSUME NEW w \in Workers, NEW r \in Runs, ClaimRun(w, r)
      PROVE  Queue!Next
  BY <1>4, ClaimServes
<1>5. ASSUME NEW w \in Workers, Execute(w) \/ Crash(w)
      PROVE  [Queue!Next]_queueVars
  <2>1. CASE UNCHANGED queueVars
    BY <2>1
  <2>2. CASE ~UNCHANGED queueVars
    <3>1. CASE Execute(w)
      <4>1. PICK x \in {"ended", "queued"} : Queue!Conclude(Session(job[w]), x)
        BY <2>2, <3>1, ExecuteStep
      <4>2. job[w] # NoRun
        BY <3>1 DEF TimelyInv, Inv, HoldersAreBusy, Execute, RefuseRun, CancelBeforeAgent,
           StartAgent, AgentRaises, AgentTimesOut, AgentCancelled, AgentReturns, BindFails,
           BindNoProgress, FailNoProgress, BindMessage, SuccessFindsCancel,
           SuccessChecksCancel, CommitSuccess
      <4>3. Session(job[w]) \in Sessions
        BY <4>2, ServingIsHeld
      <4> QED BY <4>1, <4>3
    <3>2. CASE Crash(w)
      <4>1. Queue!Abandon(Session(job[w]))
        BY <2>2, <3>2, CrashAbandons
      <4>2. job[w] # NoRun
        BY <2>2, <3>2, StutterStep DEF Crash, runVars, leaseVars, TimelyInv, Inv, TypeOK
      <4>3. Session(job[w]) \in Sessions
        BY <4>2, ServingIsHeld
      <4> QED BY <4>1, <4>3
    <3> QED BY <1>5, <3>1, <3>2
  <2> QED BY <2>1, <2>2
<1>6. CASE FinalizeStale
  <2>1. verdict \in SUBSET Runs
    BY DEF TimelyInv, Inv, TypeOK
  <2> QED BY <1>6, <2>1, FinalizeGivesUp
<1>7. CASE FailExpiredPendingRuns
  <2>1. Queue!Withdraw(OverAge)
    BY <1>7, PendingRunsAreWithdrawn DEF FailExpiredPendingRuns, OverAge, leaseVars, procVars
  <2>2. OverAge \in SUBSET Runs
    BY DEF OverAge
  <2> QED BY <2>1, <2>2
<1> QED BY <1>1, <1>2, <1>3, <1>4, <1>5, <1>6, <1>7 DEF Next, Claim, SchedulerNext

LEMMA InitRefines == Init => Queue!Init
BY DEF Init, Queue!Init, Status, StatusOf, Serving

(* When an execution times out before its lease does, the leases, heartbeats *)
(* and clean-ups of the code amount to a queue that serves the runs of each *)
(* session one at a time and never serves again what was cut off.           *)
THEOREM QueueIsImplemented ==
    ASSUME ExecTimeout < Lease PROVE Spec => ImplementsSerialQueue
<1>1. Init => Queue!Init
  BY InitRefines
<1>2. TimelyInv /\ [Next]_vars => [Queue!Next]_queueVars
  BY StepRefines
<1> QED BY <1>1, <1>2, TimelyInvariance, PTL
        DEF Spec, ImplementsSerialQueue, Queue!Spec, queueVars

-----------------------------------------------------------------------------
(* What OccurrenceScheduler takes for granted of the executors: a row waits,  *)
(* is claimed, and ends or goes back to wait.                               *)

Lives == {<<"absent", "queued">>, <<"queued", "active">>, <<"active", "queued">>,
          <<"queued", "ended">>, <<"active", "ended">>}

RowLife == [][\A r \in Runs : \/ Status'[r] = Status[r]
                              \/ <<Status[r], Status'[r]>> \in Lives]_Status

(* A step of the queue moves each run along its life, if what a session      *)
(* serves is active.                                                        *)
LEMMA QueueStepMovesRows ==
    ASSUME \A s \in Sessions : Serving[s] # NoRun => Status[Serving[s]] = "active",
           Queue!Next, NEW r \in Runs
    PROVE  Status'[r] = Status[r] \/ <<Status[r], Status'[r]>> \in Lives
<1> USE DEF Lives, Queue!Move
<1>1. ASSUME NEW q \in Runs, Queue!Enqueue(q) \/ Queue!Serve(q)
      PROVE  Status'[r] = Status[r] \/ <<Status[r], Status'[r]>> \in Lives
  BY <1>1 DEF Queue!Enqueue, Queue!Serve
<1>2. ASSUME NEW s \in Sessions, NEW x \in {"ended", "queued"}, Queue!Conclude(s, x)
      PROVE  Status'[r] = Status[r] \/ <<Status[r], Status'[r]>> \in Lives
  BY <1>2 DEF Queue!Conclude
<1>3. ASSUME NEW s \in Sessions, Queue!Abandon(s) PROVE Status'[r] = Status[r]
  BY <1>3 DEF Queue!Abandon
<1>4. ASSUME NEW R \in SUBSET Runs, Queue!Withdraw(R) \/ Queue!GiveUp(R)
      PROVE  Status'[r] = Status[r] \/ <<Status[r], Status'[r]>> \in Lives
  BY <1>4 DEF Queue!Withdraw, Queue!GiveUp
<1> QED BY <1>1, <1>2, <1>3, <1>4 DEF Queue!Next

(* When an execution times out before its lease does, a row lives as         *)
(* OccurrenceScheduler's StartRun and EndRun say: no verdict of a holder or  *)
(* of the clean-up comes after another, and only a claim makes a row run.    *)
THEOREM RowsLiveAsScheduled ==
    ASSUME ExecTimeout < Lease PROVE Spec => RowLife
<1> DEFINE Moves == \A r \in Runs : \/ Status'[r] = Status[r]
                                    \/ <<Status[r], Status'[r]>> \in Lives
<1>1. TimelyInv /\ [Next]_vars => Moves
  <2> SUFFICES ASSUME TimelyInv, [Next]_vars, NEW r \in Runs
               PROVE  Status'[r] = Status[r] \/ <<Status[r], Status'[r]>> \in Lives
    OBVIOUS
  <2>1. \A s \in Sessions : Serving[s] # NoRun => Status[Serving[s]] = "active"
    <3>1. ASSUME NEW s \in Sessions, Serving[s] # NoRun PROVE Status[Serving[s]] = "active"
      <4>1. PICK w \in Workers : job[w] # NoRun /\ Serving[s] = job[w]
        BY <3>1, ServingIsHeld
      <4>2. job[w] \in Runs /\ state[job[w]] = "running"
        BY <4>1 DEF TimelyInv, Inv, TypeOK, HeldRunsAreCovered
      <4> QED BY <4>1, <4>2 DEF Status, StatusOf
    <3> QED BY <3>1
  <2>2. CASE UNCHANGED queueVars
    BY <2>2 DEF queueVars
  <2>3. CASE Queue!Next
    BY <2>1, <2>3, QueueStepMovesRows
  <2> QED BY <2>2, <2>3, StepRefines
<1> QED BY <1>1, TimelyInvariance, PTL DEF Spec, RowLife
=============================================================================
