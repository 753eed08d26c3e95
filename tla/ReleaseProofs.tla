--------------------------- MODULE ReleaseProofs ---------------------------
(***************************************************************************)
(* The safety properties of ReleaseDelivery for any number of releases and *)
(* faults.                                                                 *)
(***************************************************************************)
EXTENDS ReleaseDelivery, TLAPS

(* The steps before the verdict is in the file. *)
Undecided == DeploySteps \ {"publish", "post"}

(* What the holder of the operation lock works on. *)
OpIsSound ==
    /\ op.at \in DeploySteps => op.release \in Releases
    /\ op.at \notin DeploySteps => op.release = None
    /\ op.at = "free" => op = Free
    /\ op.at \in DeploySteps => request[op.release] = "taken"
    /\ op.todo \subseteq pending

(* A baseline in use is the one in the file. *)
BaseIsHealthy ==
    /\ op.at \in {"reapply", "recheck", "undo", "verify"}
        => op.base \in Releases /\ op.base = file.healthy
    /\ rollback.call = "sent" => file.healthy # None

(* The phase in the file against the step of the deployment. *)
PhaseFollowsStep ==
    /\ file.phase = "received" => op.at \in Undecided
    /\ op.at \in Undecided =>
           /\ file.phase \in {"received", "reconciliation_required"}
           /\ file.current = op.release /\ op.release \notin proven
           /\ file.phase # "received" => op.release \in interrupted
    /\ op.at = "publish" => file.phase \in Verdicts
    /\ op.at = "publish" =>
           (file.phase = "succeeded" <=> op.release \in proven)

(* What runs, where the next check decides about it. *)
AppliedIsRunning ==
    /\ op.at = "check" => running = op.release
    /\ op.at \in {"recheck", "verify"} => running = op.base

(* Only what was deployed is reported, and only at the end. *)
ReportsAreLate ==
    /\ \A e \in Reports : request[e.release] = "taken"
    /\ \A e \in Reports : op.at \in DeploySteps \ {"post"} => e.release # op.release
    /\ \A r \in proven : request[r] = "taken"
    /\ \A r \in Releases : hook[r] = "none" => request[r] = "none"
    /\ op.at = "post" =>
           \E e \in audits \union pending : e.release = op.release

Inv ==
    /\ TypeOK /\ OpIsSound /\ BaseIsHealthy /\ PhaseFollowsStep
    /\ AppliedIsRunning /\ ReportsAreLate
    /\ OneVerdict /\ VerdictsAreTrue /\ BaselineIsRunning /\ ReportedOrOwed

(* The initial state satisfies the inductive invariant. *)
LEMMA InitHolds == Init => Inv
  <1> SUFFICES ASSUME Init PROVE Inv
    OBVIOUS
  <1> USE ReleaseAssumption DEF Init
  <1>1. TypeOK
    BY DEF TypeOK, Events, Phases, Verdicts, DeploySteps, UndoSteps, Free,
       Holding
  <1>2. OpIsSound /\ BaseIsHealthy /\ PhaseFollowsStep /\ AppliedIsRunning
    BY DEF OpIsSound, BaseIsHealthy, PhaseFollowsStep, AppliedIsRunning,
           Undecided, DeploySteps, Free, Holding
  <1>3. ReportsAreLate /\ OneVerdict
    BY DEF ReportsAreLate, OneVerdict, Reports, DeploySteps, Free, Holding
  <1>4. VerdictsAreTrue /\ BaselineIsRunning /\ ReportedOrOwed
    BY DEF VerdictsAreTrue, BaselineIsRunning, ReportedOrOwed, Reports
  <1> QED
    BY <1>1, <1>2, <1>3, <1>4 DEF Inv

(* Types: an event is queued only with a verdict in the file. *)
LEMMA TypesKept == Inv /\ [Next]_vars => TypeOK'
  <1> SUFFICES ASSUME Inv, [Next]_vars PROVE TypeOK'
    OBVIOUS
  <1> USE DEF gap, runner, history
  <1>1. ASSUME NEW r \in Releases, AcceptHook(r) PROVE TypeOK'
    BY <1>1 DEF Inv, OpIsSound, BaseIsHealthy, TypeOK, Events, Phases,
       Verdicts, DeploySteps, UndoSteps, AcceptHook
  <1>2. ASSUME HookAnswered PROVE TypeOK'
    BY <1>2 DEF Inv, OpIsSound, BaseIsHealthy, TypeOK, Events, Phases,
       Verdicts, DeploySteps, UndoSteps, HookAnswered
  <1>3. ASSUME DispatchFails PROVE TypeOK'
    BY <1>3 DEF Inv, OpIsSound, BaseIsHealthy, TypeOK, Events, Phases,
       Verdicts, DeploySteps, UndoSteps, DispatchFails
  <1>4. ASSUME GapStops PROVE TypeOK'
    BY <1>4 DEF Inv, OpIsSound, BaseIsHealthy, TypeOK, Events, Phases,
       Verdicts, DeploySteps, UndoSteps, GapStops
  <1>5. ASSUME NEW r \in Releases, PrepareDeploy(r) PROVE TypeOK'
    BY <1>5 DEF Inv, OpIsSound, BaseIsHealthy, TypeOK, Events, Phases,
       Verdicts, DeploySteps, UndoSteps, PrepareDeploy, Holding,
       RecordReceived, Record
  <1>6. ASSUME BeginDeploy PROVE TypeOK'
    BY <1>6 DEF Inv, OpIsSound, BaseIsHealthy, TypeOK, Events, Phases,
       Verdicts, DeploySteps, UndoSteps, BeginDeploy, RecordReceived, Record
  <1>7. ASSUME ApplyRelease PROVE TypeOK'
    BY <1>7 DEF Inv, OpIsSound, BaseIsHealthy, TypeOK, Events, Phases,
       Verdicts, DeploySteps, UndoSteps, ApplyRelease, Applied, ApplyRaises
  <1>8. ASSUME CheckPasses PROVE TypeOK'
    BY <1>8 DEF Inv, OpIsSound, BaseIsHealthy, TypeOK, Events, Phases,
       Verdicts, DeploySteps, UndoSteps, CheckPasses, RecordSuccess, Record
  <1>9. ASSUME CheckFails PROVE TypeOK'
    BY <1>9 DEF Inv, OpIsSound, BaseIsHealthy, TypeOK, Events, Phases,
       Verdicts, DeploySteps, UndoSteps, CheckFails, RecordTerminal, Record,
       Holding
  <1>10. ASSUME Reapply PROVE TypeOK'
    BY <1>10 DEF Inv, OpIsSound, BaseIsHealthy, TypeOK, Events, Phases,
       Verdicts, DeploySteps, UndoSteps, Reapply, Applied, ApplyRaises
  <1>11. ASSUME Recheck PROVE TypeOK'
    BY <1>11 DEF Inv, OpIsSound, BaseIsHealthy, TypeOK, Events, Phases,
       Verdicts, DeploySteps, UndoSteps, Recheck, RecordTerminal, Record
  <1>12. ASSUME Raised PROVE TypeOK'
    BY <1>12 DEF Inv, OpIsSound, BaseIsHealthy, TypeOK, Events, Phases,
       Verdicts, DeploySteps, UndoSteps, Raised, RecordTerminal, Record,
       Free, Holding
  <1>13. ASSUME Publish PROVE TypeOK'
    <2>1. [release |-> op.release, status |-> file.phase] \in Events
      BY <1>13 DEF Inv, OpIsSound, PhaseFollowsStep, Publish, Events,
         DeploySteps
    <2> QED
      BY <1>13, <2>1 DEF Inv, TypeOK, DeploySteps, UndoSteps, Publish, Queued,
         Holding
  <1>14. ASSUME NEW e \in Events, PostAnswered(e) PROVE TypeOK'
    BY <1>14 DEF Inv, OpIsSound, BaseIsHealthy, TypeOK, Events, Phases,
       Verdicts, DeploySteps, UndoSteps, PostAnswered, Foremost,
       RecordAudit, SyncSiteVersion
  <1>15. ASSUME NEW e \in Events, PostFails(e) PROVE TypeOK'
    BY <1>15 DEF Inv, OpIsSound, BaseIsHealthy, TypeOK, Events, Phases,
       Verdicts, DeploySteps, UndoSteps, PostFails, Foremost
  <1>16. ASSUME PostsDone PROVE TypeOK'
    BY <1>16 DEF Inv, OpIsSound, BaseIsHealthy, TypeOK, Events, Phases,
       Verdicts, DeploySteps, UndoSteps, PostsDone, Free, Holding
  <1>17. ASSUME NEW e \in Events, LateCallback(e) PROVE TypeOK'
    BY <1>17 DEF Inv, OpIsSound, BaseIsHealthy, TypeOK, Events, Phases,
       Verdicts, DeploySteps, UndoSteps, LateCallback, RecordAudit,
       SyncSiteVersion
  <1>18. ASSUME SubmitRollback PROVE TypeOK'
    <2>1. rollback' \in [displayed : Releases \union {None},
                          restored  : Releases \union {None},
                          row  : {"none", "pending", "submitted", "failed"},
                          call : {"none", "sent", "serving", "done", "refused"}]
      BY <1>18 DEF Inv, TypeOK, SubmitRollback
    <2> QED
      BY <1>18, <2>1 DEF Inv, TypeOK, SubmitRollback
  <1>19. ASSUME BeginRollback PROVE TypeOK'
    BY <1>19 DEF Inv, OpIsSound, BaseIsHealthy, TypeOK, Events, Phases,
       Verdicts, DeploySteps, UndoSteps, BeginRollback, Holding
  <1>20. ASSUME Undo PROVE TypeOK'
    BY <1>20 DEF Inv, OpIsSound, BaseIsHealthy, TypeOK, Events, Phases,
       Verdicts, DeploySteps, UndoSteps, Undo, Applied, ApplyRaises, Free,
       Holding
  <1>21. ASSUME VerifyUndo PROVE TypeOK'
    <2>1. rollback' \in [displayed : Releases \union {None},
                          restored  : Releases \union {None},
                          row  : {"none", "pending", "submitted", "failed"},
                          call : {"none", "sent", "serving", "done", "refused"}]
      <3>1. op.base \in Releases
        BY <1>21 DEF Inv, BaseIsHealthy, VerifyUndo
      <3>2. rollback \in [displayed : Releases \union {None},
                          restored  : Releases \union {None},
                          row  : {"none", "pending", "submitted", "failed"},
                          call : {"none", "sent", "serving", "done", "refused"}]
        BY DEF Inv, TypeOK
      <3>3. \/ rollback' = [rollback EXCEPT !.call = "done", !.restored = op.base]
            \/ rollback' = [rollback EXCEPT !.call = "refused"]
        BY <1>21 DEF VerifyUndo
      <3> QED BY <3>1, <3>2, <3>3
    <2>2. /\ file' \in [phase : Phases, current : Releases \union {None},
                        healthy : Releases \union {None}]
          /\ proven' \subseteq Releases
      BY <1>21 DEF Inv, TypeOK, BaseIsHealthy, VerifyUndo, RecordSuccess, Record, Phases, Verdicts
    <2>3. op' \in [at : DeploySteps \union UndoSteps \union {"free"},
                   release : Releases \union {None}, base : Releases \union {None},
                   todo : SUBSET Events]
      BY <1>21 DEF VerifyUndo, Free, Holding
    <2> QED
      BY <1>21, <2>1, <2>2, <2>3 DEF Inv, TypeOK, VerifyUndo
  <1>22. ASSUME FinishRollback PROVE TypeOK'
    BY <1>22 DEF Inv, OpIsSound, BaseIsHealthy, TypeOK, Events, Phases,
       Verdicts, DeploySteps, UndoSteps, FinishRollback
  <1>23. ASSUME RunnerCrashes PROVE TypeOK'
    BY <1>23, ReleaseAssumption DEF Inv, OpIsSound, BaseIsHealthy, TypeOK,
       Events, Phases, Verdicts, DeploySteps, UndoSteps, RunnerCrashes,
       Reconciled, Free, Holding
  <1>24. ASSUME CliOpens PROVE TypeOK'
    BY <1>24, ReleaseAssumption DEF Inv, OpIsSound, BaseIsHealthy, TypeOK,
       Events, Phases, Verdicts, DeploySteps, UndoSteps, CliOpens,
       Reconciled, PhaseFollowsStep, Undecided
  <1>25. CASE UNCHANGED <<hook, asking, audits, synced, site, rollback, request, inflight, file, pending, late, op, running, earlier, proven, interrupted, faults>>
    BY <1>25 DEF Inv, OpIsSound, BaseIsHealthy, TypeOK, Events, Phases,
       Verdicts, DeploySteps, UndoSteps
  <1> QED
    BY <1>1, <1>2, <1>3, <1>4, <1>5, <1>6, <1>7, <1>8, <1>9, <1>10, <1>11,
       <1>12, <1>13, <1>14, <1>15, <1>16, <1>17, <1>18, <1>19, <1>20, <1>21,
       <1>22, <1>23, <1>24, <1>25 DEF Next, OperationStep, vars

(* The holder of the lock: a deployment was taken once, before it began. *)
LEMMA OpKept == Inv /\ [Next]_vars => OpIsSound'
  <1> SUFFICES ASSUME Inv, [Next]_vars PROVE OpIsSound'
    OBVIOUS
  <1> USE DEF gap, runner, history
  <1>1. ASSUME NEW r \in Releases, AcceptHook(r) PROVE OpIsSound'
    BY <1>1 DEF Inv, OpIsSound, ReportsAreLate, TypeOK, DeploySteps,
       UndoSteps, AcceptHook
  <1>2. ASSUME NEW r \in Releases, PrepareDeploy(r) PROVE OpIsSound'
    BY <1>2 DEF Inv, OpIsSound, ReportsAreLate, TypeOK, DeploySteps,
       UndoSteps, PrepareDeploy, Holding, RecordReceived, Record
  <1>3. ASSUME BeginDeploy PROVE OpIsSound'
    BY <1>3 DEF Inv, OpIsSound, ReportsAreLate, TypeOK, DeploySteps,
       UndoSteps, BeginDeploy, RecordReceived, Record
  <1>4. ASSUME ApplyRelease PROVE OpIsSound'
    BY <1>4 DEF Inv, OpIsSound, ReportsAreLate, TypeOK, DeploySteps,
       UndoSteps, ApplyRelease, Applied, ApplyRaises
  <1>5. ASSUME CheckPasses PROVE OpIsSound'
    BY <1>5 DEF Inv, OpIsSound, ReportsAreLate, TypeOK, DeploySteps,
       UndoSteps, CheckPasses, RecordSuccess, Record
  <1>6. ASSUME CheckFails PROVE OpIsSound'
    BY <1>6 DEF Inv, OpIsSound, ReportsAreLate, TypeOK, DeploySteps,
       UndoSteps, CheckFails, RecordTerminal, Record, Holding
  <1>7. ASSUME Reapply PROVE OpIsSound'
    BY <1>7 DEF Inv, OpIsSound, ReportsAreLate, TypeOK, DeploySteps,
       UndoSteps, Reapply, Applied, ApplyRaises
  <1>8. ASSUME Recheck PROVE OpIsSound'
    BY <1>8 DEF Inv, OpIsSound, ReportsAreLate, TypeOK, DeploySteps,
       UndoSteps, Recheck, RecordTerminal, Record
  <1>9. ASSUME Raised PROVE OpIsSound'
    BY <1>9 DEF Inv, OpIsSound, ReportsAreLate, TypeOK, DeploySteps,
       UndoSteps, Raised, RecordTerminal, Record, Free, Holding
  <1>10. ASSUME Publish PROVE OpIsSound'
    BY <1>10 DEF Inv, OpIsSound, ReportsAreLate, TypeOK, DeploySteps,
       UndoSteps, Publish, Queued, Holding
  <1>11. ASSUME NEW e \in Events, PostAnswered(e) PROVE OpIsSound'
    BY <1>11 DEF Inv, OpIsSound, ReportsAreLate, TypeOK, DeploySteps,
       UndoSteps, PostAnswered, Foremost, RecordAudit, SyncSiteVersion
  <1>12. ASSUME NEW e \in Events, PostFails(e) PROVE OpIsSound'
    BY <1>12 DEF Inv, OpIsSound, ReportsAreLate, TypeOK, DeploySteps,
       UndoSteps, PostFails, Foremost
  <1>13. ASSUME PostsDone PROVE OpIsSound'
    BY <1>13 DEF Inv, OpIsSound, ReportsAreLate, TypeOK, DeploySteps,
       UndoSteps, PostsDone, Free, Holding
  <1>14. ASSUME BeginRollback PROVE OpIsSound'
    BY <1>14 DEF Inv, OpIsSound, ReportsAreLate, TypeOK, DeploySteps,
       UndoSteps, BeginRollback, Holding
  <1>15. ASSUME Undo PROVE OpIsSound'
    BY <1>15 DEF Inv, OpIsSound, ReportsAreLate, TypeOK, DeploySteps,
       UndoSteps, Undo, Applied, ApplyRaises, Free, Holding
  <1>16. ASSUME VerifyUndo PROVE OpIsSound'
    BY <1>16 DEF Inv, OpIsSound, ReportsAreLate, TypeOK, DeploySteps,
       UndoSteps, VerifyUndo, RecordSuccess, Record, Free, Holding
  <1>17. ASSUME RunnerCrashes PROVE OpIsSound'
    BY <1>17 DEF Inv, OpIsSound, ReportsAreLate, TypeOK, DeploySteps,
       UndoSteps, RunnerCrashes, Reconciled, Free, Holding
  <1>18. CASE UNCHANGED <<op, request, pending>>
    BY <1>18 DEF Inv, OpIsSound, ReportsAreLate, TypeOK, DeploySteps, UndoSteps
  <1> QED
    BY <1>1, <1>2, <1>3, <1>4, <1>5, <1>6, <1>7, <1>8, <1>9, <1>10, <1>11,
       <1>12, <1>13, <1>14, <1>15, <1>16, <1>17, <1>18 DEF Next,
       OperationStep, vars, HookAnswered, DispatchFails, GapStops,
       LateCallback, SubmitRollback, FinishRollback, CliOpens

(* Nobody but the holder of the lock moves the baseline it works with. *)
LEMMA BaseKept == Inv /\ [Next]_vars => BaseIsHealthy'
  <1> SUFFICES ASSUME Inv, [Next]_vars PROVE BaseIsHealthy'
    OBVIOUS
  <1> USE DEF gap, runner, history
  <1>1. ASSUME NEW r \in Releases, PrepareDeploy(r) PROVE BaseIsHealthy'
    BY <1>1 DEF Inv, OpIsSound, BaseIsHealthy, TypeOK, DeploySteps,
       UndoSteps, PrepareDeploy, Holding, RecordReceived, Record
  <1>2. ASSUME BeginDeploy PROVE BaseIsHealthy'
    BY <1>2 DEF Inv, OpIsSound, BaseIsHealthy, TypeOK, DeploySteps,
       UndoSteps, BeginDeploy, RecordReceived, Record
  <1>3. ASSUME ApplyRelease PROVE BaseIsHealthy'
    BY <1>3 DEF Inv, OpIsSound, BaseIsHealthy, TypeOK, DeploySteps,
       UndoSteps, ApplyRelease, Applied, ApplyRaises
  <1>4. ASSUME CheckPasses PROVE BaseIsHealthy'
    BY <1>4, ReleaseAssumption DEF Inv, OpIsSound, BaseIsHealthy, TypeOK,
       DeploySteps, UndoSteps, CheckPasses, RecordSuccess, Record
  <1>5. ASSUME CheckFails PROVE BaseIsHealthy'
    BY <1>5 DEF Inv, OpIsSound, BaseIsHealthy, TypeOK, DeploySteps,
       UndoSteps, CheckFails, RecordTerminal, Record, Holding
  <1>6. ASSUME Reapply PROVE BaseIsHealthy'
    BY <1>6 DEF Inv, OpIsSound, BaseIsHealthy, TypeOK, DeploySteps,
       UndoSteps, Reapply, Applied, ApplyRaises
  <1>7. ASSUME Recheck PROVE BaseIsHealthy'
    BY <1>7 DEF Inv, OpIsSound, BaseIsHealthy, TypeOK, DeploySteps,
       UndoSteps, Recheck, RecordTerminal, Record
  <1>8. ASSUME Raised PROVE BaseIsHealthy'
    BY <1>8 DEF Inv, OpIsSound, BaseIsHealthy, TypeOK, DeploySteps,
       UndoSteps, Raised, RecordTerminal, Record, Free, Holding
  <1>9. ASSUME Publish PROVE BaseIsHealthy'
    BY <1>9 DEF Inv, OpIsSound, BaseIsHealthy, TypeOK, DeploySteps,
       UndoSteps, Publish, Queued, Holding
  <1>10. ASSUME NEW e \in Events, PostAnswered(e) PROVE BaseIsHealthy'
    BY <1>10 DEF Inv, OpIsSound, BaseIsHealthy, TypeOK, DeploySteps,
       UndoSteps, PostAnswered, Foremost, RecordAudit, SyncSiteVersion
  <1>11. ASSUME NEW e \in Events, PostFails(e) PROVE BaseIsHealthy'
    BY <1>11 DEF Inv, OpIsSound, BaseIsHealthy, TypeOK, DeploySteps,
       UndoSteps, PostFails, Foremost
  <1>12. ASSUME PostsDone PROVE BaseIsHealthy'
    BY <1>12 DEF Inv, OpIsSound, BaseIsHealthy, TypeOK, DeploySteps,
       UndoSteps, PostsDone, Free, Holding
  <1>13. ASSUME SubmitRollback PROVE BaseIsHealthy'
    BY <1>13 DEF Inv, OpIsSound, BaseIsHealthy, TypeOK, DeploySteps,
       UndoSteps, SubmitRollback
  <1>14. ASSUME BeginRollback PROVE BaseIsHealthy'
    BY <1>14, ReleaseAssumption DEF Inv, OpIsSound, BaseIsHealthy, TypeOK,
       DeploySteps, UndoSteps, BeginRollback, Holding
  <1>15. ASSUME Undo PROVE BaseIsHealthy'
    BY <1>15 DEF Inv, OpIsSound, BaseIsHealthy, TypeOK, DeploySteps,
       UndoSteps, Undo, Applied, ApplyRaises, Free, Holding
  <1>16. ASSUME VerifyUndo PROVE BaseIsHealthy'
    BY <1>16, ReleaseAssumption DEF Inv, OpIsSound, BaseIsHealthy, TypeOK,
       DeploySteps, UndoSteps, VerifyUndo, RecordSuccess, Record, Free,
       Holding
  <1>17. ASSUME FinishRollback PROVE BaseIsHealthy'
    BY <1>17 DEF Inv, OpIsSound, BaseIsHealthy, TypeOK, DeploySteps,
       UndoSteps, FinishRollback
  <1>18. ASSUME RunnerCrashes PROVE BaseIsHealthy'
    BY <1>18 DEF Inv, OpIsSound, BaseIsHealthy, TypeOK, DeploySteps,
       UndoSteps, RunnerCrashes, Reconciled, Free, Holding
  <1>19. ASSUME CliOpens PROVE BaseIsHealthy'
    BY <1>19 DEF Inv, OpIsSound, BaseIsHealthy, TypeOK, DeploySteps,
       UndoSteps, CliOpens, Reconciled
  <1>20. CASE UNCHANGED <<op, file, rollback>>
    BY <1>20 DEF Inv, OpIsSound, BaseIsHealthy, TypeOK, DeploySteps, UndoSteps
  <1> QED
    BY <1>1, <1>2, <1>3, <1>4, <1>5, <1>6, <1>7, <1>8, <1>9, <1>10, <1>11,
       <1>12, <1>13, <1>14, <1>15, <1>16, <1>17, <1>18, <1>19, <1>20 DEF
       Next, OperationStep, vars, AcceptHook, HookAnswered, DispatchFails,
       GapStops, LateCallback

(* The phase is active only before the verdict; the CLI changes it only then. *)
LEMMA PhaseKept == Inv /\ [Next]_vars => PhaseFollowsStep'
  <1> SUFFICES ASSUME Inv, [Next]_vars PROVE PhaseFollowsStep'
    OBVIOUS
  <1> USE DEF gap, runner, history
  <1>1. ASSUME NEW r \in Releases, PrepareDeploy(r) PROVE PhaseFollowsStep'
    BY <1>1 DEF Inv, OpIsSound, BaseIsHealthy, PhaseFollowsStep,
       ReportsAreLate, VerdictsAreTrue, Undecided, TypeOK, Verdicts,
       DeploySteps, UndoSteps, PrepareDeploy, Holding, RecordReceived,
       Record
  <1>2. ASSUME BeginDeploy PROVE PhaseFollowsStep'
    BY <1>2 DEF Inv, OpIsSound, BaseIsHealthy, PhaseFollowsStep,
       ReportsAreLate, VerdictsAreTrue, Undecided, TypeOK, Verdicts,
       DeploySteps, UndoSteps, BeginDeploy, RecordReceived, Record
  <1>3. ASSUME ApplyRelease PROVE PhaseFollowsStep'
    BY <1>3 DEF Inv, OpIsSound, BaseIsHealthy, PhaseFollowsStep,
       ReportsAreLate, VerdictsAreTrue, Undecided, TypeOK, Verdicts,
       DeploySteps, UndoSteps, ApplyRelease, Applied, ApplyRaises
  <1>4. ASSUME CheckPasses PROVE PhaseFollowsStep'
    BY <1>4 DEF Inv, OpIsSound, BaseIsHealthy, PhaseFollowsStep,
       ReportsAreLate, VerdictsAreTrue, Undecided, TypeOK, Verdicts,
       DeploySteps, UndoSteps, CheckPasses, RecordSuccess, Record
  <1>5. ASSUME CheckFails PROVE PhaseFollowsStep'
    BY <1>5 DEF Inv, OpIsSound, BaseIsHealthy, PhaseFollowsStep,
       ReportsAreLate, VerdictsAreTrue, Undecided, TypeOK, Verdicts,
       DeploySteps, UndoSteps, CheckFails, RecordTerminal, Record, Holding
  <1>6. ASSUME Reapply PROVE PhaseFollowsStep'
    BY <1>6 DEF Inv, OpIsSound, BaseIsHealthy, PhaseFollowsStep,
       ReportsAreLate, VerdictsAreTrue, Undecided, TypeOK, Verdicts,
       DeploySteps, UndoSteps, Reapply, Applied, ApplyRaises
  <1>7. ASSUME Recheck PROVE PhaseFollowsStep'
    BY <1>7 DEF Inv, OpIsSound, BaseIsHealthy, PhaseFollowsStep,
       ReportsAreLate, VerdictsAreTrue, Undecided, TypeOK, Verdicts,
       DeploySteps, UndoSteps, Recheck, RecordTerminal, Record
  <1>8. ASSUME Raised PROVE PhaseFollowsStep'
    BY <1>8 DEF Inv, OpIsSound, BaseIsHealthy, PhaseFollowsStep,
       ReportsAreLate, VerdictsAreTrue, Undecided, TypeOK, Verdicts,
       DeploySteps, UndoSteps, Raised, RecordTerminal, Record, Free, Holding
  <1>9. ASSUME Publish PROVE PhaseFollowsStep'
    BY <1>9 DEF Inv, OpIsSound, BaseIsHealthy, PhaseFollowsStep,
       ReportsAreLate, VerdictsAreTrue, Undecided, TypeOK, Verdicts,
       DeploySteps, UndoSteps, Publish, Queued, Holding
  <1>10. ASSUME NEW e \in Events, PostAnswered(e) PROVE PhaseFollowsStep'
    BY <1>10 DEF Inv, OpIsSound, BaseIsHealthy, PhaseFollowsStep,
       ReportsAreLate, VerdictsAreTrue, Undecided, TypeOK, Verdicts,
       DeploySteps, UndoSteps, PostAnswered, Foremost, RecordAudit,
       SyncSiteVersion
  <1>11. ASSUME NEW e \in Events, PostFails(e) PROVE PhaseFollowsStep'
    BY <1>11 DEF Inv, OpIsSound, BaseIsHealthy, PhaseFollowsStep,
       ReportsAreLate, VerdictsAreTrue, Undecided, TypeOK, Verdicts,
       DeploySteps, UndoSteps, PostFails, Foremost
  <1>12. ASSUME PostsDone PROVE PhaseFollowsStep'
    BY <1>12 DEF Inv, OpIsSound, BaseIsHealthy, PhaseFollowsStep,
       ReportsAreLate, VerdictsAreTrue, Undecided, TypeOK, Verdicts,
       DeploySteps, UndoSteps, PostsDone, Free, Holding
  <1>13. ASSUME BeginRollback PROVE PhaseFollowsStep'
    BY <1>13 DEF Inv, OpIsSound, BaseIsHealthy, PhaseFollowsStep,
       ReportsAreLate, VerdictsAreTrue, Undecided, TypeOK, Verdicts,
       DeploySteps, UndoSteps, BeginRollback, Holding
  <1>14. ASSUME Undo PROVE PhaseFollowsStep'
    BY <1>14 DEF Inv, OpIsSound, BaseIsHealthy, PhaseFollowsStep,
       ReportsAreLate, VerdictsAreTrue, Undecided, TypeOK, Verdicts,
       DeploySteps, UndoSteps, Undo, Applied, ApplyRaises, Free, Holding
  <1>15. ASSUME VerifyUndo PROVE PhaseFollowsStep'
    BY <1>15 DEF Inv, OpIsSound, BaseIsHealthy, PhaseFollowsStep,
       ReportsAreLate, VerdictsAreTrue, Undecided, TypeOK, Verdicts,
       DeploySteps, UndoSteps, VerifyUndo, RecordSuccess, Record, Free,
       Holding
  <1>16. ASSUME RunnerCrashes PROVE PhaseFollowsStep'
    BY <1>16 DEF Inv, OpIsSound, BaseIsHealthy, PhaseFollowsStep,
       ReportsAreLate, VerdictsAreTrue, Undecided, TypeOK, Verdicts,
       DeploySteps, UndoSteps, RunnerCrashes, Reconciled, Free, Holding
  <1>17. ASSUME CliOpens PROVE PhaseFollowsStep'
    BY <1>17 DEF Inv, OpIsSound, BaseIsHealthy, PhaseFollowsStep,
       ReportsAreLate, VerdictsAreTrue, Undecided, TypeOK, Verdicts,
       DeploySteps, UndoSteps, CliOpens, Reconciled
  <1>18. CASE UNCHANGED <<op, file, proven, interrupted>>
    BY <1>18 DEF Inv, OpIsSound, BaseIsHealthy, PhaseFollowsStep,
       ReportsAreLate, VerdictsAreTrue, Undecided, TypeOK, Verdicts,
       DeploySteps, UndoSteps
  <1> QED
    BY <1>1, <1>2, <1>3, <1>4, <1>5, <1>6, <1>7, <1>8, <1>9, <1>10, <1>11,
       <1>12, <1>13, <1>14, <1>15, <1>16, <1>17, <1>18 DEF Next,
       OperationStep, vars, AcceptHook, HookAnswered, DispatchFails,
       GapStops, LateCallback, SubmitRollback, FinishRollback

(* What a check judges is what the step before it applied. *)
LEMMA RunningKept == Inv /\ [Next]_vars => AppliedIsRunning'
  <1> SUFFICES ASSUME Inv, [Next]_vars PROVE AppliedIsRunning'
    OBVIOUS
  <1> USE DEF gap, runner, history
  <1>1. ASSUME NEW r \in Releases, PrepareDeploy(r) PROVE AppliedIsRunning'
    BY <1>1 DEF Inv, OpIsSound, AppliedIsRunning, TypeOK, DeploySteps,
       UndoSteps, PrepareDeploy, Holding, RecordReceived, Record
  <1>2. ASSUME BeginDeploy PROVE AppliedIsRunning'
    BY <1>2 DEF Inv, OpIsSound, AppliedIsRunning, TypeOK, DeploySteps,
       UndoSteps, BeginDeploy, RecordReceived, Record
  <1>3. ASSUME ApplyRelease PROVE AppliedIsRunning'
    BY <1>3 DEF Inv, OpIsSound, AppliedIsRunning, TypeOK, DeploySteps,
       UndoSteps, ApplyRelease, Applied, ApplyRaises
  <1>4. ASSUME CheckPasses PROVE AppliedIsRunning'
    BY <1>4 DEF Inv, OpIsSound, AppliedIsRunning, TypeOK, DeploySteps,
       UndoSteps, CheckPasses, RecordSuccess, Record
  <1>5. ASSUME CheckFails PROVE AppliedIsRunning'
    BY <1>5 DEF Inv, OpIsSound, AppliedIsRunning, TypeOK, DeploySteps,
       UndoSteps, CheckFails, RecordTerminal, Record, Holding
  <1>6. ASSUME Reapply PROVE AppliedIsRunning'
    BY <1>6 DEF Inv, OpIsSound, AppliedIsRunning, TypeOK, DeploySteps,
       UndoSteps, Reapply, Applied, ApplyRaises
  <1>7. ASSUME Recheck PROVE AppliedIsRunning'
    BY <1>7 DEF Inv, OpIsSound, AppliedIsRunning, TypeOK, DeploySteps,
       UndoSteps, Recheck, RecordTerminal, Record
  <1>8. ASSUME Raised PROVE AppliedIsRunning'
    BY <1>8 DEF Inv, OpIsSound, AppliedIsRunning, TypeOK, DeploySteps,
       UndoSteps, Raised, RecordTerminal, Record, Free, Holding
  <1>9. ASSUME Publish PROVE AppliedIsRunning'
    BY <1>9 DEF Inv, OpIsSound, AppliedIsRunning, TypeOK, DeploySteps,
       UndoSteps, Publish, Queued, Holding
  <1>10. ASSUME NEW e \in Events, PostAnswered(e) PROVE AppliedIsRunning'
    BY <1>10 DEF Inv, OpIsSound, AppliedIsRunning, TypeOK, DeploySteps,
       UndoSteps, PostAnswered, Foremost, RecordAudit, SyncSiteVersion
  <1>11. ASSUME NEW e \in Events, PostFails(e) PROVE AppliedIsRunning'
    BY <1>11 DEF Inv, OpIsSound, AppliedIsRunning, TypeOK, DeploySteps,
       UndoSteps, PostFails, Foremost
  <1>12. ASSUME PostsDone PROVE AppliedIsRunning'
    BY <1>12 DEF Inv, OpIsSound, AppliedIsRunning, TypeOK, DeploySteps,
       UndoSteps, PostsDone, Free, Holding
  <1>13. ASSUME BeginRollback PROVE AppliedIsRunning'
    BY <1>13 DEF Inv, OpIsSound, AppliedIsRunning, TypeOK, DeploySteps,
       UndoSteps, BeginRollback, Holding
  <1>14. ASSUME Undo PROVE AppliedIsRunning'
    BY <1>14 DEF Inv, OpIsSound, AppliedIsRunning, TypeOK, DeploySteps,
       UndoSteps, Undo, Applied, ApplyRaises, Free, Holding
  <1>15. ASSUME VerifyUndo PROVE AppliedIsRunning'
    BY <1>15 DEF Inv, OpIsSound, AppliedIsRunning, TypeOK, DeploySteps,
       UndoSteps, VerifyUndo, RecordSuccess, Record, Free, Holding
  <1>16. ASSUME RunnerCrashes PROVE AppliedIsRunning'
    BY <1>16 DEF Inv, OpIsSound, AppliedIsRunning, TypeOK, DeploySteps,
       UndoSteps, RunnerCrashes, Reconciled, Free, Holding
  <1>17. CASE UNCHANGED <<op, running>>
    BY <1>17 DEF Inv, OpIsSound, AppliedIsRunning, TypeOK, DeploySteps,
       UndoSteps
  <1> QED
    BY <1>1, <1>2, <1>3, <1>4, <1>5, <1>6, <1>7, <1>8, <1>9, <1>10, <1>11,
       <1>12, <1>13, <1>14, <1>15, <1>16, <1>17 DEF Next, OperationStep,
       vars, AcceptHook, HookAnswered, DispatchFails, GapStops,
       LateCallback, SubmitRollback, FinishRollback, CliOpens

(* A release is not reported before its verdict is queued. *)
LEMMA ReportsKept == Inv /\ [Next]_vars => ReportsAreLate'
  <1> SUFFICES ASSUME Inv, [Next]_vars PROVE ReportsAreLate'
    OBVIOUS
  <1> USE DEF gap, runner, history
  <1>1. ASSUME NEW r \in Releases, AcceptHook(r) PROVE ReportsAreLate'
    BY <1>1 DEF Inv, OpIsSound, BaseIsHealthy, ReportsAreLate,
       VerdictsAreTrue, Reports, TypeOK, DeploySteps, UndoSteps, AcceptHook
  <1>2. ASSUME DispatchFails PROVE ReportsAreLate'
    BY <1>2 DEF Inv, OpIsSound, BaseIsHealthy, ReportsAreLate,
       VerdictsAreTrue, Reports, TypeOK, DeploySteps, UndoSteps,
       DispatchFails
  <1>3. ASSUME NEW r \in Releases, PrepareDeploy(r) PROVE ReportsAreLate'
    BY <1>3 DEF Inv, OpIsSound, BaseIsHealthy, ReportsAreLate,
       VerdictsAreTrue, Reports, TypeOK, DeploySteps, UndoSteps,
       PrepareDeploy, Holding, RecordReceived, Record
  <1>4. ASSUME BeginDeploy PROVE ReportsAreLate'
    BY <1>4 DEF Inv, OpIsSound, BaseIsHealthy, ReportsAreLate,
       VerdictsAreTrue, Reports, TypeOK, DeploySteps, UndoSteps,
       BeginDeploy, RecordReceived, Record
  <1>5. ASSUME ApplyRelease PROVE ReportsAreLate'
    BY <1>5 DEF Inv, OpIsSound, BaseIsHealthy, ReportsAreLate,
       VerdictsAreTrue, Reports, TypeOK, DeploySteps, UndoSteps,
       ApplyRelease, Applied, ApplyRaises
  <1>6. ASSUME CheckPasses PROVE ReportsAreLate'
    BY <1>6 DEF Inv, OpIsSound, BaseIsHealthy, ReportsAreLate,
       VerdictsAreTrue, Reports, TypeOK, DeploySteps, UndoSteps,
       CheckPasses, RecordSuccess, Record
  <1>7. ASSUME CheckFails PROVE ReportsAreLate'
    BY <1>7 DEF Inv, OpIsSound, BaseIsHealthy, ReportsAreLate,
       VerdictsAreTrue, Reports, TypeOK, DeploySteps, UndoSteps, CheckFails,
       RecordTerminal, Record, Holding
  <1>8. ASSUME Reapply PROVE ReportsAreLate'
    BY <1>8 DEF Inv, OpIsSound, BaseIsHealthy, ReportsAreLate,
       VerdictsAreTrue, Reports, TypeOK, DeploySteps, UndoSteps, Reapply,
       Applied, ApplyRaises
  <1>9. ASSUME Recheck PROVE ReportsAreLate'
    BY <1>9 DEF Inv, OpIsSound, BaseIsHealthy, ReportsAreLate,
       VerdictsAreTrue, Reports, TypeOK, DeploySteps, UndoSteps, Recheck,
       RecordTerminal, Record
  <1>10. ASSUME Raised PROVE ReportsAreLate'
    BY <1>10 DEF Inv, OpIsSound, BaseIsHealthy, ReportsAreLate,
       VerdictsAreTrue, Reports, TypeOK, DeploySteps, UndoSteps, Raised,
       RecordTerminal, Record, Free, Holding
  <1>11. ASSUME Publish PROVE ReportsAreLate'
    <2> DEFINE new == [release |-> op.release, status |-> file.phase]
    <2>1. /\ new.release = op.release /\ request[op.release] = "taken"
          /\ op'.release = op.release /\ op'.at = "post"
          /\ UNCHANGED <<request, proven, hook, audits, inflight>>
          /\ pending' = pending \union {new}
      BY <1>11 DEF Inv, OpIsSound, Publish, Queued, Holding, DeploySteps
    <2> HIDE DEF new
    <2>2. \A e \in Reports' : request'[e.release] = "taken"
      BY <2>1 DEF Inv, ReportsAreLate, Reports
    <2>3. \E e \in audits' \union pending' : e.release = op'.release
      BY <2>1
    <2> QED
      BY <2>1, <2>2, <2>3 DEF Inv, ReportsAreLate
  <1>12. ASSUME NEW e \in Events, PostAnswered(e) PROVE ReportsAreLate'
    BY <1>12 DEF Inv, OpIsSound, BaseIsHealthy, ReportsAreLate,
       VerdictsAreTrue, Reports, TypeOK, DeploySteps, UndoSteps,
       PostAnswered, Foremost, RecordAudit, SyncSiteVersion
  <1>13. ASSUME NEW e \in Events, PostFails(e) PROVE ReportsAreLate'
    BY <1>13 DEF Inv, OpIsSound, BaseIsHealthy, ReportsAreLate,
       VerdictsAreTrue, Reports, TypeOK, DeploySteps, UndoSteps, PostFails,
       Foremost
  <1>14. ASSUME PostsDone PROVE ReportsAreLate'
    BY <1>14 DEF Inv, OpIsSound, BaseIsHealthy, ReportsAreLate,
       VerdictsAreTrue, Reports, TypeOK, DeploySteps, UndoSteps, PostsDone,
       Free, Holding
  <1>15. ASSUME NEW e \in Events, LateCallback(e) PROVE ReportsAreLate'
    BY <1>15 DEF Inv, OpIsSound, BaseIsHealthy, ReportsAreLate,
       VerdictsAreTrue, Reports, TypeOK, DeploySteps, UndoSteps,
       LateCallback, RecordAudit, SyncSiteVersion
  <1>16. ASSUME BeginRollback PROVE ReportsAreLate'
    BY <1>16 DEF Inv, OpIsSound, BaseIsHealthy, ReportsAreLate,
       VerdictsAreTrue, Reports, TypeOK, DeploySteps, UndoSteps,
       BeginRollback, Holding
  <1>17. ASSUME Undo PROVE ReportsAreLate'
    BY <1>17 DEF Inv, OpIsSound, BaseIsHealthy, ReportsAreLate,
       VerdictsAreTrue, Reports, TypeOK, DeploySteps, UndoSteps, Undo,
       Applied, ApplyRaises, Free, Holding
  <1>18. ASSUME VerifyUndo PROVE ReportsAreLate'
    BY <1>18, ReleaseAssumption DEF Inv, OpIsSound, BaseIsHealthy,
       ReportsAreLate, VerdictsAreTrue, Reports, TypeOK, DeploySteps,
       UndoSteps, VerifyUndo, RecordSuccess, Record, Free, Holding
  <1>19. ASSUME RunnerCrashes PROVE ReportsAreLate'
    BY <1>19 DEF Inv, OpIsSound, BaseIsHealthy, ReportsAreLate,
       VerdictsAreTrue, Reports, TypeOK, DeploySteps, UndoSteps,
       RunnerCrashes, Reconciled, Free, Holding
  <1>20. CASE UNCHANGED <<op, request, hook, proven, audits, pending, inflight>>
    BY <1>20 DEF Inv, OpIsSound, BaseIsHealthy, ReportsAreLate,
       VerdictsAreTrue, Reports, TypeOK, DeploySteps, UndoSteps
  <1> QED
    BY <1>1, <1>2, <1>3, <1>4, <1>5, <1>6, <1>7, <1>8, <1>9, <1>10, <1>11,
       <1>12, <1>13, <1>14, <1>15, <1>16, <1>17, <1>18, <1>19, <1>20 DEF
       Next, OperationStep, vars, HookAnswered, GapStops, SubmitRollback,
       FinishRollback, CliOpens

(* The one event queued is about a release not reported before. *)
LEMMA OneVerdictKept == Inv /\ [Next]_vars => OneVerdict'
  <1> SUFFICES ASSUME Inv, [Next]_vars PROVE OneVerdict'
    OBVIOUS
  <1> USE DEF gap, runner, history
  <1>1. ASSUME Publish PROVE OneVerdict'
    BY <1>1 DEF Inv, OpIsSound, ReportsAreLate, OneVerdict, Reports, TypeOK,
       DeploySteps, UndoSteps, Publish, Queued, Holding
  <1>2. ASSUME NEW e \in Events, PostAnswered(e) PROVE OneVerdict'
    BY <1>2 DEF Inv, OpIsSound, ReportsAreLate, OneVerdict, Reports, TypeOK,
       DeploySteps, UndoSteps, PostAnswered, Foremost, RecordAudit,
       SyncSiteVersion
  <1>3. ASSUME NEW e \in Events, PostFails(e) PROVE OneVerdict'
    BY <1>3 DEF Inv, OpIsSound, ReportsAreLate, OneVerdict, Reports, TypeOK,
       DeploySteps, UndoSteps, PostFails, Foremost
  <1>4. ASSUME NEW e \in Events, LateCallback(e) PROVE OneVerdict'
    BY <1>4 DEF Inv, OpIsSound, ReportsAreLate, OneVerdict, Reports, TypeOK,
       DeploySteps, UndoSteps, LateCallback, RecordAudit, SyncSiteVersion
  <1>5. CASE UNCHANGED <<audits, pending, inflight>>
    BY <1>5 DEF Inv, OpIsSound, ReportsAreLate, OneVerdict, Reports, TypeOK,
       DeploySteps, UndoSteps
  <1> QED
    BY <1>1, <1>2, <1>3, <1>4, <1>5 DEF Next, OperationStep, vars,
       AcceptHook, HookAnswered, DispatchFails, GapStops, PrepareDeploy,
       BeginDeploy, ApplyRelease, CheckPasses, CheckFails, Reapply, Recheck,
       Raised, PostsDone, SubmitRollback, BeginRollback, Undo, VerifyUndo,
       FinishRollback, RunnerCrashes, CliOpens

(* A release is reported after its last check, and never checked again. *)
LEMMA VerdictsKept == Inv /\ [Next]_vars => VerdictsAreTrue'
  <1> SUFFICES ASSUME Inv, [Next]_vars PROVE VerdictsAreTrue'
    OBVIOUS
  <1> USE DEF gap, runner, history
  <1>1. ASSUME NEW r \in Releases, PrepareDeploy(r) PROVE VerdictsAreTrue'
    BY <1>1 DEF Inv, OpIsSound, BaseIsHealthy, PhaseFollowsStep,
       ReportsAreLate, VerdictsAreTrue, Reports, Undecided, TypeOK,
       DeploySteps, UndoSteps, PrepareDeploy, Holding, RecordReceived,
       Record
  <1>2. ASSUME BeginDeploy PROVE VerdictsAreTrue'
    BY <1>2 DEF Inv, OpIsSound, BaseIsHealthy, PhaseFollowsStep,
       ReportsAreLate, VerdictsAreTrue, Reports, Undecided, TypeOK,
       DeploySteps, UndoSteps, BeginDeploy, RecordReceived, Record
  <1>3. ASSUME CheckPasses PROVE VerdictsAreTrue'
    BY <1>3, ReleaseAssumption DEF Inv, OpIsSound, BaseIsHealthy,
       PhaseFollowsStep, ReportsAreLate, VerdictsAreTrue, Reports,
       Undecided, TypeOK, DeploySteps, UndoSteps, CheckPasses,
       RecordSuccess, Record
  <1>4. ASSUME CheckFails PROVE VerdictsAreTrue'
    BY <1>4 DEF Inv, OpIsSound, BaseIsHealthy, PhaseFollowsStep,
       ReportsAreLate, VerdictsAreTrue, Reports, Undecided, TypeOK,
       DeploySteps, UndoSteps, CheckFails, RecordTerminal, Record, Holding
  <1>5. ASSUME Recheck PROVE VerdictsAreTrue'
    BY <1>5 DEF Inv, OpIsSound, BaseIsHealthy, PhaseFollowsStep,
       ReportsAreLate, VerdictsAreTrue, Reports, Undecided, TypeOK,
       DeploySteps, UndoSteps, Recheck, RecordTerminal, Record
  <1>6. ASSUME Raised PROVE VerdictsAreTrue'
    BY <1>6 DEF Inv, OpIsSound, BaseIsHealthy, PhaseFollowsStep,
       ReportsAreLate, VerdictsAreTrue, Reports, Undecided, TypeOK,
       DeploySteps, UndoSteps, Raised, RecordTerminal, Record, Free, Holding
  <1>7. ASSUME Publish PROVE VerdictsAreTrue'
    BY <1>7 DEF Inv, OpIsSound, BaseIsHealthy, PhaseFollowsStep,
       ReportsAreLate, VerdictsAreTrue, Reports, Undecided, TypeOK,
       DeploySteps, UndoSteps, Publish, Queued, Holding
  <1>8. ASSUME NEW e \in Events, PostAnswered(e) PROVE VerdictsAreTrue'
    BY <1>8 DEF Inv, OpIsSound, BaseIsHealthy, PhaseFollowsStep,
       ReportsAreLate, VerdictsAreTrue, Reports, Undecided, TypeOK,
       DeploySteps, UndoSteps, PostAnswered, Foremost, RecordAudit,
       SyncSiteVersion, Events
  <1>9. ASSUME NEW e \in Events, PostFails(e) PROVE VerdictsAreTrue'
    BY <1>9 DEF Inv, OpIsSound, BaseIsHealthy, PhaseFollowsStep,
       ReportsAreLate, VerdictsAreTrue, Reports, Undecided, TypeOK,
       DeploySteps, UndoSteps, PostFails, Foremost
  <1>10. ASSUME NEW e \in Events, LateCallback(e) PROVE VerdictsAreTrue'
    BY <1>10 DEF Inv, OpIsSound, BaseIsHealthy, PhaseFollowsStep,
       ReportsAreLate, VerdictsAreTrue, Reports, Undecided, TypeOK,
       DeploySteps, UndoSteps, LateCallback, RecordAudit, SyncSiteVersion,
       Events
  <1>11. ASSUME VerifyUndo PROVE VerdictsAreTrue'
    BY <1>11, ReleaseAssumption DEF Inv, OpIsSound, BaseIsHealthy,
       PhaseFollowsStep, ReportsAreLate, VerdictsAreTrue, Reports,
       Undecided, TypeOK, DeploySteps, UndoSteps, VerifyUndo, RecordSuccess,
       Record, Free, Holding
  <1>12. ASSUME RunnerCrashes PROVE VerdictsAreTrue'
    BY <1>12 DEF Inv, OpIsSound, BaseIsHealthy, PhaseFollowsStep,
       ReportsAreLate, VerdictsAreTrue, Reports, Undecided, TypeOK,
       DeploySteps, UndoSteps, RunnerCrashes, Reconciled, Free, Holding
  <1>13. ASSUME CliOpens PROVE VerdictsAreTrue'
    BY <1>13 DEF Inv, OpIsSound, BaseIsHealthy, PhaseFollowsStep,
       ReportsAreLate, VerdictsAreTrue, Reports, Undecided, TypeOK,
       DeploySteps, UndoSteps, CliOpens, Reconciled
  <1>14. CASE UNCHANGED <<audits, pending, inflight, proven, file, site, synced>>
    BY <1>14 DEF Inv, OpIsSound, BaseIsHealthy, PhaseFollowsStep,
       ReportsAreLate, VerdictsAreTrue, Reports, Undecided, TypeOK,
       DeploySteps, UndoSteps
  <1> QED
    BY <1>1, <1>2, <1>3, <1>4, <1>5, <1>6, <1>7, <1>8, <1>9, <1>10, <1>11,
       <1>12, <1>13, <1>14 DEF Next, OperationStep, vars, AcceptHook,
       HookAnswered, DispatchFails, GapStops, ApplyRelease, Reapply,
       PostsDone, SubmitRollback, BeginRollback, Undo, FinishRollback

(* A verdict is written when the release it names as healthy runs. *)
LEMMA BaselineKept == Inv /\ [Next]_vars => BaselineIsRunning'
  <1> SUFFICES ASSUME Inv, [Next]_vars PROVE BaselineIsRunning'
    OBVIOUS
  <1> USE DEF gap, runner, history
  <1>1. ASSUME NEW r \in Releases, PrepareDeploy(r) PROVE BaselineIsRunning'
    BY <1>1 DEF Inv, OpIsSound, BaseIsHealthy, PhaseFollowsStep,
       AppliedIsRunning, BaselineIsRunning, Undecided, TypeOK, DeploySteps,
       UndoSteps, PrepareDeploy, Holding, RecordReceived, Record
  <1>2. ASSUME BeginDeploy PROVE BaselineIsRunning'
    BY <1>2 DEF Inv, OpIsSound, BaseIsHealthy, PhaseFollowsStep,
       AppliedIsRunning, BaselineIsRunning, Undecided, TypeOK, DeploySteps,
       UndoSteps, BeginDeploy, RecordReceived, Record
  <1>3. ASSUME ApplyRelease PROVE BaselineIsRunning'
    BY <1>3 DEF Inv, OpIsSound, BaseIsHealthy, PhaseFollowsStep,
       AppliedIsRunning, BaselineIsRunning, Undecided, TypeOK, DeploySteps,
       UndoSteps, ApplyRelease, Applied, ApplyRaises
  <1>4. ASSUME CheckPasses PROVE BaselineIsRunning'
    BY <1>4 DEF Inv, OpIsSound, BaseIsHealthy, PhaseFollowsStep,
       AppliedIsRunning, BaselineIsRunning, Undecided, TypeOK, DeploySteps,
       UndoSteps, CheckPasses, RecordSuccess, Record
  <1>5. ASSUME CheckFails PROVE BaselineIsRunning'
    BY <1>5 DEF Inv, OpIsSound, BaseIsHealthy, PhaseFollowsStep,
       AppliedIsRunning, BaselineIsRunning, Undecided, TypeOK, DeploySteps,
       UndoSteps, CheckFails, RecordTerminal, Record, Holding
  <1>6. ASSUME Reapply PROVE BaselineIsRunning'
    BY <1>6 DEF Inv, OpIsSound, BaseIsHealthy, PhaseFollowsStep,
       AppliedIsRunning, BaselineIsRunning, Undecided, TypeOK, DeploySteps,
       UndoSteps, Reapply, Applied, ApplyRaises
  <1>7. ASSUME Recheck PROVE BaselineIsRunning'
    BY <1>7 DEF Inv, OpIsSound, BaseIsHealthy, PhaseFollowsStep,
       AppliedIsRunning, BaselineIsRunning, Undecided, TypeOK, DeploySteps,
       UndoSteps, Recheck, RecordTerminal, Record
  <1>8. ASSUME Raised PROVE BaselineIsRunning'
    BY <1>8 DEF Inv, OpIsSound, BaseIsHealthy, PhaseFollowsStep,
       AppliedIsRunning, BaselineIsRunning, Undecided, TypeOK, DeploySteps,
       UndoSteps, Raised, RecordTerminal, Record, Free, Holding
  <1>9. ASSUME Undo PROVE BaselineIsRunning'
    BY <1>9 DEF Inv, OpIsSound, BaseIsHealthy, PhaseFollowsStep,
       AppliedIsRunning, BaselineIsRunning, Undecided, TypeOK, DeploySteps,
       UndoSteps, Undo, Applied, ApplyRaises, Free, Holding
  <1>10. ASSUME VerifyUndo PROVE BaselineIsRunning'
    BY <1>10 DEF Inv, OpIsSound, BaseIsHealthy, PhaseFollowsStep,
       AppliedIsRunning, BaselineIsRunning, Undecided, TypeOK, DeploySteps,
       UndoSteps, VerifyUndo, RecordSuccess, Record, Free, Holding
  <1>11. ASSUME RunnerCrashes PROVE BaselineIsRunning'
    BY <1>11 DEF Inv, OpIsSound, BaseIsHealthy, PhaseFollowsStep,
       AppliedIsRunning, BaselineIsRunning, Undecided, TypeOK, DeploySteps,
       UndoSteps, RunnerCrashes, Reconciled, Free, Holding
  <1>12. ASSUME CliOpens PROVE BaselineIsRunning'
    BY <1>12 DEF Inv, OpIsSound, BaseIsHealthy, PhaseFollowsStep,
       AppliedIsRunning, BaselineIsRunning, Undecided, TypeOK, DeploySteps,
       UndoSteps, CliOpens, Reconciled
  <1>13. CASE UNCHANGED <<file, running>>
    BY <1>13 DEF Inv, OpIsSound, BaseIsHealthy, PhaseFollowsStep,
       AppliedIsRunning, BaselineIsRunning, Undecided, TypeOK, DeploySteps,
       UndoSteps
  <1> QED
    BY <1>1, <1>2, <1>3, <1>4, <1>5, <1>6, <1>7, <1>8, <1>9, <1>10, <1>11,
       <1>12, <1>13 DEF Next, OperationStep, vars, AcceptHook, HookAnswered,
       DispatchFails, GapStops, Publish, PostAnswered, PostFails, PostsDone,
       LateCallback, SubmitRollback, BeginRollback, FinishRollback

(* A deployment lets go of the lock reported, or interrupted. *)
LEMMA OwedKept == Inv /\ [Next]_vars => ReportedOrOwed'
  <1> SUFFICES ASSUME Inv, [Next]_vars PROVE ReportedOrOwed'
    OBVIOUS
  <1> USE DEF gap, runner, history
  <1>1. ASSUME NEW r \in Releases, AcceptHook(r) PROVE ReportedOrOwed'
    BY <1>1 DEF Inv, OpIsSound, PhaseFollowsStep, ReportsAreLate,
       ReportedOrOwed, Undecided, TypeOK, DeploySteps, UndoSteps, AcceptHook
  <1>2. ASSUME NEW r \in Releases, PrepareDeploy(r) PROVE ReportedOrOwed'
    BY <1>2, ReleaseAssumption DEF Inv, OpIsSound, PhaseFollowsStep,
       ReportsAreLate, ReportedOrOwed, Undecided, TypeOK, DeploySteps,
       UndoSteps, PrepareDeploy, Holding, RecordReceived, Record
  <1>3. ASSUME BeginDeploy PROVE ReportedOrOwed'
    BY <1>3 DEF Inv, OpIsSound, PhaseFollowsStep, ReportsAreLate,
       ReportedOrOwed, Undecided, TypeOK, DeploySteps, UndoSteps,
       BeginDeploy, RecordReceived, Record
  <1>4. ASSUME ApplyRelease PROVE ReportedOrOwed'
    BY <1>4 DEF Inv, OpIsSound, PhaseFollowsStep, ReportsAreLate,
       ReportedOrOwed, Undecided, TypeOK, DeploySteps, UndoSteps,
       ApplyRelease, Applied, ApplyRaises
  <1>5. ASSUME CheckPasses PROVE ReportedOrOwed'
    BY <1>5 DEF Inv, OpIsSound, PhaseFollowsStep, ReportsAreLate,
       ReportedOrOwed, Undecided, TypeOK, DeploySteps, UndoSteps,
       CheckPasses, RecordSuccess, Record
  <1>6. ASSUME CheckFails PROVE ReportedOrOwed'
    BY <1>6 DEF Inv, OpIsSound, PhaseFollowsStep, ReportsAreLate,
       ReportedOrOwed, Undecided, TypeOK, DeploySteps, UndoSteps,
       CheckFails, RecordTerminal, Record, Holding
  <1>7. ASSUME Reapply PROVE ReportedOrOwed'
    BY <1>7 DEF Inv, OpIsSound, PhaseFollowsStep, ReportsAreLate,
       ReportedOrOwed, Undecided, TypeOK, DeploySteps, UndoSteps, Reapply,
       Applied, ApplyRaises
  <1>8. ASSUME Recheck PROVE ReportedOrOwed'
    BY <1>8 DEF Inv, OpIsSound, PhaseFollowsStep, ReportsAreLate,
       ReportedOrOwed, Undecided, TypeOK, DeploySteps, UndoSteps, Recheck,
       RecordTerminal, Record
  <1>9. ASSUME Raised PROVE ReportedOrOwed'
    BY <1>9 DEF Inv, OpIsSound, PhaseFollowsStep, ReportsAreLate,
       ReportedOrOwed, Undecided, TypeOK, DeploySteps, UndoSteps, Raised,
       RecordTerminal, Record, Free, Holding
  <1>10. ASSUME Publish PROVE ReportedOrOwed'
    BY <1>10 DEF Inv, OpIsSound, PhaseFollowsStep, ReportsAreLate,
       ReportedOrOwed, Undecided, TypeOK, DeploySteps, UndoSteps, Publish,
       Queued, Holding
  <1>11. ASSUME NEW e \in Events, PostAnswered(e) PROVE ReportedOrOwed'
    BY <1>11 DEF Inv, OpIsSound, PhaseFollowsStep, ReportsAreLate,
       ReportedOrOwed, Undecided, TypeOK, DeploySteps, UndoSteps,
       PostAnswered, Foremost, RecordAudit, SyncSiteVersion
  <1>12. ASSUME NEW e \in Events, PostFails(e) PROVE ReportedOrOwed'
    BY <1>12 DEF Inv, OpIsSound, PhaseFollowsStep, ReportsAreLate,
       ReportedOrOwed, Undecided, TypeOK, DeploySteps, UndoSteps, PostFails,
       Foremost
  <1>13. ASSUME PostsDone PROVE ReportedOrOwed'
    BY <1>13 DEF Inv, OpIsSound, PhaseFollowsStep, ReportsAreLate,
       ReportedOrOwed, Undecided, TypeOK, DeploySteps, UndoSteps, PostsDone,
       Free, Holding
  <1>14. ASSUME NEW e \in Events, LateCallback(e) PROVE ReportedOrOwed'
    BY <1>14 DEF Inv, OpIsSound, PhaseFollowsStep, ReportsAreLate,
       ReportedOrOwed, Undecided, TypeOK, DeploySteps, UndoSteps,
       LateCallback, RecordAudit, SyncSiteVersion
  <1>15. ASSUME BeginRollback PROVE ReportedOrOwed'
    BY <1>15 DEF Inv, OpIsSound, PhaseFollowsStep, ReportsAreLate,
       ReportedOrOwed, Undecided, TypeOK, DeploySteps, UndoSteps,
       BeginRollback, Holding
  <1>16. ASSUME Undo PROVE ReportedOrOwed'
    BY <1>16 DEF Inv, OpIsSound, PhaseFollowsStep, ReportsAreLate,
       ReportedOrOwed, Undecided, TypeOK, DeploySteps, UndoSteps, Undo,
       Applied, ApplyRaises, Free, Holding
  <1>17. ASSUME VerifyUndo PROVE ReportedOrOwed'
    BY <1>17 DEF Inv, OpIsSound, PhaseFollowsStep, ReportsAreLate,
       ReportedOrOwed, Undecided, TypeOK, DeploySteps, UndoSteps,
       VerifyUndo, RecordSuccess, Record, Free, Holding
  <1>18. ASSUME RunnerCrashes PROVE ReportedOrOwed'
    BY <1>18 DEF Inv, OpIsSound, PhaseFollowsStep, ReportsAreLate,
       ReportedOrOwed, Undecided, TypeOK, DeploySteps, UndoSteps,
       RunnerCrashes, Reconciled, Free, Holding
  <1>19. ASSUME CliOpens PROVE ReportedOrOwed'
    BY <1>19 DEF Inv, OpIsSound, PhaseFollowsStep, ReportsAreLate,
       ReportedOrOwed, Undecided, TypeOK, DeploySteps, UndoSteps, CliOpens,
       Reconciled
  <1>20. CASE UNCHANGED <<request, op, interrupted, audits, pending>>
    BY <1>20 DEF Inv, OpIsSound, PhaseFollowsStep, ReportsAreLate,
       ReportedOrOwed, Undecided, TypeOK, DeploySteps, UndoSteps
  <1> QED
    BY <1>1, <1>2, <1>3, <1>4, <1>5, <1>6, <1>7, <1>8, <1>9, <1>10, <1>11,
       <1>12, <1>13, <1>14, <1>15, <1>16, <1>17, <1>18, <1>19, <1>20 DEF
       Next, OperationStep, vars, HookAnswered, DispatchFails, GapStops,
       SubmitRollback, FinishRollback

(* The inductive invariant holds in every reachable state. *)
THEOREM InvAlways == Spec => []Inv
  <1>1. Inv /\ [Next]_vars => Inv'
    BY TypesKept, OpKept, BaseKept, PhaseKept, RunningKept, ReportsKept,
       OneVerdictKept, VerdictsKept, BaselineKept, OwedKept DEF Inv
  <1> QED
    BY InitHolds, <1>1, PTL DEF Spec

(* Every variable keeps its type. *)
THEOREM DeliveryTypes == Spec => []TypeOK
  <1>1. Inv => TypeOK
    BY DEF Inv
  <1> QED
    BY InvAlways, <1>1, PTL

(* No release gets two verdicts, for any number of faults and call backs. *)
THEOREM VerdictsAgree == Spec => []OneVerdict
  <1>1. Inv => OneVerdict
    BY DEF Inv
  <1> QED
    BY InvAlways, <1>1, PTL

(* What is reported, fallen back to and shown passed a health check. *)
THEOREM VerdictsTell == Spec => []VerdictsAreTrue
  <1>1. Inv => VerdictsAreTrue
    BY DEF Inv
  <1> QED
    BY InvAlways, <1>1, PTL

(* A release called healthy or rolled back to is the one that runs. *)
THEOREM BaselineRuns == Spec => []BaselineIsRunning
  <1>1. Inv => BaselineIsRunning
    BY DEF Inv
  <1> QED
    BY InvAlways, <1>1, PTL

(* An uninterrupted deployment is reported or queued when it ends. *)
THEOREM NoVerdictIsLost == Spec => []ReportedOrOwed
  <1>1. Inv => ReportedOrOwed
    BY DEF Inv
  <1> QED
    BY InvAlways, <1>1, PTL

-----------------------------------------------------------------------------
(***************************************************************************)
(* ReleaseDelivery implements VerdictLog.  What the log sees of a step is  *)
(* the requests, who holds the lock, the file's baseline, the reports and  *)
(* what GAP has written.                                                   *)
(***************************************************************************)

LEMMA InitLog == Init => Log!Init
  BY DEF Init, Log!Init, Asked, Taken, Working, Reports, Free, Holding, DeploySteps

(* Steps that the log does not see. *)
LEMMA StutterLog ==
    ASSUME UNCHANGED <<request, proven, file.healthy, Reports, audits, synced, site, Working>>
    PROVE  UNCHANGED Log!logVars
  BY DEF Log!logVars, Asked, Taken

LEMMA AcceptAsks ==
    ASSUME Inv, NEW r \in Releases, AcceptHook(r)
    PROVE  Log!Ask(r)
  <1>1. request[r] = "none" /\ request' = [request EXCEPT ![r] = "sent"]
    BY DEF AcceptHook, Inv, ReportsAreLate
  <1>2. r \notin Asked /\ Asked' = Asked \union {r} /\ Taken' = Taken
    BY <1>1 DEF Asked, Taken, Inv, TypeOK
  <1> QED BY <1>2 DEF Log!Ask, AcceptHook, runner, history, Working, Reports

LEMMA PrepareTakes ==
    ASSUME Inv, NEW r \in Releases, PrepareDeploy(r)
    PROVE  Log!Take(r)
  <1>1. request[r] = "sent" /\ request' = [request EXCEPT ![r] = "taken"]
    BY DEF PrepareDeploy
  <1>2. r \in Asked \ Taken /\ Asked' = Asked /\ Taken' = Taken \union {r}
    BY <1>1 DEF Asked, Taken, Inv, TypeOK
  <1>3. Working = None /\ Working' = r
    BY DEF Working, PrepareDeploy, Holding, DeploySteps
  <1>4. file'.healthy = file.healthy
    BY DEF PrepareDeploy, RecordReceived, Record
  <1> QED BY <1>2, <1>3, <1>4 DEF Log!Take, PrepareDeploy, gap, Reports

LEMMA CheckIsPassed ==
    ASSUME Inv, CheckPasses
    PROVE  Log!Pass
  <1>1. op.release \in Releases /\ op.release # None /\ op.release \notin proven
    BY ReleaseAssumption DEF CheckPasses, Inv, OpIsSound, PhaseFollowsStep, Undecided, DeploySteps
  <1>2. Working = op.release /\ Working' = op.release
    BY DEF CheckPasses, Inv, TypeOK, Working, DeploySteps
  <1>3. file'.healthy = op.release
    BY DEF CheckPasses, RecordSuccess, Record
  <1> QED BY <1>1, <1>2, <1>3 DEF Log!Pass, CheckPasses, gap, Asked, Taken, Reports

LEMMA PublishDecides ==
    ASSUME Inv, Publish
    PROVE  \E v \in Verdicts : Log!Decide(v)
  <1>1. op.at = "publish" /\ op.release \in Releases /\ op.release # None
    BY ReleaseAssumption DEF Publish, Inv, OpIsSound, DeploySteps
  <1>2. file.phase \in Verdicts /\ (file.phase = "succeeded" <=> op.release \in proven)
    BY <1>1 DEF Inv, PhaseFollowsStep
  <1>3. \A e \in Reports : e.release # op.release
    BY <1>1 DEF Inv, ReportsAreLate, DeploySteps
  <1>4. Working = op.release /\ Working' = None
    BY <1>1 DEF Publish, Working, Holding, DeploySteps
  <1>5. Reports' = Reports \union {[release |-> op.release, status |-> file.phase]}
    BY DEF Publish, Queued, Reports, gap
  <1>6. Log!Decide(file.phase)
    BY <1>1, <1>2, <1>3, <1>4, <1>5 DEF Log!Decide, Publish, gap, history, Asked, Taken
  <1> QED BY <1>2, <1>6

(* A step that ends the work on a release without a call back. *)
LEMMA CutOff ==
    ASSUME Working # None, Working' = None,
           UNCHANGED <<request, proven, file.healthy, Reports, audits, synced, site>>
    PROVE  Log!Abandon
  BY DEF Log!Abandon, Asked, Taken

(* GAP's two commits: with the second one or without it. *)
LEMMA HandledIsTold ==
    ASSUME NEW e \in Reports, RecordAudit(e),
           SyncSiteVersion(e) \/ UNCHANGED <<synced, site>>,
           Reports' = Reports, Working' = Working,
           UNCHANGED <<request, proven, file.healthy>>
    PROVE  Log!Tell(e) \/ Log!Show(e)
  <1>1. CASE UNCHANGED <<synced, site>>
    BY <1>1 DEF Log!Tell, RecordAudit, Asked, Taken
  <1>2. CASE e.status = "succeeded" /\ e.release \notin synced /\ SyncSiteVersion(e)
    BY <1>2 DEF Log!Show, RecordAudit, SyncSiteVersion, Asked, Taken
  <1> QED BY <1>1, <1>2 DEF SyncSiteVersion

(* Every step is a step of the log, or one it does not see. *)
LEMMA StepLog == Inv /\ [Next]_vars => [Log!Next]_(Log!logVars)
  <1> SUFFICES ASSUME Inv, [Next]_vars PROVE Log!Next \/ UNCHANGED Log!logVars
    OBVIOUS
  <1> USE DEF gap, runner, history
  <1>1. ASSUME NEW r \in Releases, AcceptHook(r) PROVE Log!Next
    BY <1>1, AcceptAsks DEF Log!Next
  <1>2. ASSUME NEW r \in Releases, PrepareDeploy(r) PROVE Log!Next
    BY <1>2, PrepareTakes DEF Log!Next
  <1>3. CASE CheckPasses
    BY <1>3, CheckIsPassed DEF Log!Next
  <1>4. CASE Publish
    BY <1>4, PublishDecides DEF Log!Next
  <1>5. ASSUME NEW e \in Events, PostAnswered(e) PROVE Log!Next
    <2>1. e \in pending /\ Reports' = Reports
      BY <1>5 DEF PostAnswered, Foremost, Inv, OpIsSound, Reports, RecordAudit
    <2>2. Working' = Working
      BY <1>5 DEF PostAnswered, Working, Inv, TypeOK
    <2>3. Log!Tell(e) \/ Log!Show(e)
      BY <1>5, <2>1, <2>2, HandledIsTold DEF PostAnswered, Reports
    <2> QED BY <2>1, <2>3 DEF Log!Next, Reports
  <1>6. ASSUME NEW e \in Events, LateCallback(e) PROVE Log!Next
    <2>1. e \in Reports /\ Reports' = Reports /\ Working' = Working
      BY <1>6 DEF LateCallback, Reports, RecordAudit, Working
    <2>2. Log!Tell(e) \/ Log!Show(e)
      BY <1>6, <2>1, HandledIsTold DEF LateCallback
    <2> QED BY <2>1, <2>2 DEF Log!Next
  <1>7. ASSUME NEW e \in Events, PostFails(e) PROVE UNCHANGED Log!logVars
    <2>1. e \in pending /\ Reports' = Reports
      BY <1>7 DEF PostFails, Foremost, Inv, OpIsSound, Reports
    <2>2. Working' = Working
      BY <1>7 DEF PostFails, Working, Inv, TypeOK
    <2> QED BY <1>7, <2>1, <2>2, StutterLog DEF PostFails
  <1>8. CASE Raised \/ RunnerCrashes
    <2>1. /\ file'.healthy = file.healthy /\ Working' \in {Working, None}
          /\ UNCHANGED <<request, proven, Reports, audits, synced, site>>
      BY <1>8 DEF Raised, RunnerCrashes, RecordTerminal, Record, Reconciled, Working, Free,
         Holding, DeploySteps, Reports, Inv, TypeOK
    <2>2. CASE Working' = Working
      BY <2>1, <2>2, StutterLog
    <2>3. CASE Working # None /\ Working' = None
      BY <2>1, <2>3, CutOff DEF Log!Next
    <2> QED BY <2>1, <2>2, <2>3
  <1>9. CASE BeginDeploy \/ ApplyRelease \/ CheckFails \/ Reapply \/ Recheck \/ PostsDone
    <2>1. Working' = Working /\ file'.healthy = file.healthy
      BY <1>9 DEF BeginDeploy, ApplyRelease, CheckFails, Reapply, Recheck, PostsDone, RecordReceived,
         RecordTerminal, Record, Working, Holding, Free, DeploySteps, Inv, TypeOK
    <2> QED BY <1>9, <2>1, StutterLog DEF BeginDeploy, ApplyRelease, CheckFails, Reapply, Recheck,
       PostsDone, Reports
  <1>10. CASE BeginRollback \/ Undo
    <2>1. Working' = Working
      BY <1>10 DEF BeginRollback, Undo, Working, Holding, Free, DeploySteps, Inv, TypeOK
    <2> QED BY <1>10, <2>1, StutterLog DEF BeginRollback, Undo, Reports
  <1>11. CASE VerifyUndo
    <2>1. Working = None /\ Working' = None
      BY <1>11 DEF VerifyUndo, Working, Free, Holding, DeploySteps
    <2>2. op.base = file.healthy /\ op.base \in proven
      BY <1>11, ReleaseAssumption DEF VerifyUndo, Inv, BaseIsHealthy, VerdictsAreTrue
    <2>3. proven' = proven /\ file'.healthy = file.healthy
      BY <1>11, <2>2 DEF VerifyUndo, RecordSuccess, Record
    <2> QED BY <1>11, <2>1, <2>3, StutterLog DEF VerifyUndo, Reports
  <1>12. CASE CliOpens
    <2>1. file'.healthy = file.healthy
      BY <1>12 DEF CliOpens, Reconciled, Inv, TypeOK
    <2> QED BY <1>12, <2>1, StutterLog DEF CliOpens, Reports, Working
  <1>13. CASE HookAnswered \/ DispatchFails \/ GapStops \/ SubmitRollback \/ FinishRollback
              \/ UNCHANGED vars
    BY <1>13, StutterLog DEF HookAnswered, DispatchFails, GapStops, SubmitRollback, FinishRollback,
       vars, Reports, Working
  <1> QED
    BY <1>1, <1>2, <1>3, <1>4, <1>5, <1>6, <1>7, <1>8, <1>9, <1>10, <1>11, <1>12, <1>13
    DEF Next, OperationStep

(* GAP and the Runner, with whatever crashes, lost answers and second      *)
(* processes come between them, implement the log of verdicts.             *)
THEOREM LogIsImplemented == Spec => ImplementsVerdictLog
  <1> QED BY InitLog, StepLog, InvAlways, PTL DEF Spec, ImplementsVerdictLog, Log!Spec
=============================================================================
