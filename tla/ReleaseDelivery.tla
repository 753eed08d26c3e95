-------------------------- MODULE ReleaseDelivery --------------------------
(***************************************************************************)
(* A release from the signed hook to its verdict.  GAP accepts the hook    *)
(* once and asks the Deploy Runner on the host to deploy; the Runner       *)
(* answers at once, applies the manifest, checks its health, falls back to *)
(* the last healthy release, and reports the verdict with a call back that *)
(* GAP records and that sets the version the site shows.  An administrator *)
(* may ask for a rollback.  The Runner's state is a file that survives its *)
(* crashes; GAP is itself one of the containers that are replaced.         *)
(*                                                                         *)
(* One target.  A manifest is its release id: what validates it (signature,*)
(* fields, digests) comes before the first state change.  The CLI of the   *)
(* Runner is modelled by what its constructor does to the file; its own    *)
(* deploy and rollback, and the success history nobody reads, are not.     *)
(***************************************************************************)
EXTENDS Naturals, FiniteSets

CONSTANTS
    Releases,      \* release ids; each is built once
    None,          \* no release
    Unknown,       \* containers of no single release: an apply that failed
    MaxFaults      \* bound: crashes of the Runner and uses of its CLI

ASSUME ReleaseAssumption ==
    /\ None \notin Releases
    /\ Unknown \notin Releases \union {None}
    /\ MaxFaults \in Nat

Verdicts == {"succeeded", "rolled_back", "reconciliation_required"}
Phases   == Verdicts \union {"idle", "received"}
Events   == [release : Releases, status : Verdicts]

VARIABLES
    \* GAP: the API process and its database.
    hook,          \* each release: the row of release_hook_deliveries
    asking,        \* the hook request the event loop is waiting in, or None
    rollback,      \* the rollback request: what was displayed, row, call
    audits,        \* terminal rows of release_lifecycle_audits
    synced,        \* releases with a row of release_version_syncs
    site,          \* SiteConfig "version"
    \* Between the two.
    request,       \* each release: its POST /v1/deploy
    inflight,      \* call backs the Runner gave up on and GAP may yet read
    \* The Runner: its file, its operation lock and thread, the containers.
    file,          \* release-state.json: phase, current, last_known_healthy
    pending, late, \* pending_callbacks, and those of them that failed once
    op,            \* the holder of _operation_lock and what it is about to do
    running,       \* what Compose runs
    \* History and bounds.
    earlier,       \* each release: those whose deployment began before its own
    proven,        \* releases that passed a health check
    interrupted,   \* deployments a crash ended or the CLI marked
    faults

gap     == <<hook, asking, audits, synced, site>>
runner  == <<file, pending, late, op, running>>
history == <<earlier, proven, interrupted, faults>>
vars    == <<gap, rollback, request, inflight, runner, history>>

Holding(at, release, base, todo) ==
    [at |-> at, release |-> release, base |-> base, todo |-> todo]
Free == Holding("free", None, None, {})

DeploySteps == {"accepted", "apply", "check", "reapply", "recheck", "raised",
                "publish", "post"}
UndoSteps   == {"undo", "verify"}

TypeOK ==
    /\ hook \in [Releases -> {"none", "accepted", "dispatch_failed"}]
    /\ asking \in Releases \union {None}
    /\ rollback \in [displayed : Releases \union {None},
                     restored  : Releases \union {None},
                     row  : {"none", "pending", "submitted", "failed"},
                     call : {"none", "sent", "serving", "done", "refused"}]
    /\ audits \subseteq Events /\ inflight \subseteq Events
    /\ pending \subseteq Events /\ late \subseteq pending
    /\ synced \subseteq Releases /\ site \in Releases \union {None}
    /\ request \in [Releases -> {"none", "sent", "taken"}]
    /\ file \in [phase : Phases, current : Releases \union {None},
                 healthy : Releases \union {None}]
    /\ op \in [at : DeploySteps \union UndoSteps \union {"free"},
               release : Releases \union {None}, base : Releases \union {None},
               todo : SUBSET Events]
    /\ running \in Releases \union {None, Unknown}
    /\ earlier \in [Releases -> SUBSET Releases]
    /\ proven \subseteq Releases /\ interrupted \subseteq Releases
    /\ faults \in 0 .. MaxFaults

Init ==
    /\ hook = [r \in Releases |-> "none"] /\ asking = None
    /\ rollback = [displayed |-> None, restored |-> None,
                   row |-> "none", call |-> "none"]
    /\ audits = {} /\ synced = {} /\ site = None
    /\ request = [r \in Releases |-> "none"] /\ inflight = {}
    /\ file = [phase |-> "idle", current |-> None, healthy |-> None]
    /\ pending = {} /\ late = {} /\ op = Free /\ running = None
    /\ earlier = [r \in Releases |-> {}]
    /\ proven = {} /\ interrupted = {} /\ faults = 0

(***************************************************************************)
(* The hook.  CI repeats a hook it got no 2xx for, but the row of the first*)
(* delivery makes every other one a duplicate, which changes nothing.  The *)
(* endpoint is a coroutine that calls the Runner synchronously: while it   *)
(* waits, the single event loop of the API serves nobody.                  *)
(***************************************************************************)
\* Bug: a hook that could not be dispatched is taken again.
AcceptFailedAgain(r) ==
    /\ asking = None /\ hook[r] \in {"none", "dispatch_failed"}
    /\ hook' = [hook EXCEPT ![r] = "accepted"]
    /\ asking' = r
    /\ request' = [request EXCEPT ![r] = "sent"]
    /\ UNCHANGED <<rollback, audits, synced, site, inflight, runner, history>>

AcceptHook(r) ==
    /\ asking = None /\ hook[r] = "none"
    /\ hook' = [hook EXCEPT ![r] = "accepted"]
    /\ asking' = r
    /\ request' = [request EXCEPT ![r] = "sent"]
    /\ UNCHANGED <<rollback, audits, synced, site, inflight, runner, history>>

(* The Runner's 202 arrives. *)
HookAnswered ==
    /\ asking # None /\ request[asking] = "taken"
    /\ asking' = None
    /\ UNCHANGED <<hook, rollback, audits, synced, site, request, inflight,
                   runner, history>>

(* The request fails or times out; the Runner may have it all the same. *)
DispatchFails ==
    /\ asking # None
    /\ hook' = [hook EXCEPT ![asking] = "dispatch_failed"]
    /\ asking' = None
    /\ UNCHANGED <<rollback, audits, synced, site, request, inflight,
                   runner, history>>

(* The API container stops, as it does in every deployment. *)
GapStops ==
    /\ asking # None
    /\ asking' = None
    /\ UNCHANGED <<hook, rollback, audits, synced, site, request, inflight,
                   runner, history>>

(***************************************************************************)
(* The state file, replaced as a whole by each of its writers.             *)
(***************************************************************************)
Record(phase, current, healthy) ==
    file' = [phase |-> phase, current |-> current, healthy |-> healthy]

RecordReceived(r) == Record("received", r, file.healthy)

\* Bug: a success does not become the release to fall back to.
KeepBaseline(r) == Record("succeeded", r, file.healthy)

RecordSuccess(r) == Record("succeeded", r, r)

RecordTerminal(phase) == Record(phase, op.release, file.healthy)

(***************************************************************************)
(* The Runner takes a deployment: under the operation lock it records the  *)
(* intent, answers, and only then starts the thread.  (A manifest that is  *)
(* still the current one is a duplicate; GAP never sends one twice.)       *)
(* Waiting for a connection and for the lock are not told apart.           *)
(***************************************************************************)
PrepareDeploy(r) ==
    /\ request[r] = "sent" /\ op.at = "free" /\ file.current # r
    /\ request' = [request EXCEPT ![r] = "taken"]
    /\ RecordReceived(r)
    /\ op' = Holding("accepted", r, None, {})
    /\ earlier' = [earlier EXCEPT ![r] = {s \in Releases : request[s] = "taken"}]
    /\ UNCHANGED <<gap, rollback, inflight, pending, late, running, proven,
                   interrupted, faults>>

BeginDeploy ==
    /\ op.at = "accepted"
    /\ RecordReceived(op.release)
    /\ op' = [op EXCEPT !.at = "apply"]
    /\ UNCHANGED <<gap, rollback, request, inflight, pending, late, running,
                   history>>

(* docker compose up for one manifest, which may replace some containers   *)
(* and fail.                                                               *)
Applied(target)     == running' = target
ApplyRaises(target) == running' \in {running, target, Unknown}

ApplyRelease ==
    /\ op.at = "apply"
    /\ \/ Applied(op.release) /\ op' = [op EXCEPT !.at = "check"]
       \/ ApplyRaises(op.release) /\ op' = [op EXCEPT !.at = "raised"]
    /\ UNCHANGED <<gap, rollback, request, inflight, file, pending, late,
                   history>>

CheckPasses ==
    /\ op.at = "check"
    /\ RecordSuccess(op.release)
    /\ proven' = proven \union {op.release}
    /\ op' = [op EXCEPT !.at = "publish"]
    /\ UNCHANGED <<gap, rollback, request, inflight, pending, late, running,
                   earlier, interrupted, faults>>

CheckFails ==
    /\ op.at = "check"
    /\ IF file.healthy = None
       THEN /\ RecordTerminal("reconciliation_required")
            /\ op' = [op EXCEPT !.at = "publish"]
       ELSE /\ op' = Holding("reapply", op.release, file.healthy, {})
            /\ UNCHANGED file
    /\ UNCHANGED <<gap, rollback, request, inflight, pending, late, running,
                   history>>

Reapply ==
    /\ op.at = "reapply"
    /\ \/ Applied(op.base) /\ op' = [op EXCEPT !.at = "recheck"]
       \/ ApplyRaises(op.base) /\ op' = [op EXCEPT !.at = "raised"]
    /\ UNCHANGED <<gap, rollback, request, inflight, file, pending, late,
                   history>>

Recheck ==
    /\ op.at = "recheck"
    /\ RecordTerminal("rolled_back") \/ RecordTerminal("reconciliation_required")
    /\ op' = [op EXCEPT !.at = "publish"]
    /\ UNCHANGED <<gap, rollback, request, inflight, pending, late, running,
                   history>>

\* Bug: after another process marked the file, the lock is not released.
RaisedKeepsLock ==
    /\ op.at = "raised" /\ file.phase = "received"
    /\ RecordTerminal("reconciliation_required")
    /\ op' = [op EXCEPT !.at = "publish"]
    /\ UNCHANGED <<gap, rollback, request, inflight, pending, late, running,
                   history>>

(* execute's except clause: what raised is reported only if the phase is   *)
(* still the one the deployment began with.                                *)
Raised ==
    /\ op.at = "raised"
    /\ IF file.phase = "received"
       THEN /\ RecordTerminal("reconciliation_required")
            /\ op' = [op EXCEPT !.at = "publish"]
       ELSE op' = Free /\ UNCHANGED file
    /\ UNCHANGED <<gap, rollback, request, inflight, pending, late, running,
                   history>>

(***************************************************************************)
(* The call back: queued in the file, then every event that is due is sent,*)
(* the oldest first.  One that failed before waits out a delay, so it may  *)
(* or may not be due.                                                      *)
(***************************************************************************)
\* Bug: events are deduplicated by status, not by release and status.
QueuedByStatus(event) ==
    IF \E e \in pending : e.status = event.status THEN pending
    ELSE pending \union {event}

Queued(event) == pending \union {event}

Publish ==
    /\ op.at = "publish"
    /\ pending' = Queued([release |-> op.release, status |-> file.phase])
    /\ \E waiting \in SUBSET late :
           op' = Holding("post", op.release, op.base, pending' \ waiting)
    /\ UNCHANGED <<gap, rollback, request, inflight, file, late, running,
                   history>>

Foremost(todo) == {e \in todo : \A d \in todo : d.release \notin earlier[e.release]}

(* receive_release_callback: the audit first, then the version of the site,*)
(* each committed, each done once per release.                             *)
RecordAudit(e) == audits' = audits \union {e}
\* Bug: every verdict moves the version of the site.
SyncAnyVerdict(e) ==
    IF e.release \notin synced
    THEN synced' = synced \union {e.release} /\ site' = e.release
    ELSE UNCHANGED <<synced, site>>

SyncSiteVersion(e) ==
    IF e.status = "succeeded" /\ e.release \notin synced
    THEN synced' = synced \union {e.release} /\ site' = e.release
    ELSE UNCHANGED <<synced, site>>

\* Bug: the delay of an event outlives the event.
PostAnsweredStaysLate(e) ==
    /\ op.at = "post" /\ e \in Foremost(op.todo)
    /\ asking = None
    /\ RecordAudit(e) /\ SyncSiteVersion(e)
    /\ pending' = pending \ {e} /\ late' = late
    /\ op' = [op EXCEPT !.todo = @ \ {e}]
    /\ UNCHANGED <<hook, asking, rollback, request, inflight, file, running,
                   history>>

PostAnswered(e) ==
    /\ op.at = "post" /\ e \in Foremost(op.todo)
    /\ asking = None
    /\ RecordAudit(e) /\ SyncSiteVersion(e)
    /\ pending' = pending \ {e} /\ late' = late \ {e}
    /\ op' = [op EXCEPT !.todo = @ \ {e}]
    /\ UNCHANGED <<hook, asking, rollback, request, inflight, file, running,
                   history>>

(* GAP is unreachable, answers too late, or fails half way. *)
PostFails(e) ==
    /\ op.at = "post" /\ e \in Foremost(op.todo)
    /\ inflight' = inflight \union {e}
    /\ late' = late \union {e}
    /\ op' = [op EXCEPT !.todo = @ \ {e}]
    /\ UNCHANGED <<gap, rollback, request, file, pending, running, history>>

PostsDone ==
    /\ op.at = "post" /\ op.todo = {}
    /\ op' = Free
    /\ UNCHANGED <<gap, rollback, request, inflight, file, pending, late,
                   running, history>>

(* What became of a call that got no answer: GAP handles it after all, or  *)
(* stops between its two commits.                                          *)
LateCallback(e) ==
    /\ e \in inflight /\ asking = None
    /\ inflight' = inflight \ {e}
    /\ RecordAudit(e)
    /\ SyncSiteVersion(e) \/ UNCHANGED <<synced, site>>
    /\ UNCHANGED <<hook, asking, rollback, request, runner, history>>

(***************************************************************************)
(* An administrator's rollback: GAP shows what the Runner holds for its    *)
(* last healthy release, then asks the Runner to go back to it.            *)
(***************************************************************************)
SubmitRollback ==
    /\ rollback.row = "none" /\ file.healthy # None
    /\ rollback' = [rollback EXCEPT !.displayed = file.healthy,
                                    !.row = "pending", !.call = "sent"]
    /\ UNCHANGED <<gap, request, inflight, runner, history>>

BeginRollback ==
    /\ rollback.call = "sent" /\ op.at = "free"
    /\ rollback' = [rollback EXCEPT !.call = "serving"]
    /\ op' = Holding("undo", None, file.healthy, {})
    /\ UNCHANGED <<gap, request, inflight, file, pending, late, running, history>>

Undo ==
    /\ op.at = "undo"
    /\ \/ /\ Applied(op.base)
          /\ op' = [op EXCEPT !.at = "verify"]
          /\ UNCHANGED rollback
       \/ /\ ApplyRaises(op.base)
          /\ op' = Free
          /\ rollback' = [rollback EXCEPT !.call = "refused"]
    /\ UNCHANGED <<gap, request, inflight, file, pending, late, history>>

VerifyUndo ==
    /\ op.at = "verify"
    /\ op' = Free
    /\ \/ /\ RecordSuccess(op.base)
          /\ proven' = proven \union {op.base}
          /\ rollback' = [rollback EXCEPT !.call = "done", !.restored = op.base]
       \/ /\ rollback' = [rollback EXCEPT !.call = "refused"]
          /\ UNCHANGED <<file, proven>>
    /\ UNCHANGED <<gap, request, inflight, pending, late, running, earlier,
                   interrupted, faults>>

(* The row follows the answer; a time-out counts as a failure. *)
FinishRollback ==
    /\ rollback.row = "pending"
    /\ \/ rollback.call = "done" /\ rollback' = [rollback EXCEPT !.row = "submitted"]
       \/ rollback' = [rollback EXCEPT !.row = "failed"]
    /\ UNCHANGED <<gap, request, inflight, runner, history>>

(***************************************************************************)
(* Faults.  Whoever opens the file first (the server when it starts again, *)
(* or any command of the CLI) takes an active phase for an interrupted one.*)
(***************************************************************************)
Reconciled(f) == IF f.phase = "received"
                 THEN [f EXCEPT !.phase = "reconciliation_required"] ELSE f

RunnerCrashes ==
    /\ faults < MaxFaults /\ op.at # "free"
    /\ faults' = faults + 1
    /\ file' = Reconciled(file)
    /\ op' = Free
    /\ interrupted' = IF op.at \in DeploySteps \ {"post"}
                      THEN interrupted \union {op.release} ELSE interrupted
    /\ rollback' = IF rollback.call = "serving"
                   THEN [rollback EXCEPT !.call = "refused"] ELSE rollback
    /\ UNCHANGED <<gap, request, inflight, pending, late, running, earlier, proven>>

CliOpens ==
    /\ faults < MaxFaults /\ file.phase = "received"
    /\ faults' = faults + 1
    /\ file' = Reconciled(file)
    /\ interrupted' = interrupted \union {file.current}
    /\ UNCHANGED <<gap, rollback, request, inflight, pending, late, op, running,
                   earlier, proven>>

OperationStep ==
    \/ BeginDeploy \/ ApplyRelease \/ CheckPasses \/ CheckFails
    \/ Reapply \/ Recheck \/ Raised \/ Publish \/ PostsDone \/ Undo \/ VerifyUndo
    \/ \E e \in Events : PostAnswered(e) \/ PostFails(e)

Next ==
    \/ \E r \in Releases : AcceptHook(r) \/ PrepareDeploy(r)
    \/ HookAnswered \/ DispatchFails \/ GapStops
    \/ OperationStep
    \/ \E e \in Events : LateCallback(e)
    \/ SubmitRollback \/ BeginRollback \/ FinishRollback
    \/ RunnerCrashes \/ CliOpens

Spec == Init /\ [][Next]_vars

(* The thread of the operation runs on: Compose, the health checks and the *)
(* call backs answer or fail.                                              *)
FairSpec == Spec /\ WF_vars(OperationStep)
-----------------------------------------------------------------------------
(***************************************************************************)
(* Correctness.                                                            *)
(***************************************************************************)
Reports == audits \union pending \union inflight

(* A release gets one verdict, however often its call back is sent, its    *)
(* hook is repeated, or either side stops: no two events about one release *)
(* ever differ.                                                            *)
OneVerdict ==
    \A d, e \in Reports : d.release = e.release => d = e

(* "succeeded" is said of exactly the reported releases that passed a      *)
(* health check; the Runner falls back only to such a release; the site    *)
(* shows only a version whose success GAP has on record.                   *)
VerdictsAreTrue ==
    /\ \A e \in Reports : e.status = "succeeded" <=> e.release \in proven
    /\ file.healthy \in proven \union {None}
    /\ site \in synced \union {None}
    /\ \A r \in synced : [release |-> r, status |-> "succeeded"] \in audits

(* When the Runner says a release succeeded or was rolled back, no other   *)
(* release than the last healthy one is running (an apply that failed may  *)
(* have left a mixture), whatever was applied, undone or interrupted since.*)
BaselineIsRunning ==
    file.phase \in {"succeeded", "rolled_back"}
        => running \in {file.healthy, Unknown}

(* The verdict of a deployment that is over is in GAP's records or still in*)
(* the Runner's file, unless the deployment was interrupted: nothing that  *)
(* goes wrong in Compose, in the fallback or on the way to GAP loses it.   *)
ReportedOrOwed ==
    \A r \in Releases :
        request[r] = "taken" /\ op.release # r /\ r \notin interrupted
            => \E e \in audits \union pending : e.release = r

(* A deployment ends and gives the operation lock back, whichever step of  *)
(* it fails and whatever else opens the file meanwhile.                    *)
DeploymentsEnd == \A r \in Releases : op.release = r ~> op.release # r

(* The two programs, their file and their call backs implement a log of    *)
(* verdicts in which each release is taken, judged, recorded and shown once*)
(* and in this order.  A verdict is given when its call back is queued.    *)
Asked   == {r \in Releases : request[r] # "none"}
Taken   == {r \in Releases : request[r] = "taken"}
Working == IF op.at \in DeploySteps \ {"post"} THEN op.release ELSE None

Log == INSTANCE VerdictLog WITH
    Success <- "succeeded", asked <- Asked, taken <- Taken, working <- Working,
    passed <- proven, baseline <- file.healthy,
    decided <- Reports, told <- audits, shown <- synced

ImplementsVerdictLog == Log!Spec

-----------------------------------------------------------------------------
(***************************************************************************)
(* Formulas that the code does not satisfy; the README tells the traces.   *)
(***************************************************************************)

(* "If the deployment or the health check fails, the Runner MUST roll back *)
(* to the last healthy release": an apply that fails skips it.             *)
FailureIsRolledBack ==
    op.at = "publish" /\ file.phase # "succeeded" /\ file.healthy # None
        => op.base # None

(* Once GAP has applied the version of the last healthy release, the site  *)
(* shows it: a late call back about an older one puts that version back.   *)
SiteShowsBaseline ==
    file.healthy \in synced => site = file.healthy

(* A hook recorded as not dispatched was not deployed: the request timed   *)
(* out at the operation lock and was carried out later.                    *)
FailedDispatchIsNotDeployed ==
    \A r \in Releases : hook[r] = "dispatch_failed" => r \notin proven

(* A rollback on record as submitted went to the release displayed: another*)
(* deployment may have succeeded in between.                               *)
RollbackIsToDisplayed ==
    rollback.row = "submitted" => rollback.restored = rollback.displayed

(* "The Runner MUST keep the pending call back and retry it later": only a *)
(* later deployment sends it again.                                        *)
PendingIsDelivered == \A e \in Events : e \in pending ~> e \in audits
=============================================================================
