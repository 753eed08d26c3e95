------------------------------ MODULE CodeRun ------------------------------
(***************************************************************************)
(* One Code project, its bound Sandbox and the CodeAgentRun rows asked of  *)
(* it: admission (submit_chat, create_code_run), the background task and   *)
(* the queue, the start-up of a run, the coding / verification loop with   *)
(* its retries, stop requests, the deadline that kills the Sandbox, the    *)
(* clean-up, the janitor and the recovery of a restarted API process.      *)
(*                                                                         *)
(* The Workspace is one directory that every run of the project shares.    *)
(* Its content is abstracted to the set of runs whose edits are in it; the *)
(* two control files next to it are kept as they are written, because the  *)
(* integrity guard compares a run's own baseline with the one on disk.     *)
(***************************************************************************)
EXTENDS Naturals, FiniteSets

CONSTANTS
    Runs,               \* requests for a run, each submitted at most once
    Sessions,           \* chat sessions of the agent
    SessionOf,          \* the session a request is made in
    None,               \* no run is bound to a session
    MaxConcurrentRuns,  \* policy["budgets"]["max_concurrent_runs"]
    MaxRetries,         \* claude_code_max_verifier_retries
    Workers,            \* threads of the CodeRunQueue
    MaxCrashes,         \* bound: crashes of the API process
    MaxStops            \* bound: stop_chat requests

ASSUME SessionAssumption == SessionOf \in [Runs -> Sessions]
ASSUME NoneAssumption == None \notin Runs
ASSUME RunsAssumption == IsFiniteSet(Runs)
ASSUME NumberAssumption == /\ MaxConcurrentRuns \in Nat \ {0}
                           /\ Workers \in Nat \ {0}
                           /\ {MaxRetries, MaxCrashes, MaxStops} \subseteq Nat

VARIABLES
    \* The rows of code_agent_runs, as committed.
    status, eligible, cleanup, mode, ws, backoff,
    \* The API process: the job of each run, and the tables of lifecycle.py.
    up, pc, outcome, raised, retry, chatRun, reason, hook, local,
    \* The Sandbox and the project's directory in it.
    sandboxUp, content, baseFile, authorized, base, orphans,
    \* The agent was deleted, or is no Code agent any more.
    agentGone,
    \* History and bounds.
    stopped, wrote, crashes, stops

rows   == <<status, eligible, cleanup, mode, ws, backoff>>
job    == <<pc, outcome, raised, retry, local>>
tables == <<chatRun, reason, hook>>
disk   == <<content, baseFile, authorized, base, orphans>>
past   == <<stopped, wrote, crashes, stops>>
vars   == <<rows, job, up, tables, sandboxUp, disk, agentGone, past>>

Active == {"pending", "running"}
Ended  == {"budget_exhausted", "policy_rejected", "infrastructure_error",
           "runtime_unavailable", "coding_failed", "verification_failed",
           "workspace_integrity_error", "patch_ready", "cancelled", "timed_out"}
Idle   == {"new", "done", "lost"}
Stages == {"accepted", "queued", "prepare", "start", "sync", "preflight",
           "begin", "coding", "authorize", "verify", "tests", "decide",
           "revoke", "hooks", "ended"}

Modes  == {"none", "persistent", "snapshot"}

ActiveRuns == {r \in Runs : status[r] \in Active}
Busy       == {r \in Runs : pc[r] \notin Idle \union {"accepted", "queued"}}

\* The paths that differ from a recorded baseline.
Differs(then, now) == (then \ now) \union (now \ then)

Init ==
    /\ status = [r \in Runs |-> "absent"]
    /\ eligible = [r \in Runs |-> FALSE]
    /\ cleanup = [r \in Runs |-> "not_required"]
    /\ mode = [r \in Runs |-> "none"]
    /\ ws = [r \in Runs |-> "none"]
    /\ backoff = [r \in Runs |-> FALSE]
    /\ up = TRUE
    /\ pc = [r \in Runs |-> "new"]
    /\ outcome = [r \in Runs |-> "none"]
    /\ raised = [r \in Runs |-> FALSE]
    /\ retry = [r \in Runs |-> 0]
    /\ local = [r \in Runs |-> "none"]
    /\ chatRun = [s \in Sessions |-> None]
    /\ reason = [r \in Runs |-> "none"]
    /\ hook = [r \in Runs |-> FALSE]
    /\ sandboxUp = TRUE
    /\ content = {} /\ baseFile = {} /\ authorized = {} /\ orphans = {}
    /\ base = [r \in Runs |-> {}]
    /\ agentGone = FALSE
    /\ stopped = [r \in Runs |-> FALSE]
    /\ wrote = [r \in Runs |-> FALSE]
    /\ crashes = 0 /\ stops = 0

-----------------------------------------------------------------------------
(* Admission. chat_post is a coroutine that does not await between the     *)
(* count of the active runs and the commit of the new row. A request that  *)
(* a kill switch or the storage watermark refuses leaves nothing behind.   *)

GoTo(r, stage) == pc' = [pc EXCEPT ![r] = stage]

\* Mutant: only the runs that have reached the coding loop are counted.
QuotaOfRunning ==
    Cardinality({r \in Runs : status[r] = "running"}) >= MaxConcurrentRuns

QuotaExhausted == Cardinality(ActiveRuns) >= MaxConcurrentRuns

Submit(r) ==
    /\ up /\ pc[r] = "new" /\ ~agentGone
    /\ sandboxUp                                \* _running_bound_sandbox
    /\ \/ /\ ~QuotaExhausted
          /\ status' = [status EXCEPT ![r] = "pending"]
          /\ GoTo(r, "accepted")
       \/ /\ QuotaExhausted
          /\ status' = [status EXCEPT ![r] = "budget_exhausted"]
          /\ GoTo(r, "done")
    /\ UNCHANGED <<eligible, cleanup, mode, ws, backoff, outcome, raised, retry,
                   local, up, tables, sandboxUp, disk, agentGone, past>>

\* The background task of the response puts the job in the queue.
Enqueue(r) ==
    /\ pc[r] = "accepted"
    /\ GoTo(r, "queued")
    /\ UNCHANGED <<rows, outcome, raised, retry, local, up, tables, sandboxUp,
                   disk, agentGone, past>>

\* The guard of run_agent: an exception while the row is still pending.
Fails(r) == /\ GoTo(r, "revoke")
            /\ outcome' = [outcome EXCEPT ![r] = "infrastructure_error"]
            /\ raised' = [raised EXCEPT ![r] = TRUE]

\* A worker takes the job. Without its agent, or once that is no Code agent any
\* more, the job is over; the source scan of the frozen snapshot is validated
\* before anything is allocated.
Take(r) ==
    /\ pc[r] = "queued" /\ Cardinality(Busy) < Workers
    /\ \/ agentGone /\ GoTo(r, "ended") /\ UNCHANGED <<status, outcome, raised>>
       \/ ~agentGone /\ GoTo(r, "prepare") /\ UNCHANGED <<status, outcome, raised>>
       \/ /\ ~agentGone /\ GoTo(r, "ended")
          /\ status' = [status EXCEPT ![r] = "policy_rejected"]
          /\ UNCHANGED <<outcome, raised>>
       \/ ~agentGone /\ Fails(r) /\ UNCHANGED status       \* a routing policy
    /\ UNCHANGED <<eligible, cleanup, mode, ws, backoff, retry, local, up, tables,
                   sandboxUp, disk, agentGone, past>>

-----------------------------------------------------------------------------
(* The start-up of a run, up to bind_code_run. Until the runner is         *)
(* attached nothing of it is committed.                                    *)

\* WorkspaceManager.prepare: the shared directory of the bound Sandbox, or a
\* copy of the sealed snapshot if the agent has lost its Sandbox since.
Prepare(r) ==
    /\ pc[r] = "prepare"
    /\ \/ /\ local' = [local EXCEPT ![r] = "persistent"]
          /\ baseFile' = content /\ authorized' = {}
          /\ base' = [base EXCEPT ![r] = content]
          /\ hook' = [hook EXCEPT ![r] = TRUE]
          /\ GoTo(r, "start") /\ UNCHANGED <<outcome, raised>>
       \/ /\ local' = [local EXCEPT ![r] = "snapshot"]
          /\ hook' = [hook EXCEPT ![r] = TRUE]
          /\ GoTo(r, "start") /\ UNCHANGED <<outcome, raised, baseFile, authorized, base>>
       \/ Fails(r) /\ UNCHANGED <<local, hook, baseFile, authorized, base>>
    /\ UNCHANGED <<rows, retry, up, chatRun, reason, sandboxUp, content, orphans,
                   agentGone, past>>

\* CodeContainerRunner.start attaches to the running Sandbox. A failure is
\* recorded, which commits what prepare has set.
StartRunner(r) ==
    /\ pc[r] = "start"
    /\ \/ /\ sandboxUp /\ local[r] = "persistent"
          /\ GoTo(r, "sync")
          /\ UNCHANGED <<mode, ws, outcome, raised>>
       \/ /\ Fails(r)
          /\ mode' = [mode EXCEPT ![r] = local[r]]
          /\ ws' = [ws EXCEPT ![r] = "prepared"]
    /\ UNCHANGED <<status, eligible, cleanup, backoff, retry, local, up, tables,
                   sandboxUp, disk, agentGone, past>>

\* git fetch and checkout -f: earlier edits of tracked files are gone, new files
\* are kept. On failure the row is ended before the exception, so the guard
\* leaves it alone.
Sync(r) ==
    /\ pc[r] = "sync"
    /\ mode' = [mode EXCEPT ![r] = local[r]]
    /\ ws' = [ws EXCEPT ![r] = "prepared"]
    /\ eligible' = [eligible EXCEPT ![r] = TRUE]
    /\ cleanup' = [cleanup EXCEPT ![r] = "pending"]
    /\ \/ /\ sandboxUp
          /\ content' \in SUBSET content
          /\ baseFile' = content' /\ authorized' = {}
          /\ base' = [base EXCEPT ![r] = content']
          /\ GoTo(r, "preflight") /\ UNCHANGED status
       \/ /\ status' = [status EXCEPT ![r] = "infrastructure_error"]
          /\ GoTo(r, "ended") /\ UNCHANGED <<content, baseFile, authorized, base>>
    /\ UNCHANGED <<backoff, outcome, raised, retry, local, up, tables, sandboxUp,
                   orphans, agentGone, past>>

\* Mutant: the session is bound before the preflight has passed.
PreflightAfterBind(r) ==
    /\ pc[r] = "preflight"
    /\ chatRun' = [chatRun EXCEPT ![SessionOf[r]] = r]
    /\ \/ sandboxUp /\ GoTo(r, "begin") /\ UNCHANGED status
       \/ /\ status' = [status EXCEPT ![r] = "runtime_unavailable"]
          /\ GoTo(r, "ended")
    /\ UNCHANGED <<eligible, cleanup, mode, ws, backoff, outcome, raised, retry,
                   local, up, reason, hook, sandboxUp, disk, agentGone, past>>

\* run_claude_code_preflight, then bind_code_run: from here on a stop request
\* finds the run.
Preflight(r) ==
    /\ pc[r] = "preflight"
    /\ \/ /\ sandboxUp
          /\ chatRun' = [chatRun EXCEPT ![SessionOf[r]] = r]
          /\ GoTo(r, "begin") /\ UNCHANGED <<status, outcome, raised>>
       \/ /\ status' = [status EXCEPT ![r] = "runtime_unavailable"]
          /\ GoTo(r, "ended") /\ UNCHANGED <<chatRun, outcome, raised>>
       \/ Fails(r) /\ UNCHANGED <<status, chatRun>>    \* materializing the skills
    /\ UNCHANGED <<eligible, cleanup, mode, ws, backoff, retry, local, up, reason,
                   hook, sandboxUp, disk, agentGone, past>>

-----------------------------------------------------------------------------
(* _run_code_runtime.                                                      *)

\* The outcome of the loop; an exception skips the check for a stop request.
Yields(r, o, exception) ==
    /\ GoTo(r, "decide")
    /\ outcome' = [outcome EXCEPT ![r] = o]
    /\ raised' = [raised EXCEPT ![r] = exception]

\* A command that reaches the deadline kills the container it runs in.
KillSandbox == sandboxUp /\ sandboxUp' = FALSE

\* request_code_termination: whichever run the session is bound to.
Terminate(s, why) ==
    reason' = IF chatRun[s] = None THEN reason
              ELSE [reason EXCEPT ![chatRun[s]] = why]

\* capture_baseline runs the validation plan and records what it finds in the
\* shared Workspace; without a usable model the coding loop is left out.
Begin(r) ==
    /\ pc[r] = "begin"
    /\ \/ /\ status' = [status EXCEPT ![r] = "running"]
          /\ baseFile' = content
          /\ base' = [base EXCEPT ![r] = content]
          /\ \/ GoTo(r, "coding") /\ UNCHANGED <<outcome, raised>>
             \/ Yields(r, "runtime_unavailable", FALSE)
          /\ UNCHANGED <<sandboxUp, reason>>
       \/ /\ status' = [status EXCEPT ![r] = "running"]
          /\ KillSandbox /\ Yields(r, "timed_out", TRUE)
          /\ Terminate(SessionOf[r], "timed_out")
          /\ UNCHANGED <<baseFile, base>>
       \/ /\ Fails(r)                                   \* building the context
          /\ UNCHANGED <<status, baseFile, base, sandboxUp, reason>>
    /\ UNCHANGED <<eligible, cleanup, mode, ws, backoff, retry, local, up, chatRun,
                   hook, content, authorized, orphans, agentGone, past>>

\* The Claude Code process edits a file of the Workspace.
Write(r) ==
    /\ pc[r] = "coding" /\ sandboxUp /\ r \notin content
    /\ content' = content \union {r}
    /\ wrote' = [wrote EXCEPT ![r] = TRUE]
    /\ UNCHANGED <<rows, job, up, tables, sandboxUp, baseFile, authorized, base,
                   orphans, agentGone, stopped, crashes, stops>>

\* ClaudeCodeRuntimeAdapter.run returns: completed, failed, or at the deadline.
\* A command that failed counts as completed once it has edited a file, even if
\* it failed because the Sandbox was killed under it.
CodingEnds(r) ==
    /\ pc[r] = "coding"
    /\ \/ /\ sandboxUp \/ wrote[r]
          /\ GoTo(r, "authorize")
          /\ UNCHANGED <<outcome, raised, sandboxUp>>
       \/ Yields(r, "coding_failed", FALSE) /\ UNCHANGED sandboxUp
       \/ KillSandbox /\ Yields(r, "coding_failed", FALSE)
    /\ UNCHANGED <<rows, retry, local, up, tables, disk, agentGone, past>>

BaselineDrifted(r) == base[r] # baseFile

\* WorkspaceIntegrityGuard._fail commits the verdict before it raises.
IntegrityError(r) == status' = [status EXCEPT ![r] = "workspace_integrity_error"]

Authorize(r) ==
    /\ pc[r] = "authorize"
    /\ \/ /\ ~BaselineDrifted(r)
          /\ authorized' = authorized \union Differs(baseFile, content)
          /\ GoTo(r, "verify") /\ UNCHANGED <<status, outcome, raised>>
       \/ /\ BaselineDrifted(r)
          /\ IntegrityError(r) /\ Yields(r, "workspace_integrity_error", TRUE)
          /\ UNCHANGED authorized
    /\ UNCHANGED <<eligible, cleanup, mode, ws, backoff, retry, local, up, tables,
                   sandboxUp, content, baseFile, base, orphans, agentGone, past>>

Intact(r) == /\ ~BaselineDrifted(r)
             /\ Differs(baseFile, content) \subseteq authorized

\* CodeVerifier.verify checks the Workspace, and what has changed in it, before
\* the validation plan runs and again after it.
Verify(r) ==
    /\ pc[r] = "verify"
    /\ \/ Intact(r) /\ GoTo(r, "tests") /\ UNCHANGED <<status, outcome, raised>>
       \/ Intact(r) /\ Yields(r, "policy_rejected", FALSE) /\ UNCHANGED status
       \/ ~Intact(r) /\ IntegrityError(r)
          /\ Yields(r, "workspace_integrity_error", FALSE)
    /\ UNCHANGED <<eligible, cleanup, mode, ws, backoff, retry, local, up, tables,
                   sandboxUp, disk, agentGone, past>>

\* With an empty validation plan nothing is asked of the Sandbox. The commit of
\* patch_ready comes before the check for a stop request.
Passes(r) ==
    /\ Intact(r)
    /\ status' = [status EXCEPT ![r] = "patch_ready"]
    /\ Yields(r, "patch_ready", FALSE)
    /\ UNCHANGED <<retry, reason, sandboxUp>>

\* Mutant: one attempt too many.
RetriesOnceMore(r) ==
    /\ retry[r] <= MaxRetries
    /\ retry' = [retry EXCEPT ![r] = @ + 1]
    /\ GoTo(r, "coding")
    /\ UNCHANGED <<status, outcome, raised, reason, sandboxUp>>

\* Mutant: every attempt captures a baseline of its own.
RetriesFromBaseline(r) ==
    /\ retry[r] < MaxRetries
    /\ retry' = [retry EXCEPT ![r] = @ + 1]
    /\ GoTo(r, "begin")
    /\ UNCHANGED <<status, outcome, raised, reason, sandboxUp>>

\* The verifier's feedback goes back to the same session, a bounded number of
\* times.
Retries(r) ==
    /\ retry[r] < MaxRetries
    /\ retry' = [retry EXCEPT ![r] = @ + 1]
    /\ GoTo(r, "coding")
    /\ UNCHANGED <<status, outcome, raised, reason, sandboxUp>>

GivesUp(r) ==
    /\ retry[r] >= MaxRetries
    /\ Yields(r, "verification_failed", FALSE)
    /\ UNCHANGED <<status, retry, reason, sandboxUp>>

Tests(r) ==
    /\ pc[r] = "tests"
    /\ \/ Passes(r) \/ Retries(r) \/ GivesUp(r)
       \/ /\ Intact(r) /\ Yields(r, "policy_rejected", FALSE)
          /\ UNCHANGED <<status, retry, reason, sandboxUp>>
       \/ /\ ~Intact(r) /\ IntegrityError(r)
          /\ Yields(r, "workspace_integrity_error", FALSE)
          /\ UNCHANGED <<retry, reason, sandboxUp>>
       \/ /\ KillSandbox /\ Yields(r, "timed_out", TRUE)
          /\ Terminate(SessionOf[r], "timed_out")
          /\ UNCHANGED <<status, retry>>
    /\ UNCHANGED <<eligible, cleanup, mode, ws, backoff, local, up, chatRun, hook,
                   disk, agentGone, past>>

\* Mutant: a patch that has been verified is delivered all the same.
DecideForPatch(r) ==
    /\ pc[r] = "decide"
    /\ outcome' = [outcome EXCEPT ![r] =
                       IF ~raised[r] /\ reason[r] # "none" /\ @ # "patch_ready"
                       THEN reason[r] ELSE @]
    /\ GoTo(r, "revoke")
    /\ UNCHANGED <<rows, raised, retry, local, up, tables, sandboxUp, disk, agentGone,
                   past>>

\* code_termination_reason decides, unless an exception already has.
Decide(r) ==
    /\ pc[r] = "decide"
    /\ outcome' = [outcome EXCEPT ![r] =
                       IF ~raised[r] /\ reason[r] # "none" THEN reason[r] ELSE @]
    /\ GoTo(r, "revoke")
    /\ UNCHANGED <<rows, raised, retry, local, up, tables, sandboxUp, disk, agentGone,
                   past>>

-----------------------------------------------------------------------------
(* cleanup_code_resources, the end of the job, and stop requests.          *)

\* The binding of the session is dropped whichever run holds it.
Revoke(r) ==
    /\ pc[r] = "revoke"
    /\ chatRun' = [chatRun EXCEPT ![SessionOf[r]] = None]
    /\ status' = [status EXCEPT ![r] = outcome[r]]
    /\ eligible' = [eligible EXCEPT ![r] = FALSE]
    /\ cleanup' = [cleanup EXCEPT ![r] = "running"]
    /\ mode' = [mode EXCEPT ![r] = local[r]]
    /\ GoTo(r, "hooks")
    /\ UNCHANGED <<ws, backoff, outcome, raised, retry, local, up, reason, hook,
                   sandboxUp, disk, agentGone, past>>

\* The one registered hook keeps a private Workspace for the retention period
\* and leaves the shared one in place.
Hooks(r) ==
    /\ pc[r] = "hooks"
    /\ hook' = [hook EXCEPT ![r] = FALSE]
    /\ reason' = [reason EXCEPT ![r] = "none"]
    /\ \/ /\ cleanup' = [cleanup EXCEPT ![r] = "completed"]
          /\ ws' = IF hook[r] /\ local[r] = "snapshot"
                   THEN [ws EXCEPT ![r] = "retained"] ELSE ws
          /\ UNCHANGED status
       \/ /\ hook[r] /\ local[r] = "snapshot"
          /\ cleanup' = [cleanup EXCEPT ![r] = "failed"]
          /\ status' = [status EXCEPT ![r] = "infrastructure_error"]
          /\ UNCHANGED ws
    /\ GoTo(r, "ended")
    /\ UNCHANGED <<eligible, mode, backoff, outcome, raised, retry, local, up,
                   chatRun, sandboxUp, disk, agentGone, past>>

\* The locals of the jobs in gone are gone with them.
Forget(gone) ==
    /\ outcome' = [r \in Runs |-> IF r \in gone THEN "none" ELSE outcome[r]]
    /\ raised' = [r \in Runs |-> raised[r] /\ r \notin gone]
    /\ retry' = [r \in Runs |-> IF r \in gone THEN 0 ELSE retry[r]]
    /\ local' = [r \in Runs |-> IF r \in gone THEN "none" ELSE local[r]]
    /\ base' = [r \in Runs |-> IF r \in gone THEN {} ELSE base[r]]

\* The finally of _run_chat_bg stops the session, not the run.
End(r) ==
    /\ pc[r] = "ended"
    /\ Terminate(SessionOf[r], "cancelled")
    /\ GoTo(r, "done")
    /\ Forget({r})
    /\ UNCHANGED <<rows, up, chatRun, hook, sandboxUp, content, baseFile, authorized,
                   orphans, agentGone, past>>

StopChat(s) ==
    /\ up /\ stops < MaxStops
    /\ stops' = stops + 1
    /\ Terminate(s, "cancelled")
    /\ stopped' = [r \in Runs |->
                      stopped[r] \/ (chatRun[s] = r /\ pc[r] # "revoke")]
    /\ UNCHANGED <<rows, job, up, chatRun, hook, sandboxUp, disk, agentGone, wrote,
                   crashes>>

-----------------------------------------------------------------------------
(* The janitor, and the recovery of a restarted process.                   *)

\* Mutant: only a clean-up that has begun is completed.
NeedsCompletion(r) == status[r] \in Ended /\ cleanup[r] \in {"running", "failed"}

NeedsCleanup(r) == /\ status[r] \in Ended
                   /\ eligible[r] \/ cleanup[r] \in {"running", "failed"}

\* _cleanup_workspace: a directory is kept for the retention period, then
\* purged; a row without a directory counts as deleted.
AfterCleanup(w) == CASE w = "prepared"            -> "retained"
                     [] w \in {"none", "expired"} -> "deleted"
                     [] OTHER                     -> w

\* CodeLifecycleJanitor.cleanup_run, for a run that is over: the shared
\* Workspace is released, a private one retained, and purged once expired.
Janitor(r) ==
    /\ up /\ ~backoff[r]
    /\ NeedsCleanup(r) \/ ws[r] = "expired"
    /\ eligible' = [eligible EXCEPT ![r] = FALSE]
    /\ \/ /\ mode[r] = "persistent"
          /\ cleanup' = [cleanup EXCEPT ![r] = "completed"]
          /\ ws' = [ws EXCEPT ![r] = "prepared"]
          /\ UNCHANGED backoff
       \/ /\ mode[r] # "persistent"
          /\ cleanup' = [cleanup EXCEPT ![r] = "completed"]
          /\ ws' = [ws EXCEPT ![r] = AfterCleanup(@)]
          /\ UNCHANGED backoff
       \/ /\ mode[r] # "persistent"
          /\ cleanup' = [cleanup EXCEPT ![r] = "failed"]
          /\ backoff' = [backoff EXCEPT ![r] = TRUE]
          /\ UNCHANGED ws
    /\ UNCHANGED <<status, mode, job, up, tables, sandboxUp, disk, agentGone, past>>

\* The retry delay passes; the retention period passes.
Due(r) ==
    /\ \/ backoff[r] /\ backoff' = [backoff EXCEPT ![r] = FALSE] /\ UNCHANGED ws
       \/ ws[r] = "retained" /\ ws' = [ws EXCEPT ![r] = "expired"] /\ UNCHANGED backoff
    /\ UNCHANGED <<status, eligible, cleanup, mode, job, up, tables, sandboxUp,
                   disk, agentGone, past>>

\* The process dies; a Claude Code process in the Sandbox does not.
Crash ==
    /\ up /\ crashes < MaxCrashes
    /\ up' = FALSE
    /\ crashes' = crashes + 1
    /\ orphans' = orphans \union
            {r \in Runs : sandboxUp /\ pc[r] = "coding" /\ r \notin content}
    /\ pc' = [r \in Runs |-> IF pc[r] \in Stages THEN "lost" ELSE pc[r]]
    /\ Forget({r \in Runs : pc[r] \in Stages})
    /\ chatRun' = [s \in Sessions |-> None]
    /\ reason' = [r \in Runs |-> "none"]
    /\ hook' = [r \in Runs |-> FALSE]
    /\ UNCHANGED <<rows, sandboxUp, content, baseFile, authorized, agentGone, stopped,
                   wrote, stops>>

\* Mutant: whatever may still execute is recovered.
RestartOfEligible ==
    /\ ~up
    /\ up' = TRUE
    /\ status' = [r \in Runs |-> IF status[r] \in Active \/ eligible[r]
                                 THEN "infrastructure_error" ELSE status[r]]
    /\ eligible' = [r \in Runs |-> FALSE]
    /\ UNCHANGED <<cleanup, ws, backoff, mode, job, tables, sandboxUp, disk, agentGone,
                   past>>

\* Mutant: a run that waits in the queue is not recovered.
RestartOfRunning ==
    /\ ~up
    /\ up' = TRUE
    /\ status' = [r \in Runs |-> IF status[r] = "running" THEN "infrastructure_error"
                                 ELSE status[r]]
    /\ eligible' = [r \in Runs |-> eligible[r] /\ status[r] # "running"]
    /\ UNCHANGED <<cleanup, ws, backoff, mode, job, tables, sandboxUp, disk, agentGone,
                   past>>

\* start_lifecycle_janitor, before the first request is served: every run that
\* is still active lost its job. failed: those whose directory was not released.
Restart ==
    /\ ~up
    /\ up' = TRUE
    /\ status' = [r \in Runs |-> IF status[r] \in Active THEN "infrastructure_error"
                                 ELSE status[r]]
    /\ eligible' = [r \in Runs |-> eligible[r] /\ status[r] \notin Active]
    /\ \E failed \in SUBSET {r \in ActiveRuns : mode[r] = "snapshot"} :
          /\ cleanup' = [r \in Runs |-> CASE r \in failed     -> "failed"
                                          [] r \in ActiveRuns -> "completed"
                                          [] OTHER            -> cleanup[r]]
          /\ backoff' = [r \in Runs |-> backoff[r] \/ r \in failed]
          /\ ws' = [r \in Runs |-> IF r \in ActiveRuns \ failed /\ mode[r] # "persistent"
                                   THEN AfterCleanup(ws[r]) ELSE ws[r]]
    /\ UNCHANGED <<mode, job, tables, sandboxUp, disk, agentGone, past>>

OrphanWrites(r) ==
    /\ sandboxUp /\ r \in orphans
    /\ orphans' = orphans \ {r}
    /\ content' = content \union {r}
    /\ UNCHANGED <<rows, job, up, tables, sandboxUp, baseFile, authorized, base,
                   agentGone, past>>

-----------------------------------------------------------------------------
(* Administrators: the agent goes, the Sandbox is started again.           *)

Administer ==
    /\ \/ ~agentGone /\ agentGone' = TRUE /\ UNCHANGED sandboxUp
       \/ ~sandboxUp /\ sandboxUp' = TRUE /\ UNCHANGED agentGone
    /\ UNCHANGED <<rows, job, up, tables, disk, past>>

JobStep(r) ==
    \/ Enqueue(r) \/ Take(r) \/ Prepare(r) \/ StartRunner(r) \/ Sync(r)
    \/ Preflight(r) \/ Begin(r) \/ CodingEnds(r) \/ Authorize(r)
    \/ Verify(r) \/ Tests(r) \/ Decide(r) \/ Revoke(r) \/ Hooks(r) \/ End(r)

Next ==
    \/ \E r \in Runs : \/ Submit(r) \/ JobStep(r) \/ Write(r)
                       \/ Janitor(r) \/ Due(r) \/ OrphanWrites(r)
    \/ \E s \in Sessions : StopChat(s)
    \/ Crash \/ Restart \/ Administer

\* Threads and the queue make progress, the janitor runs every minute, and a
\* process that died is started again. No process need write, nor anyone ask.
Fairness ==
    /\ \A r \in Runs : WF_vars(JobStep(r)) /\ WF_vars(Janitor(r))
    /\ WF_vars(Restart)

Spec == Init /\ [][Next]_vars
FairSpec == Spec /\ Fairness

-----------------------------------------------------------------------------
(* Properties.                                                             *)

\* Types of the variables, by the groups they are declared in.
RowTypes ==
    /\ status \in [Runs -> Active \union Ended \union {"absent"}]
    /\ eligible \in [Runs -> BOOLEAN] /\ backoff \in [Runs -> BOOLEAN]
    /\ cleanup \in [Runs -> {"not_required", "pending", "running", "completed", "failed"}]
    /\ mode \in [Runs -> Modes]
    /\ ws \in [Runs -> {"none", "prepared", "retained", "expired", "deleted"}]

JobTypes ==
    /\ pc \in [Runs -> Stages \union Idle]
    /\ outcome \in [Runs -> Ended \union {"none"}]
    /\ raised \in [Runs -> BOOLEAN]
    /\ retry \in [Runs -> 0..MaxRetries]
    /\ local \in [Runs -> Modes]
    /\ \A r \in Runs : pc[r] \in {"decide", "revoke"} => outcome[r] # "none"

TableTypes ==
    /\ chatRun \in [Sessions -> Runs \union {None}]
    /\ reason \in [Runs -> {"none", "cancelled", "timed_out"}]
    /\ hook \in [Runs -> BOOLEAN]

DiskTypes ==
    /\ content \subseteq Runs /\ baseFile \subseteq Runs
    /\ authorized \subseteq Runs /\ orphans \subseteq Runs
    /\ base \in [Runs -> SUBSET Runs]

FlagTypes == up \in BOOLEAN /\ sandboxUp \in BOOLEAN /\ agentGone \in BOOLEAN

PastTypes ==
    /\ stopped \in [Runs -> BOOLEAN] /\ wrote \in [Runs -> BOOLEAN]
    /\ crashes \in 0..MaxCrashes /\ stops \in 0..MaxStops

TypeOK == RowTypes /\ JobTypes /\ TableTypes /\ DiskTypes /\ FlagTypes /\ PastTypes

\* The stages in which a job works in the Sandbox; those in which it may be
\* bound to its session.
Coding  == {"coding", "authorize", "verify", "tests"}
Working == {"prepare", "start", "sync", "preflight", "begin"} \union Coding
Bound   == {"begin", "decide", "revoke"} \union Coding

\* The project's budget bounds the runs at work in its Sandbox, whatever was
\* admitted, recovered or ended since: the admission counts rows, the Sandbox
\* is used by jobs.
QuotaBoundsJobs == Cardinality({r \in Runs : pc[r] \in Working}) <= MaxConcurrentRuns

\* A stop request never reaches a run that is over: the binding of a session
\* and the reason of a run are gone with the job they are for.
BindingIsLive ==
    /\ \A s \in Sessions : chatRun[s] # None =>
          /\ SessionOf[chatRun[s]] = s
          /\ pc[chatRun[s]] \in Bound
    /\ \A r \in Runs : reason[r] # "none" => pc[r] \in Bound \union {"hooks"}

\* A run that was asked to stop while it was bound does not end as a patch,
\* although patch_ready may have been committed in between.
StoppedIsNotDelivered ==
    \A r \in Runs : pc[r] = "done" /\ stopped[r] => status[r] # "patch_ready"

\* The integrity guard sees to it that what is delivered as the patch of a run
\* contains what the run has written.
PatchHasItsEdits ==
    [][\A r \in Runs :
          status[r] # "patch_ready" /\ status'[r] = "patch_ready" /\ wrote[r] =>
              r \in Differs(baseFile', content')]_vars

\* Whoever comes later, clean-up, janitor or recovery, leaves the verdict of a
\* run whose job is gone, and no run that has ended is started again.
VerdictStands ==
    [][\A r \in Runs : status[r] \in Ended =>
          /\ status'[r] \in Ended
          /\ pc[r] \in Idle => status'[r] = status[r]]_vars

\* Every admitted run ends, unless its agent is gone.
EveryRunEnds ==
    \A r \in Runs : status[r] \in Active ~> status[r] \in Ended \/ agentGone

\* A run that has ended loses its permission to execute, even if its own
\* clean-up never ran.
EligibilityIsRevoked ==
    \A r \in Runs : status[r] \in Ended /\ eligible[r] ~> ~eligible[r]

-----------------------------------------------------------------------------
(* Formulas that the code violates (README).                               *)

\* "Concurrent tasks MUST NOT write to the same project Workspace at once."
WorkspaceHasOneWriter ==
    Cardinality({r \in Runs : pc[r] = "coding"}) <= 1

\* A run is only cancelled for a stop request of its own session's user.
CancelledWasAsked ==
    \A r \in Runs : status[r] = "cancelled" => stopped[r]

\* What is delivered as the patch of a run was written by that run.
PatchIsItsOwn ==
    [][\A r \in Runs : status[r] # "patch_ready" /\ status'[r] = "patch_ready" =>
          Differs(baseFile', content') \subseteq {r}]_vars

\* A later run finds the patch of an earlier one in the Workspace they share.
PatchIsKept ==
    [][\A r \in content : status[r] = "patch_ready" => r \in content']_vars
=============================================================================
