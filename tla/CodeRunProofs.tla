---------------------------- MODULE CodeRunProofs ----------------------------
(***************************************************************************)
(* CodeRun proved for any number of runs, sessions and workers.            *)
(***************************************************************************)
EXTENDS CodeRun, FiniteSetTheorems, TLAPS

Starting == {"accepted", "queued", "prepare", "start", "sync", "preflight", "begin"}

(* The job of a run and its row agree, as long as there is a job. *)
JobsMatchRows ==
    \A r \in Runs : /\ pc[r] = "new" => status[r] = "absent"
                    /\ pc[r] \in Starting => status[r] = "pending"
                    /\ pc[r] \in Coding => status[r] = "running"

(* A process that is down has no jobs. *)
DownIsIdle == ~up => \A r \in Runs : pc[r] \in Idle

(* What create_code_run counts never exceeds the budget. *)
AdmittedInQuota == Cardinality(ActiveRuns) <= MaxConcurrentRuns

(* Where a stop request is kept on its way from the table to the row. An      *)
(* exception does not yield a patch, so it may skip the check.                *)
StopIsRemembered ==
    /\ \A r \in Runs : pc[r] = "decide" /\ raised[r] => outcome[r] # "patch_ready"
    /\ \A r \in Runs : stopped[r] =>
          /\ pc[r] \in Bound \union {"hooks", "ended", "done", "lost"}
          /\ pc[r] \in Bound \ {"revoke"} => reason[r] # "none"
          /\ pc[r] = "revoke" => outcome[r] # "patch_ready"
          /\ pc[r] \in {"hooks", "ended", "done"} => status[r] # "patch_ready"

(* A patch is in the row before the loop ends with it. *)
PatchIsCommitted ==
    \A r \in Runs : pc[r] \in {"decide", "revoke"} /\ outcome[r] = "patch_ready"
                    => status[r] = "patch_ready"

(* While it codes, a run's edits are in the Workspace and not in the baseline *)
(* they are compared with; before, there are none.                           *)
EditsAreThere ==
    \A r \in Runs :
        /\ pc[r] \in Starting \union {"new"} =>
              ~wrote[r] /\ r \notin content /\ r \notin orphans
        /\ pc[r] \in Coding => r \notin baseFile /\ (wrote[r] => r \in content)

LEMMA InitTypes == Init => TypeOK
  <1> SUFFICES ASSUME Init PROVE TypeOK
    OBVIOUS
  <1>1. RowTypes
    BY DEF Init, RowTypes, Modes
  <1>2. JobTypes
    BY NumberAssumption DEF Init, JobTypes, Modes, Idle
  <1>3. TableTypes /\ DiskTypes
    BY DEF Init, TableTypes, DiskTypes
  <1>4. FlagTypes
    BY DEF Init, FlagTypes
  <1>5. PastTypes
    BY NumberAssumption DEF Init, PastTypes
  <1> QED
    BY <1>1, <1>2, <1>3, <1>4, <1>5 DEF TypeOK

LEMMA RowTypesKept == TypeOK /\ [Next]_vars => RowTypes'
  <1> SUFFICES ASSUME TypeOK, [Next]_vars PROVE RowTypes'
    OBVIOUS
  <1> USE DEF TypeOK, RowTypes, JobTypes, Active, Ended, Modes
  <1>1. ASSUME NEW r \in Runs, Submit(r) PROVE RowTypes'
    BY <1>1 DEF Submit, GoTo, QuotaExhausted
  <1>2. ASSUME NEW r \in Runs, Take(r) PROVE RowTypes'
    BY <1>2 DEF Take, GoTo, Fails
  <1>3. ASSUME NEW r \in Runs, StartRunner(r) PROVE RowTypes'
    BY <1>3 DEF StartRunner, GoTo, Fails
  <1>4. ASSUME NEW r \in Runs, Sync(r) PROVE RowTypes'
    BY <1>4 DEF Sync, GoTo
  <1>5. ASSUME NEW r \in Runs, Preflight(r) PROVE RowTypes'
    BY <1>5 DEF Preflight, GoTo, Fails
  <1>6. ASSUME NEW r \in Runs, Begin(r) PROVE RowTypes'
    BY <1>6 DEF Begin, GoTo, Fails, Yields, KillSandbox, Terminate
  <1>7. ASSUME NEW r \in Runs, Authorize(r) PROVE RowTypes'
    BY <1>7 DEF Authorize, GoTo, Yields, BaselineDrifted, IntegrityError, Differs
  <1>8. ASSUME NEW r \in Runs, Verify(r) PROVE RowTypes'
    BY <1>8 DEF Verify, GoTo, Yields, Intact, IntegrityError
  <1>9. ASSUME NEW r \in Runs, Tests(r) PROVE RowTypes'
    BY <1>9 DEF Tests, GoTo, Yields, Passes, Retries, GivesUp, Intact, IntegrityError,
       KillSandbox, Terminate
  <1>10. ASSUME NEW r \in Runs, Revoke(r) PROVE RowTypes'
    BY <1>10 DEF Revoke, GoTo
  <1>11. ASSUME NEW r \in Runs, Hooks(r) PROVE RowTypes'
    BY <1>11 DEF Hooks, GoTo
  <1>12. ASSUME NEW r \in Runs, Janitor(r) PROVE RowTypes'
    BY <1>12 DEF Janitor, NeedsCleanup, AfterCleanup
  <1>13. ASSUME NEW r \in Runs, Due(r) PROVE RowTypes'
    BY <1>13 DEF Due
  <1>14. ASSUME Restart PROVE RowTypes'
    BY <1>14 DEF Restart, AfterCleanup
  <1>15. ASSUME UNCHANGED rows PROVE RowTypes'
    BY <1>15 DEF rows
  <1> QED
    BY <1>1, <1>2, <1>3, <1>4, <1>5, <1>6, <1>7, <1>8, <1>9, <1>10, <1>11, <1>12, <1>13,
       <1>14, <1>15 DEF Next, JobStep, vars, rows, job, tables, disk, past, Enqueue, Prepare,
       CodingEnds, Decide, End, Write, OrphanWrites, StopChat, Crash, Administer

LEMMA JobTypesKept == TypeOK /\ [Next]_vars => JobTypes'
  <1> SUFFICES ASSUME TypeOK, [Next]_vars PROVE JobTypes'
    OBVIOUS
  <1> USE NumberAssumption DEF TypeOK, JobTypes, TableTypes, Ended, Modes, Stages, Idle
  <1>1. ASSUME NEW r \in Runs, Submit(r) PROVE JobTypes'
    BY <1>1 DEF Submit, GoTo, QuotaExhausted
  <1>2. ASSUME NEW r \in Runs, Enqueue(r) PROVE JobTypes'
    BY <1>2 DEF Enqueue, GoTo
  <1>3. ASSUME NEW r \in Runs, Take(r) PROVE JobTypes'
    BY <1>3 DEF Take, GoTo, Fails
  <1>4. ASSUME NEW r \in Runs, Prepare(r) PROVE JobTypes'
    BY <1>4 DEF Prepare, GoTo, Fails
  <1>5. ASSUME NEW r \in Runs, StartRunner(r) PROVE JobTypes'
    BY <1>5 DEF StartRunner, GoTo, Fails
  <1>6. ASSUME NEW r \in Runs, Sync(r) PROVE JobTypes'
    BY <1>6 DEF Sync, GoTo
  <1>7. ASSUME NEW r \in Runs, Preflight(r) PROVE JobTypes'
    BY <1>7 DEF Preflight, GoTo, Fails
  <1>8. ASSUME NEW r \in Runs, Begin(r) PROVE JobTypes'
    BY <1>8 DEF Begin, GoTo, Fails, Yields, KillSandbox, Terminate
  <1>9. ASSUME NEW r \in Runs, CodingEnds(r) PROVE JobTypes'
    BY <1>9 DEF CodingEnds, GoTo, Yields, KillSandbox
  <1>10. ASSUME NEW r \in Runs, Authorize(r) PROVE JobTypes'
    BY <1>10 DEF Authorize, GoTo, Yields, BaselineDrifted, IntegrityError, Differs
  <1>11. ASSUME NEW r \in Runs, Verify(r) PROVE JobTypes'
    BY <1>11 DEF Verify, GoTo, Yields, Intact, IntegrityError
  <1>12. ASSUME NEW r \in Runs, Tests(r) PROVE JobTypes'
    <2>1. \/ retry' = retry
          \/ retry[r] < MaxRetries /\ retry' = [retry EXCEPT ![r] = @ + 1]
      BY <1>12 DEF Tests, Passes, Retries, GivesUp
    <2>2. retry' \in [Runs -> 0..MaxRetries]
      BY <2>1, MaxRetries \in Nat
    <2>3. /\ pc' \in [Runs -> Stages \union Idle]
          /\ outcome' \in [Runs -> Ended \union {"none"}]
          /\ raised' \in [Runs -> BOOLEAN]
          /\ local' \in [Runs -> Modes]
          /\ \A q \in Runs : pc'[q] \in {"decide", "revoke"} => outcome'[q] # "none"
      BY <1>12 DEF Tests, GoTo, Yields, Passes, Retries, GivesUp
    <2> QED
      BY <2>2, <2>3
  <1>13. ASSUME NEW r \in Runs, Decide(r) PROVE JobTypes'
    BY <1>13 DEF Decide, GoTo
  <1>14. ASSUME NEW r \in Runs, Revoke(r) PROVE JobTypes'
    BY <1>14 DEF Revoke, GoTo
  <1>15. ASSUME NEW r \in Runs, Hooks(r) PROVE JobTypes'
    BY <1>15 DEF Hooks, GoTo
  <1>16. ASSUME NEW r \in Runs, End(r) PROVE JobTypes'
    BY <1>16 DEF End, GoTo, Terminate, Forget
  <1>17. ASSUME Crash PROVE JobTypes'
    BY <1>17 DEF Crash, Forget
  <1>18. ASSUME UNCHANGED job PROVE JobTypes'
    BY <1>18 DEF job
  <1> QED
    BY <1>1, <1>2, <1>3, <1>4, <1>5, <1>6, <1>7, <1>8, <1>9, <1>10, <1>11, <1>12, <1>13,
       <1>14, <1>15, <1>16, <1>17, <1>18 DEF Next, JobStep, vars, rows, job, tables, disk,
       past, Write, Janitor, Due, OrphanWrites, StopChat, Restart, Administer

LEMMA TableTypesKept == TypeOK /\ [Next]_vars => TableTypes'
  <1> SUFFICES ASSUME TypeOK, [Next]_vars PROVE TableTypes'
    OBVIOUS
  <1> USE SessionAssumption DEF TypeOK, TableTypes
  <1>1. ASSUME NEW r \in Runs, Prepare(r) PROVE TableTypes'
    BY <1>1 DEF Prepare, GoTo, Fails
  <1>2. ASSUME NEW r \in Runs, Preflight(r) PROVE TableTypes'
    BY <1>2 DEF Preflight, GoTo, Fails
  <1>3. ASSUME NEW r \in Runs, Begin(r) PROVE TableTypes'
    BY <1>3 DEF Begin, GoTo, Fails, Yields, KillSandbox, Terminate
  <1>4. ASSUME NEW r \in Runs, Tests(r) PROVE TableTypes'
    BY <1>4 DEF Tests, GoTo, Yields, Passes, Retries, GivesUp, Intact, IntegrityError,
       KillSandbox, Terminate
  <1>5. ASSUME NEW r \in Runs, Revoke(r) PROVE TableTypes'
    BY <1>5 DEF Revoke, GoTo
  <1>6. ASSUME NEW r \in Runs, Hooks(r) PROVE TableTypes'
    BY <1>6 DEF Hooks, GoTo
  <1>7. ASSUME NEW r \in Runs, End(r) PROVE TableTypes'
    BY <1>7 DEF End, GoTo, Terminate, Forget
  <1>8. ASSUME NEW s \in Sessions, StopChat(s) PROVE TableTypes'
    BY <1>8 DEF StopChat, Terminate
  <1>9. ASSUME Crash PROVE TableTypes'
    BY <1>9 DEF Crash, Forget
  <1>10. ASSUME UNCHANGED tables PROVE TableTypes'
    BY <1>10 DEF tables
  <1> QED
    BY <1>1, <1>2, <1>3, <1>4, <1>5, <1>6, <1>7, <1>8, <1>9, <1>10 DEF Next, JobStep, vars,
       rows, job, tables, disk, past, Submit, Enqueue, Take, StartRunner, Sync, CodingEnds,
       Authorize, Verify, Decide, Write, Janitor, Due, OrphanWrites, Restart, Administer

LEMMA DiskTypesKept == TypeOK /\ [Next]_vars => DiskTypes'
  <1> SUFFICES ASSUME TypeOK, [Next]_vars PROVE DiskTypes'
    OBVIOUS
  <1> USE DEF TypeOK, DiskTypes
  <1>1. ASSUME NEW r \in Runs, Prepare(r) PROVE DiskTypes'
    BY <1>1 DEF Prepare, GoTo, Fails
  <1>2. ASSUME NEW r \in Runs, Sync(r) PROVE DiskTypes'
    BY <1>2 DEF Sync, GoTo
  <1>3. ASSUME NEW r \in Runs, Begin(r) PROVE DiskTypes'
    BY <1>3 DEF Begin, GoTo, Fails, Yields, KillSandbox, Terminate
  <1>4. ASSUME NEW r \in Runs, Authorize(r) PROVE DiskTypes'
    BY <1>4 DEF Authorize, GoTo, Yields, BaselineDrifted, IntegrityError, Differs
  <1>5. ASSUME NEW r \in Runs, End(r) PROVE DiskTypes'
    BY <1>5 DEF End, GoTo, Terminate, Forget
  <1>6. ASSUME NEW r \in Runs, Write(r) PROVE DiskTypes'
    BY <1>6 DEF Write
  <1>7. ASSUME Crash PROVE DiskTypes'
    BY <1>7 DEF Crash, Forget
  <1>8. ASSUME NEW r \in Runs, OrphanWrites(r) PROVE DiskTypes'
    BY <1>8 DEF OrphanWrites
  <1>9. ASSUME UNCHANGED disk PROVE DiskTypes'
    BY <1>9 DEF disk
  <1> QED
    BY <1>1, <1>2, <1>3, <1>4, <1>5, <1>6, <1>7, <1>8, <1>9 DEF Next, JobStep, vars, rows,
       job, tables, disk, past, Submit, Enqueue, Take, StartRunner, Preflight, CodingEnds,
       Verify, Tests, Decide, Revoke, Hooks, Janitor, Due, StopChat, Restart, Administer

LEMMA FlagTypesKept == TypeOK /\ [Next]_vars => FlagTypes'
  <1> SUFFICES ASSUME TypeOK, [Next]_vars PROVE FlagTypes'
    OBVIOUS
  <1> USE DEF TypeOK, FlagTypes
  <1>1. ASSUME NEW r \in Runs, Begin(r) PROVE FlagTypes'
    BY <1>1 DEF Begin, GoTo, Fails, Yields, KillSandbox, Terminate
  <1>2. ASSUME NEW r \in Runs, CodingEnds(r) PROVE FlagTypes'
    BY <1>2 DEF CodingEnds, GoTo, Yields, KillSandbox
  <1>3. ASSUME NEW r \in Runs, Tests(r) PROVE FlagTypes'
    BY <1>3 DEF Tests, GoTo, Yields, Passes, Retries, GivesUp, Intact, IntegrityError,
       KillSandbox, Terminate
  <1>4. ASSUME Crash PROVE FlagTypes'
    BY <1>4 DEF Crash, Forget
  <1>5. ASSUME Restart PROVE FlagTypes'
    BY <1>5 DEF Restart, AfterCleanup
  <1>6. ASSUME Administer PROVE FlagTypes'
    BY <1>6 DEF Administer
  <1>7. ASSUME UNCHANGED <<up, sandboxUp, agentGone>> PROVE FlagTypes'
    BY <1>7
  <1> QED
    BY <1>1, <1>2, <1>3, <1>4, <1>5, <1>6, <1>7 DEF Next, JobStep, vars, rows, job, tables,
       disk, past, Submit, Enqueue, Take, Prepare, StartRunner, Sync, Preflight, Authorize,
       Verify, Decide, Revoke, Hooks, End, Write, Janitor, Due, OrphanWrites, StopChat

LEMMA PastTypesKept == TypeOK /\ [Next]_vars => PastTypes'
  <1> SUFFICES ASSUME TypeOK, [Next]_vars PROVE PastTypes'
    OBVIOUS
  <1> USE NumberAssumption DEF TypeOK, PastTypes
  <1>1. ASSUME NEW r \in Runs, Write(r) PROVE PastTypes'
    BY <1>1 DEF Write
  <1>2. ASSUME NEW s \in Sessions, StopChat(s) PROVE PastTypes'
    BY <1>2 DEF StopChat, Terminate
  <1>3. ASSUME Crash PROVE PastTypes'
    BY <1>3 DEF Crash, Forget
  <1>4. ASSUME UNCHANGED past PROVE PastTypes'
    BY <1>4 DEF past
  <1> QED
    BY <1>1, <1>2, <1>3, <1>4 DEF Next, JobStep, vars, rows, job, tables, disk, past, Submit,
       Enqueue, Take, Prepare, StartRunner, Sync, Preflight, Begin, CodingEnds, Authorize,
       Verify, Tests, Decide, Revoke, Hooks, End, Janitor, Due, OrphanWrites, Restart,
       Administer

LEMMA NextTypes == TypeOK /\ [Next]_vars => TypeOK'
  BY RowTypesKept, JobTypesKept, TableTypesKept, DiskTypesKept, FlagTypesKept, PastTypesKept
  DEF TypeOK
-----------------------------------------------------------------------------
(* Jobs, rows and the quota.                                               *)

LEMMA JobsMatchRowsKept == TypeOK /\ JobsMatchRows /\ DownIsIdle /\ [Next]_vars => JobsMatchRows'
  <1> SUFFICES ASSUME TypeOK /\ JobsMatchRows /\ DownIsIdle, [Next]_vars PROVE JobsMatchRows'
    OBVIOUS
  <1> USE DEF TypeOK, RowTypes, JobTypes, JobsMatchRows, DownIsIdle, Starting, Coding, Idle, Stages, rows, job
  <1>1. ASSUME NEW r \in Runs, Submit(r) PROVE JobsMatchRows'
    BY <1>1 DEF Submit, GoTo, QuotaExhausted
  <1>2. ASSUME NEW r \in Runs, Enqueue(r) PROVE JobsMatchRows'
    BY <1>2 DEF Enqueue, GoTo
  <1>3. ASSUME NEW r \in Runs, Take(r) PROVE JobsMatchRows'
    BY <1>3 DEF Take, GoTo, Fails
  <1>4. ASSUME NEW r \in Runs, Prepare(r) PROVE JobsMatchRows'
    BY <1>4 DEF Prepare, GoTo, Fails
  <1>5. ASSUME NEW r \in Runs, StartRunner(r) PROVE JobsMatchRows'
    BY <1>5 DEF StartRunner, GoTo, Fails
  <1>6. ASSUME NEW r \in Runs, Sync(r) PROVE JobsMatchRows'
    BY <1>6 DEF Sync, GoTo
  <1>7. ASSUME NEW r \in Runs, Preflight(r) PROVE JobsMatchRows'
    BY <1>7 DEF Preflight, GoTo, Fails
  <1>8. ASSUME NEW r \in Runs, Begin(r) PROVE JobsMatchRows'
    BY <1>8 DEF Begin, GoTo, Fails, Yields, KillSandbox, Terminate
  <1>9. ASSUME NEW r \in Runs, CodingEnds(r) PROVE JobsMatchRows'
    BY <1>9 DEF CodingEnds, GoTo, Yields, KillSandbox
  <1>10. ASSUME NEW r \in Runs, Authorize(r) PROVE JobsMatchRows'
    BY <1>10 DEF Authorize, GoTo, Yields, BaselineDrifted, IntegrityError, Differs
  <1>11. ASSUME NEW r \in Runs, Verify(r) PROVE JobsMatchRows'
    BY <1>11 DEF Verify, GoTo, Yields, Intact, IntegrityError
  <1>12. ASSUME NEW r \in Runs, Tests(r) PROVE JobsMatchRows'
    BY <1>12 DEF Tests, GoTo, Yields, Passes, Retries, GivesUp, Intact, IntegrityError,
       KillSandbox, Terminate
  <1>13. ASSUME NEW r \in Runs, Decide(r) PROVE JobsMatchRows'
    BY <1>13 DEF Decide, GoTo
  <1>14. ASSUME NEW r \in Runs, Revoke(r) PROVE JobsMatchRows'
    BY <1>14 DEF Revoke, GoTo
  <1>15. ASSUME NEW r \in Runs, Hooks(r) PROVE JobsMatchRows'
    BY <1>15 DEF Hooks, GoTo
  <1>16. ASSUME NEW r \in Runs, End(r) PROVE JobsMatchRows'
    BY <1>16 DEF End, GoTo, Terminate, Forget
  <1>17. ASSUME NEW r \in Runs, Janitor(r) PROVE JobsMatchRows'
    BY <1>17 DEF Janitor, NeedsCleanup, AfterCleanup
  <1>18. ASSUME NEW r \in Runs, Due(r) PROVE JobsMatchRows'
    BY <1>18 DEF Due
  <1>19. ASSUME Crash PROVE JobsMatchRows'
    BY <1>19 DEF Crash, Forget
  <1>20. ASSUME Restart PROVE JobsMatchRows'
    <2>1. ~up /\ pc' = pc
      BY <1>20 DEF Restart
    <2>2. \A r \in Runs : status[r] = "absent" => status'[r] = "absent"
      BY <1>20 DEF Restart, Active
    <2> QED
      BY <2>1, <2>2
  <1>21. ASSUME UNCHANGED <<pc, status>> PROVE JobsMatchRows'
    BY <1>21
  <1> QED
    BY <1>1, <1>2, <1>3, <1>4, <1>5, <1>6, <1>7, <1>8, <1>9, <1>10, <1>11, <1>12, <1>13,
       <1>14, <1>15, <1>16, <1>17, <1>18, <1>19, <1>20, <1>21 DEF Next, JobStep, vars, rows,
       job, tables, disk, past, Write, OrphanWrites, StopChat, Administer

LEMMA DownIsIdleKept == TypeOK /\ JobsMatchRows /\ DownIsIdle /\ [Next]_vars => DownIsIdle'
  <1> SUFFICES ASSUME TypeOK /\ JobsMatchRows /\ DownIsIdle, [Next]_vars PROVE DownIsIdle'
    OBVIOUS
  <1> USE DEF TypeOK, JobTypes, FlagTypes, DownIsIdle, Idle, Stages
  <1>1. ASSUME NEW r \in Runs, Submit(r) PROVE DownIsIdle'
    BY <1>1 DEF Submit, GoTo, QuotaExhausted
  <1>2. ASSUME NEW r \in Runs, Enqueue(r) PROVE DownIsIdle'
    BY <1>2 DEF Enqueue, GoTo
  <1>3. ASSUME NEW r \in Runs, Take(r) PROVE DownIsIdle'
    BY <1>3 DEF Take, GoTo, Fails
  <1>4. ASSUME NEW r \in Runs, Prepare(r) PROVE DownIsIdle'
    BY <1>4 DEF Prepare, GoTo, Fails
  <1>5. ASSUME NEW r \in Runs, StartRunner(r) PROVE DownIsIdle'
    BY <1>5 DEF StartRunner, GoTo, Fails
  <1>6. ASSUME NEW r \in Runs, Sync(r) PROVE DownIsIdle'
    BY <1>6 DEF Sync, GoTo
  <1>7. ASSUME NEW r \in Runs, Preflight(r) PROVE DownIsIdle'
    BY <1>7 DEF Preflight, GoTo, Fails
  <1>8. ASSUME NEW r \in Runs, Begin(r) PROVE DownIsIdle'
    BY <1>8 DEF Begin, GoTo, Fails, Yields, KillSandbox, Terminate
  <1>9. ASSUME NEW r \in Runs, CodingEnds(r) PROVE DownIsIdle'
    BY <1>9 DEF CodingEnds, GoTo, Yields, KillSandbox
  <1>10. ASSUME NEW r \in Runs, Authorize(r) PROVE DownIsIdle'
    BY <1>10 DEF Authorize, GoTo, Yields, BaselineDrifted, IntegrityError, Differs
  <1>11. ASSUME NEW r \in Runs, Verify(r) PROVE DownIsIdle'
    BY <1>11 DEF Verify, GoTo, Yields, Intact, IntegrityError
  <1>12. ASSUME NEW r \in Runs, Tests(r) PROVE DownIsIdle'
    BY <1>12 DEF Tests, GoTo, Yields, Passes, Retries, GivesUp, Intact, IntegrityError,
       KillSandbox, Terminate
  <1>13. ASSUME NEW r \in Runs, Decide(r) PROVE DownIsIdle'
    BY <1>13 DEF Decide, GoTo
  <1>14. ASSUME NEW r \in Runs, Revoke(r) PROVE DownIsIdle'
    BY <1>14 DEF Revoke, GoTo
  <1>15. ASSUME NEW r \in Runs, Hooks(r) PROVE DownIsIdle'
    BY <1>15 DEF Hooks, GoTo
  <1>16. ASSUME NEW r \in Runs, End(r) PROVE DownIsIdle'
    BY <1>16 DEF End, GoTo, Terminate, Forget
  <1>17. ASSUME Crash PROVE DownIsIdle'
    BY <1>17 DEF Crash, Forget
  <1>18. ASSUME Restart PROVE DownIsIdle'
    BY <1>18 DEF Restart, AfterCleanup
  <1>19. ASSUME UNCHANGED <<pc, up>> PROVE DownIsIdle'
    BY <1>19
  <1> QED
    BY <1>1, <1>2, <1>3, <1>4, <1>5, <1>6, <1>7, <1>8, <1>9, <1>10, <1>11, <1>12, <1>13,
       <1>14, <1>15, <1>16, <1>17, <1>18, <1>19 DEF Next, JobStep, vars, rows, job, tables,
       disk, past, Write, Janitor, Due, OrphanWrites, StopChat, Administer

(* Only an admission adds to the active runs. *)
LEMMA OnlySubmitAdmits == TypeOK /\ JobsMatchRows /\ [Next]_vars => (\E r \in Runs : Submit(r)) \/ ActiveRuns' \subseteq ActiveRuns
  <1> SUFFICES ASSUME TypeOK /\ JobsMatchRows, [Next]_vars PROVE (\E r \in Runs : Submit(r)) \/ ActiveRuns' \subseteq ActiveRuns
    OBVIOUS
  <1> USE DEF TypeOK, RowTypes, JobTypes, JobsMatchRows, ActiveRuns, Active, Ended, Starting, Coding
  <1>1. ASSUME NEW r \in Runs, Take(r) PROVE ActiveRuns' \subseteq ActiveRuns
    BY <1>1 DEF Take, GoTo, Fails
  <1>2. ASSUME NEW r \in Runs, StartRunner(r) PROVE ActiveRuns' \subseteq ActiveRuns
    BY <1>2 DEF StartRunner, GoTo, Fails
  <1>3. ASSUME NEW r \in Runs, Sync(r) PROVE ActiveRuns' \subseteq ActiveRuns
    BY <1>3 DEF Sync, GoTo
  <1>4. ASSUME NEW r \in Runs, Preflight(r) PROVE ActiveRuns' \subseteq ActiveRuns
    BY <1>4 DEF Preflight, GoTo, Fails
  <1>5. ASSUME NEW r \in Runs, Begin(r) PROVE ActiveRuns' \subseteq ActiveRuns
    BY <1>5 DEF Begin, GoTo, Fails, Yields, KillSandbox, Terminate
  <1>6. ASSUME NEW r \in Runs, Authorize(r) PROVE ActiveRuns' \subseteq ActiveRuns
    BY <1>6 DEF Authorize, GoTo, Yields, BaselineDrifted, IntegrityError, Differs
  <1>7. ASSUME NEW r \in Runs, Verify(r) PROVE ActiveRuns' \subseteq ActiveRuns
    BY <1>7 DEF Verify, GoTo, Yields, Intact, IntegrityError
  <1>8. ASSUME NEW r \in Runs, Tests(r) PROVE ActiveRuns' \subseteq ActiveRuns
    BY <1>8 DEF Tests, GoTo, Yields, Passes, Retries, GivesUp, Intact, IntegrityError,
       KillSandbox, Terminate
  <1>9. ASSUME NEW r \in Runs, Revoke(r) PROVE ActiveRuns' \subseteq ActiveRuns
    BY <1>9 DEF Revoke, GoTo
  <1>10. ASSUME NEW r \in Runs, Hooks(r) PROVE ActiveRuns' \subseteq ActiveRuns
    BY <1>10 DEF Hooks, GoTo
  <1>11. ASSUME NEW r \in Runs, Janitor(r) PROVE ActiveRuns' \subseteq ActiveRuns
    BY <1>11 DEF Janitor, NeedsCleanup, AfterCleanup
  <1>12. ASSUME NEW r \in Runs, Due(r) PROVE ActiveRuns' \subseteq ActiveRuns
    BY <1>12 DEF Due
  <1>13. ASSUME Restart PROVE ActiveRuns' \subseteq ActiveRuns
    BY <1>13 DEF Restart, AfterCleanup
  <1>14. ASSUME UNCHANGED status PROVE ActiveRuns' \subseteq ActiveRuns
    BY <1>14
  <1> QED
    BY <1>1, <1>2, <1>3, <1>4, <1>5, <1>6, <1>7, <1>8, <1>9, <1>10, <1>11, <1>12, <1>13,
       <1>14 DEF Next, JobStep, vars, rows, job, tables, disk, past, Enqueue, Prepare,
       CodingEnds, Decide, End, Write, OrphanWrites, StopChat, Crash, Administer

LEMMA QuotaKept ==
    TypeOK /\ JobsMatchRows /\ AdmittedInQuota /\ [Next]_vars => AdmittedInQuota'
  <1> SUFFICES ASSUME TypeOK, JobsMatchRows, AdmittedInQuota, [Next]_vars
               PROVE  Cardinality(ActiveRuns') <= MaxConcurrentRuns
    BY DEF AdmittedInQuota
  <1>1. IsFiniteSet(ActiveRuns) /\ ActiveRuns \subseteq Runs
    BY RunsAssumption, FS_Subset DEF ActiveRuns
  <1>2. Cardinality(ActiveRuns) \in Nat
    BY <1>1, FS_CardinalityType
  <1>3. ASSUME NEW r \in Runs, Submit(r), QuotaExhausted PROVE ActiveRuns' \subseteq ActiveRuns
    BY <1>3 DEF Submit, ActiveRuns, Active, TypeOK, RowTypes
  <1>4. ASSUME NEW r \in Runs, Submit(r), ~QuotaExhausted
        PROVE  Cardinality(ActiveRuns') <= MaxConcurrentRuns
    <2>1. ActiveRuns' = ActiveRuns \union {r} /\ r \notin ActiveRuns
      BY <1>4 DEF Submit, ActiveRuns, Active, TypeOK, RowTypes, JobsMatchRows
    <2>2. Cardinality(ActiveRuns') = Cardinality(ActiveRuns) + 1
      BY <1>1, <2>1, FS_AddElement
    <2>3. Cardinality(ActiveRuns) < MaxConcurrentRuns
      BY <1>2, <1>4, NumberAssumption DEF QuotaExhausted
    <2> QED
      BY <1>2, <2>2, <2>3, NumberAssumption
  <1>5. ASSUME ActiveRuns' \subseteq ActiveRuns
        PROVE  Cardinality(ActiveRuns') <= MaxConcurrentRuns
    <2>1. Cardinality(ActiveRuns') <= Cardinality(ActiveRuns) /\ Cardinality(ActiveRuns') \in Nat
      BY <1>1, <1>5, FS_Subset, FS_CardinalityType
    <2> QED
      BY <1>2, <2>1, NumberAssumption DEF AdmittedInQuota
  <1> QED
    BY <1>3, <1>4, <1>5, OnlySubmitAdmits

-----------------------------------------------------------------------------
(* Stop requests.                                                          *)

LEMMA BindingKept == TypeOK /\ BindingIsLive /\ [Next]_vars => BindingIsLive'
  <1> SUFFICES ASSUME TypeOK /\ BindingIsLive, [Next]_vars PROVE BindingIsLive'
    OBVIOUS
  <1> USE SessionAssumption, NoneAssumption DEF TypeOK, JobTypes, TableTypes, BindingIsLive, Bound, Coding, tables, job
  <1>1. ASSUME NEW r \in Runs, Submit(r) PROVE BindingIsLive'
    BY <1>1 DEF Submit, GoTo, QuotaExhausted
  <1>2. ASSUME NEW r \in Runs, Enqueue(r) PROVE BindingIsLive'
    BY <1>2 DEF Enqueue, GoTo
  <1>3. ASSUME NEW r \in Runs, Take(r) PROVE BindingIsLive'
    BY <1>3 DEF Take, GoTo, Fails
  <1>4. ASSUME NEW r \in Runs, Prepare(r) PROVE BindingIsLive'
    BY <1>4 DEF Prepare, GoTo, Fails
  <1>5. ASSUME NEW r \in Runs, StartRunner(r) PROVE BindingIsLive'
    BY <1>5 DEF StartRunner, GoTo, Fails
  <1>6. ASSUME NEW r \in Runs, Sync(r) PROVE BindingIsLive'
    BY <1>6 DEF Sync, GoTo
  <1>7. ASSUME NEW r \in Runs, Preflight(r) PROVE BindingIsLive'
    BY <1>7 DEF Preflight, GoTo, Fails
  <1>8. ASSUME NEW r \in Runs, Begin(r) PROVE BindingIsLive'
    BY <1>8 DEF Begin, GoTo, Fails, Yields, KillSandbox, Terminate
  <1>9. ASSUME NEW r \in Runs, CodingEnds(r) PROVE BindingIsLive'
    BY <1>9 DEF CodingEnds, GoTo, Yields, KillSandbox
  <1>10. ASSUME NEW r \in Runs, Authorize(r) PROVE BindingIsLive'
    BY <1>10 DEF Authorize, GoTo, Yields, BaselineDrifted, IntegrityError, Differs
  <1>11. ASSUME NEW r \in Runs, Verify(r) PROVE BindingIsLive'
    BY <1>11 DEF Verify, GoTo, Yields, Intact, IntegrityError
  <1>12. ASSUME NEW r \in Runs, Tests(r) PROVE BindingIsLive'
    BY <1>12 DEF Tests, GoTo, Yields, Passes, Retries, GivesUp, Intact, IntegrityError,
       KillSandbox, Terminate
  <1>13. ASSUME NEW r \in Runs, Decide(r) PROVE BindingIsLive'
    BY <1>13 DEF Decide, GoTo
  <1>14. ASSUME NEW r \in Runs, Revoke(r) PROVE BindingIsLive'
    BY <1>14 DEF Revoke, GoTo
  <1>15. ASSUME NEW r \in Runs, Hooks(r) PROVE BindingIsLive'
    BY <1>15 DEF Hooks, GoTo
  <1>16. ASSUME NEW r \in Runs, End(r) PROVE BindingIsLive'
    BY <1>16 DEF End, GoTo, Terminate, Forget
  <1>17. ASSUME NEW s \in Sessions, StopChat(s) PROVE BindingIsLive'
    BY <1>17 DEF StopChat, Terminate
  <1>18. ASSUME Crash PROVE BindingIsLive'
    BY <1>18 DEF Crash, Forget
  <1>19. ASSUME UNCHANGED <<pc, chatRun, reason>> PROVE BindingIsLive'
    BY <1>19
  <1> QED
    BY <1>1, <1>2, <1>3, <1>4, <1>5, <1>6, <1>7, <1>8, <1>9, <1>10, <1>11, <1>12, <1>13,
       <1>14, <1>15, <1>16, <1>17, <1>18, <1>19 DEF Next, JobStep, vars, rows, job, tables,
       disk, past, Write, Janitor, Due, OrphanWrites, Restart, Administer

LEMMA StopKept == TypeOK /\ BindingIsLive /\ StopIsRemembered /\ [Next]_vars => StopIsRemembered'
  <1> SUFFICES ASSUME TypeOK /\ BindingIsLive /\ StopIsRemembered, [Next]_vars PROVE StopIsRemembered'
    OBVIOUS
  <1> USE SessionAssumption, NoneAssumption DEF TypeOK, RowTypes, JobTypes, TableTypes, PastTypes, BindingIsLive, StopIsRemembered, Bound, Coding, Ended, rows, job, tables, past
  <1>1. ASSUME NEW r \in Runs, Submit(r) PROVE StopIsRemembered'
    BY <1>1 DEF Submit, GoTo, QuotaExhausted
  <1>2. ASSUME NEW r \in Runs, Enqueue(r) PROVE StopIsRemembered'
    BY <1>2 DEF Enqueue, GoTo
  <1>3. ASSUME NEW r \in Runs, Take(r) PROVE StopIsRemembered'
    BY <1>3 DEF Take, GoTo, Fails
  <1>4. ASSUME NEW r \in Runs, Prepare(r) PROVE StopIsRemembered'
    BY <1>4 DEF Prepare, GoTo, Fails
  <1>5. ASSUME NEW r \in Runs, StartRunner(r) PROVE StopIsRemembered'
    BY <1>5 DEF StartRunner, GoTo, Fails
  <1>6. ASSUME NEW r \in Runs, Sync(r) PROVE StopIsRemembered'
    BY <1>6 DEF Sync, GoTo
  <1>7. ASSUME NEW r \in Runs, Preflight(r) PROVE StopIsRemembered'
    BY <1>7 DEF Preflight, GoTo, Fails
  <1>8. ASSUME NEW r \in Runs, Begin(r) PROVE StopIsRemembered'
    BY <1>8 DEF Begin, GoTo, Fails, Yields, KillSandbox, Terminate
  <1>9. ASSUME NEW r \in Runs, CodingEnds(r) PROVE StopIsRemembered'
    BY <1>9 DEF CodingEnds, GoTo, Yields, KillSandbox
  <1>10. ASSUME NEW r \in Runs, Authorize(r) PROVE StopIsRemembered'
    BY <1>10 DEF Authorize, GoTo, Yields, BaselineDrifted, IntegrityError, Differs
  <1>11. ASSUME NEW r \in Runs, Verify(r) PROVE StopIsRemembered'
    BY <1>11 DEF Verify, GoTo, Yields, Intact, IntegrityError
  <1>12. ASSUME NEW r \in Runs, Tests(r) PROVE StopIsRemembered'
    BY <1>12 DEF Tests, GoTo, Yields, Passes, Retries, GivesUp, Intact, IntegrityError,
       KillSandbox, Terminate
  <1>13. ASSUME NEW r \in Runs, Decide(r) PROVE StopIsRemembered'
    BY <1>13 DEF Decide, GoTo
  <1>14. ASSUME NEW r \in Runs, Revoke(r) PROVE StopIsRemembered'
    BY <1>14 DEF Revoke, GoTo
  <1>15. ASSUME NEW r \in Runs, Hooks(r) PROVE StopIsRemembered'
    BY <1>15 DEF Hooks, GoTo
  <1>16. ASSUME NEW r \in Runs, End(r) PROVE StopIsRemembered'
    BY <1>16 DEF End, GoTo, Terminate, Forget
  <1>17. ASSUME NEW r \in Runs, Janitor(r) PROVE StopIsRemembered'
    BY <1>17 DEF Janitor, NeedsCleanup, AfterCleanup
  <1>18. ASSUME NEW r \in Runs, Due(r) PROVE StopIsRemembered'
    BY <1>18 DEF Due
  <1>19. ASSUME NEW s \in Sessions, StopChat(s) PROVE StopIsRemembered'
    BY <1>19 DEF StopChat, Terminate
  <1>20. ASSUME Crash PROVE StopIsRemembered'
    <2>1. \A r \in Runs : /\ pc'[r] = IF pc[r] \in Stages THEN "lost" ELSE pc[r]
                          /\ stopped'[r] = stopped[r] /\ status'[r] = status[r]
      BY <1>20 DEF Crash
    <2>2. \A r \in Runs : pc'[r] \in {"new", "done", "lost"} /\ (pc'[r] = "done" => pc[r] = "done")
      BY <2>1 DEF Stages, Idle
    <2>3. \A r \in Runs : stopped[r] => pc'[r] # "new"
      BY <2>1 DEF Stages, Idle
    <2> QED
      BY <2>1, <2>2, <2>3
  <1>21. ASSUME Restart PROVE StopIsRemembered'
    BY <1>21 DEF Restart, AfterCleanup
  <1>22. ASSUME UNCHANGED <<pc, status, outcome, raised, reason, stopped>> PROVE StopIsRemembered'
    BY <1>22
  <1> QED
    BY <1>1, <1>2, <1>3, <1>4, <1>5, <1>6, <1>7, <1>8, <1>9, <1>10, <1>11, <1>12, <1>13,
       <1>14, <1>15, <1>16, <1>17, <1>18, <1>19, <1>20, <1>21, <1>22 DEF Next, JobStep, vars,
       rows, job, tables, disk, past, Write, OrphanWrites, Administer

-----------------------------------------------------------------------------
(* Verdicts and patches.                                                   *)

LEMMA CommittedKept == TypeOK /\ PatchIsCommitted /\ [Next]_vars => PatchIsCommitted'
  <1> SUFFICES ASSUME TypeOK /\ PatchIsCommitted, [Next]_vars PROVE PatchIsCommitted'
    OBVIOUS
  <1> USE DEF TypeOK, RowTypes, JobTypes, TableTypes, PatchIsCommitted, Ended, rows, job
  <1>1. ASSUME NEW r \in Runs, Submit(r) PROVE PatchIsCommitted'
    BY <1>1 DEF Submit, GoTo, QuotaExhausted
  <1>2. ASSUME NEW r \in Runs, Enqueue(r) PROVE PatchIsCommitted'
    BY <1>2 DEF Enqueue, GoTo
  <1>3. ASSUME NEW r \in Runs, Take(r) PROVE PatchIsCommitted'
    BY <1>3 DEF Take, GoTo, Fails
  <1>4. ASSUME NEW r \in Runs, Prepare(r) PROVE PatchIsCommitted'
    BY <1>4 DEF Prepare, GoTo, Fails
  <1>5. ASSUME NEW r \in Runs, StartRunner(r) PROVE PatchIsCommitted'
    BY <1>5 DEF StartRunner, GoTo, Fails
  <1>6. ASSUME NEW r \in Runs, Sync(r) PROVE PatchIsCommitted'
    BY <1>6 DEF Sync, GoTo
  <1>7. ASSUME NEW r \in Runs, Preflight(r) PROVE PatchIsCommitted'
    BY <1>7 DEF Preflight, GoTo, Fails
  <1>8. ASSUME NEW r \in Runs, Begin(r) PROVE PatchIsCommitted'
    BY <1>8 DEF Begin, GoTo, Fails, Yields, KillSandbox, Terminate
  <1>9. ASSUME NEW r \in Runs, CodingEnds(r) PROVE PatchIsCommitted'
    BY <1>9 DEF CodingEnds, GoTo, Yields, KillSandbox
  <1>10. ASSUME NEW r \in Runs, Authorize(r) PROVE PatchIsCommitted'
    BY <1>10 DEF Authorize, GoTo, Yields, BaselineDrifted, IntegrityError, Differs
  <1>11. ASSUME NEW r \in Runs, Verify(r) PROVE PatchIsCommitted'
    BY <1>11 DEF Verify, GoTo, Yields, Intact, IntegrityError
  <1>12. ASSUME NEW r \in Runs, Tests(r) PROVE PatchIsCommitted'
    BY <1>12 DEF Tests, GoTo, Yields, Passes, Retries, GivesUp, Intact, IntegrityError,
       KillSandbox, Terminate
  <1>13. ASSUME NEW r \in Runs, Decide(r) PROVE PatchIsCommitted'
    BY <1>13 DEF Decide, GoTo
  <1>14. ASSUME NEW r \in Runs, Revoke(r) PROVE PatchIsCommitted'
    BY <1>14 DEF Revoke, GoTo
  <1>15. ASSUME NEW r \in Runs, Hooks(r) PROVE PatchIsCommitted'
    BY <1>15 DEF Hooks, GoTo
  <1>16. ASSUME NEW r \in Runs, End(r) PROVE PatchIsCommitted'
    BY <1>16 DEF End, GoTo, Terminate, Forget
  <1>17. ASSUME NEW r \in Runs, Janitor(r) PROVE PatchIsCommitted'
    BY <1>17 DEF Janitor, NeedsCleanup, AfterCleanup
  <1>18. ASSUME NEW r \in Runs, Due(r) PROVE PatchIsCommitted'
    BY <1>18 DEF Due
  <1>19. ASSUME Crash PROVE PatchIsCommitted'
    BY <1>19 DEF Crash, Forget
  <1>20. ASSUME Restart PROVE PatchIsCommitted'
    BY <1>20 DEF Restart, Active
  <1>21. ASSUME UNCHANGED <<pc, status, outcome>> PROVE PatchIsCommitted'
    BY <1>21
  <1> QED
    BY <1>1, <1>2, <1>3, <1>4, <1>5, <1>6, <1>7, <1>8, <1>9, <1>10, <1>11, <1>12, <1>13,
       <1>14, <1>15, <1>16, <1>17, <1>18, <1>19, <1>20, <1>21 DEF Next, JobStep, vars, rows,
       job, tables, disk, past, Write, OrphanWrites, StopChat, Administer

(* One step of VerdictStands. *)
VerdictKept ==
    \A r \in Runs : status[r] \in Ended =>
        /\ status'[r] \in Ended
        /\ pc[r] \in Idle => status'[r] = status[r]

LEMMA StepKeepsVerdicts == TypeOK /\ JobsMatchRows /\ [Next]_vars => VerdictKept
  <1> SUFFICES ASSUME TypeOK /\ JobsMatchRows, [Next]_vars PROVE VerdictKept
    OBVIOUS
  <1> USE DEF TypeOK, RowTypes, JobTypes, JobsMatchRows, VerdictKept, Active, Ended, Starting, Coding, Idle
  <1>1. ASSUME NEW r \in Runs, Submit(r) PROVE VerdictKept
    BY <1>1 DEF Submit, GoTo, QuotaExhausted
  <1>2. ASSUME NEW r \in Runs, Take(r) PROVE VerdictKept
    BY <1>2 DEF Take, GoTo, Fails
  <1>3. ASSUME NEW r \in Runs, StartRunner(r) PROVE VerdictKept
    BY <1>3 DEF StartRunner, GoTo, Fails
  <1>4. ASSUME NEW r \in Runs, Sync(r) PROVE VerdictKept
    BY <1>4 DEF Sync, GoTo
  <1>5. ASSUME NEW r \in Runs, Preflight(r) PROVE VerdictKept
    BY <1>5 DEF Preflight, GoTo, Fails
  <1>6. ASSUME NEW r \in Runs, Begin(r) PROVE VerdictKept
    BY <1>6 DEF Begin, GoTo, Fails, Yields, KillSandbox, Terminate
  <1>7. ASSUME NEW r \in Runs, Authorize(r) PROVE VerdictKept
    BY <1>7 DEF Authorize, GoTo, Yields, BaselineDrifted, IntegrityError, Differs
  <1>8. ASSUME NEW r \in Runs, Verify(r) PROVE VerdictKept
    BY <1>8 DEF Verify, GoTo, Yields, Intact, IntegrityError
  <1>9. ASSUME NEW r \in Runs, Tests(r) PROVE VerdictKept
    BY <1>9 DEF Tests, GoTo, Yields, Passes, Retries, GivesUp, Intact, IntegrityError,
       KillSandbox, Terminate
  <1>10. ASSUME NEW r \in Runs, Revoke(r) PROVE VerdictKept
    BY <1>10 DEF Revoke, GoTo
  <1>11. ASSUME NEW r \in Runs, Hooks(r) PROVE VerdictKept
    BY <1>11 DEF Hooks, GoTo
  <1>12. ASSUME NEW r \in Runs, Janitor(r) PROVE VerdictKept
    BY <1>12 DEF Janitor, NeedsCleanup, AfterCleanup
  <1>13. ASSUME NEW r \in Runs, Due(r) PROVE VerdictKept
    BY <1>13 DEF Due
  <1>14. ASSUME Restart PROVE VerdictKept
    BY <1>14 DEF Restart, AfterCleanup
  <1>15. ASSUME UNCHANGED status PROVE VerdictKept
    BY <1>15
  <1> QED
    BY <1>1, <1>2, <1>3, <1>4, <1>5, <1>6, <1>7, <1>8, <1>9, <1>10, <1>11, <1>12, <1>13,
       <1>14, <1>15 DEF Next, JobStep, vars, rows, job, tables, disk, past, Enqueue, Prepare,
       CodingEnds, Decide, End, Write, OrphanWrites, StopChat, Crash, Administer

LEMMA OneAtWork ==
    ASSUME MaxConcurrentRuns = 1, QuotaBoundsJobs,
           NEW q \in Runs, NEW r \in Runs, pc[q] \in Working, pc[r] \in Working
    PROVE  q = r
  <1> DEFINE W == {x \in Runs : pc[x] \in Working}
  <1>1. IsFiniteSet(W) /\ Cardinality(W) \in Nat
    BY RunsAssumption, FS_Subset, FS_CardinalityType
  <1>2. SUFFICES ASSUME q # r PROVE FALSE
    OBVIOUS
  <1>3. IsFiniteSet({q}) /\ Cardinality({q}) = 1
    BY FS_Singleton
  <1>4. Cardinality({q} \union {r}) = 2
    BY <1>2, <1>3, FS_AddElement
  <1>5. Cardinality({q} \union {r}) <= Cardinality(W)
    BY <1>1, FS_Subset, {q} \union {r} \subseteq W
  <1> QED
    BY <1>1, <1>4, <1>5 DEF QuotaBoundsJobs

LEMMA EditsKept == TypeOK /\ EditsAreThere /\ QuotaBoundsJobs /\ MaxConcurrentRuns = 1 /\ [Next]_vars => EditsAreThere'
  <1> SUFFICES ASSUME TypeOK /\ EditsAreThere /\ QuotaBoundsJobs /\ MaxConcurrentRuns = 1, [Next]_vars PROVE EditsAreThere'
    OBVIOUS
  <1> USE DEF TypeOK, JobTypes, DiskTypes, PastTypes, EditsAreThere, Starting, Coding, Stages, Idle, job, disk, past
  <1>1. ASSUME NEW r \in Runs, Submit(r) PROVE EditsAreThere'
    BY <1>1 DEF Submit, GoTo, QuotaExhausted
  <1>2. ASSUME NEW r \in Runs, Enqueue(r) PROVE EditsAreThere'
    BY <1>2 DEF Enqueue, GoTo
  <1>3. ASSUME NEW r \in Runs, Take(r) PROVE EditsAreThere'
    BY <1>3 DEF Take, GoTo, Fails
  <1>4. ASSUME NEW r \in Runs, Prepare(r) PROVE EditsAreThere'
    <2>1. \A q \in Runs : q # r => pc[q] \notin Coding
      BY <1>4, OneAtWork DEF Prepare, Working
    <2> QED
      BY <1>4, <2>1 DEF Prepare, GoTo, Fails
  <1>5. ASSUME NEW r \in Runs, StartRunner(r) PROVE EditsAreThere'
    BY <1>5 DEF StartRunner, GoTo, Fails
  <1>6. ASSUME NEW r \in Runs, Sync(r) PROVE EditsAreThere'
    <2>1. \A q \in Runs : q # r => pc[q] \notin Coding
      BY <1>6, OneAtWork DEF Sync, Working
    <2> QED
      BY <1>6, <2>1 DEF Sync, GoTo
  <1>7. ASSUME NEW r \in Runs, Preflight(r) PROVE EditsAreThere'
    BY <1>7 DEF Preflight, GoTo, Fails
  <1>8. ASSUME NEW r \in Runs, Begin(r) PROVE EditsAreThere'
    <2>1. \A q \in Runs : q # r => pc[q] \notin Coding
      BY <1>8, OneAtWork DEF Begin, Working
    <2> QED
      BY <1>8, <2>1 DEF Begin, GoTo, Fails, Yields, KillSandbox, Terminate
  <1>9. ASSUME NEW r \in Runs, CodingEnds(r) PROVE EditsAreThere'
    BY <1>9 DEF CodingEnds, GoTo, Yields, KillSandbox
  <1>10. ASSUME NEW r \in Runs, Authorize(r) PROVE EditsAreThere'
    BY <1>10 DEF Authorize, GoTo, Yields, BaselineDrifted, IntegrityError, Differs
  <1>11. ASSUME NEW r \in Runs, Verify(r) PROVE EditsAreThere'
    BY <1>11 DEF Verify, GoTo, Yields, Intact, IntegrityError
  <1>12. ASSUME NEW r \in Runs, Tests(r) PROVE EditsAreThere'
    BY <1>12 DEF Tests, GoTo, Yields, Passes, Retries, GivesUp, Intact, IntegrityError,
       KillSandbox, Terminate
  <1>13. ASSUME NEW r \in Runs, Decide(r) PROVE EditsAreThere'
    BY <1>13 DEF Decide, GoTo
  <1>14. ASSUME NEW r \in Runs, Revoke(r) PROVE EditsAreThere'
    BY <1>14 DEF Revoke, GoTo
  <1>15. ASSUME NEW r \in Runs, Hooks(r) PROVE EditsAreThere'
    BY <1>15 DEF Hooks, GoTo
  <1>16. ASSUME NEW r \in Runs, End(r) PROVE EditsAreThere'
    BY <1>16 DEF End, GoTo, Terminate, Forget
  <1>17. ASSUME NEW r \in Runs, Write(r) PROVE EditsAreThere'
    BY <1>17 DEF Write
  <1>18. ASSUME NEW r \in Runs, OrphanWrites(r) PROVE EditsAreThere'
    BY <1>18 DEF OrphanWrites
  <1>19. ASSUME Crash PROVE EditsAreThere'
    BY <1>19 DEF Crash, Forget
  <1>20. ASSUME UNCHANGED <<pc, wrote, content, baseFile, orphans>> PROVE EditsAreThere'
    BY <1>20
  <1> QED
    BY <1>1, <1>2, <1>3, <1>4, <1>5, <1>6, <1>7, <1>8, <1>9, <1>10, <1>11, <1>12, <1>13,
       <1>14, <1>15, <1>16, <1>17, <1>18, <1>19, <1>20 DEF Next, JobStep, vars, rows, job,
       tables, disk, past, Janitor, Due, StopChat, Restart, Administer

(* One step of PatchHasItsEdits. *)
PatchIsWritten ==
    \A r \in Runs :
        status[r] # "patch_ready" /\ status'[r] = "patch_ready" /\ wrote[r] =>
            r \in Differs(baseFile', content')

LEMMA StepDeliversEdits == TypeOK /\ EditsAreThere /\ PatchIsCommitted /\ [Next]_vars => PatchIsWritten
  <1> SUFFICES ASSUME TypeOK /\ EditsAreThere /\ PatchIsCommitted, [Next]_vars PROVE PatchIsWritten
    OBVIOUS
  <1> USE DEF TypeOK, RowTypes, JobTypes, EditsAreThere, PatchIsCommitted, PatchIsWritten, Active, Ended, Coding
  <1>1. ASSUME NEW r \in Runs, Submit(r) PROVE PatchIsWritten
    BY <1>1 DEF Submit, GoTo, QuotaExhausted
  <1>2. ASSUME NEW r \in Runs, Take(r) PROVE PatchIsWritten
    BY <1>2 DEF Take, GoTo, Fails
  <1>3. ASSUME NEW r \in Runs, StartRunner(r) PROVE PatchIsWritten
    BY <1>3 DEF StartRunner, GoTo, Fails
  <1>4. ASSUME NEW r \in Runs, Sync(r) PROVE PatchIsWritten
    BY <1>4 DEF Sync, GoTo
  <1>5. ASSUME NEW r \in Runs, Preflight(r) PROVE PatchIsWritten
    BY <1>5 DEF Preflight, GoTo, Fails
  <1>6. ASSUME NEW r \in Runs, Begin(r) PROVE PatchIsWritten
    BY <1>6 DEF Begin, GoTo, Fails, Yields, KillSandbox, Terminate
  <1>7. ASSUME NEW r \in Runs, Authorize(r) PROVE PatchIsWritten
    BY <1>7 DEF Authorize, GoTo, Yields, BaselineDrifted, IntegrityError, Differs
  <1>8. ASSUME NEW r \in Runs, Verify(r) PROVE PatchIsWritten
    BY <1>8 DEF Verify, GoTo, Yields, Intact, IntegrityError
  <1>9. ASSUME NEW r \in Runs, Tests(r) PROVE PatchIsWritten
    BY <1>9 DEF Tests, GoTo, Passes, Retries, GivesUp, IntegrityError, disk, Differs
  <1>10. ASSUME NEW r \in Runs, Revoke(r) PROVE PatchIsWritten
    BY <1>10 DEF Revoke, GoTo
  <1>11. ASSUME NEW r \in Runs, Hooks(r) PROVE PatchIsWritten
    BY <1>11 DEF Hooks, GoTo
  <1>12. ASSUME NEW r \in Runs, Janitor(r) PROVE PatchIsWritten
    BY <1>12 DEF Janitor, NeedsCleanup, AfterCleanup
  <1>13. ASSUME NEW r \in Runs, Due(r) PROVE PatchIsWritten
    BY <1>13 DEF Due
  <1>14. ASSUME Restart PROVE PatchIsWritten
    BY <1>14 DEF Restart, AfterCleanup
  <1>15. ASSUME UNCHANGED status PROVE PatchIsWritten
    BY <1>15
  <1> QED
    BY <1>1, <1>2, <1>3, <1>4, <1>5, <1>6, <1>7, <1>8, <1>9, <1>10, <1>11, <1>12, <1>13,
       <1>14, <1>15 DEF Next, JobStep, vars, rows, job, tables, disk, past, Enqueue, Prepare,
       CodingEnds, Decide, End, Write, OrphanWrites, StopChat, Crash, Administer

-----------------------------------------------------------------------------
(* Theorems.                                                               *)

Inv == /\ TypeOK /\ JobsMatchRows /\ DownIsIdle /\ AdmittedInQuota
       /\ BindingIsLive /\ StopIsRemembered /\ PatchIsCommitted

LEMMA InitInv == Init => Inv
  <1> SUFFICES ASSUME Init PROVE Inv
    OBVIOUS
  <1>1. JobsMatchRows /\ DownIsIdle
    BY DEF Init, JobsMatchRows, DownIsIdle, Starting, Coding
  <1>2. AdmittedInQuota
    <2>1. ActiveRuns = {}
      BY DEF Init, ActiveRuns, Active
    <2> QED
      BY <2>1, FS_EmptySet, NumberAssumption DEF AdmittedInQuota
  <1>3. BindingIsLive /\ StopIsRemembered /\ PatchIsCommitted
    BY DEF Init, BindingIsLive, StopIsRemembered, PatchIsCommitted
  <1> QED
    BY <1>1, <1>2, <1>3, InitTypes DEF Inv

LEMMA NextInv == Inv /\ [Next]_vars => Inv'
  BY NextTypes, JobsMatchRowsKept, DownIsIdleKept, QuotaKept, BindingKept, StopKept,
     CommittedKept DEF Inv

LEMMA Invariance == Spec => []Inv
  BY InitInv, NextInv, PTL DEF Spec

(* The columns, the jobs and the control files stay in range. *)
THEOREM CodeRunTypes == Spec => []TypeOK
  <1>1. Inv => TypeOK
    BY DEF Inv
  <1> QED
    BY <1>1, Invariance, PTL

LEMMA QuotaOfJobs == Inv => QuotaBoundsJobs
  <1> SUFFICES ASSUME Inv PROVE QuotaBoundsJobs
    OBVIOUS
  <1> DEFINE W == {r \in Runs : pc[r] \in Working}
  <1>1. IsFiniteSet(ActiveRuns)
    BY RunsAssumption, FS_Subset DEF ActiveRuns
  <1>2. W \subseteq ActiveRuns
    BY DEF Inv, JobsMatchRows, ActiveRuns, Active, Working, Coding, Starting
  <1>3. Cardinality(W) <= Cardinality(ActiveRuns) /\ Cardinality(W) \in Nat
    BY <1>1, <1>2, FS_Subset, FS_CardinalityType
  <1>4. Cardinality(ActiveRuns) \in Nat
    BY <1>1, FS_CardinalityType
  <1> QED
    BY <1>3, <1>4, NumberAssumption DEF Inv, AdmittedInQuota, QuotaBoundsJobs

(* The count of rows at admission bounds the jobs at work in the Sandbox. *)
THEOREM JobsAreInQuota == Spec => []QuotaBoundsJobs
  BY QuotaOfJobs, Invariance, PTL

(* A session is bound, and a reason kept, only while its run is alive. *)
THEOREM BindingsAreLive == Spec => []BindingIsLive
  <1>1. Inv => BindingIsLive
    BY DEF Inv
  <1> QED
    BY <1>1, Invariance, PTL

(* A stop request that found its run keeps it from ending as a patch. *)
THEOREM StopsAreHonoured == Spec => []StoppedIsNotDelivered
  <1>1. Inv => StoppedIsNotDelivered
    BY DEF Inv, StopIsRemembered, StoppedIsNotDelivered
  <1> QED
    BY <1>1, Invariance, PTL

(* Clean-up, janitor and recovery leave the verdicts of runs that are over. *)
THEOREM VerdictsStand == Spec => VerdictStands
  <1>1. Inv /\ [Next]_vars => [VerdictKept]_vars
    BY StepKeepsVerdicts DEF Inv
  <1> QED
    BY <1>1, Invariance, PTL DEF Spec, VerdictStands, VerdictKept

(* With a budget of one run at a time a patch contains what its run wrote. *)
THEOREM PatchesHaveTheirEdits == MaxConcurrentRuns = 1 /\ Spec => PatchHasItsEdits
  <1> SUFFICES ASSUME MaxConcurrentRuns = 1 PROVE Spec => PatchHasItsEdits
    OBVIOUS
  <1>1. Init => EditsAreThere
    BY DEF Init, EditsAreThere, Coding
  <1>2. Inv /\ EditsAreThere /\ [Next]_vars => EditsAreThere'
    BY EditsKept, QuotaOfJobs DEF Inv
  <1>3. Inv /\ EditsAreThere /\ [Next]_vars => [PatchIsWritten]_vars
    BY StepDeliversEdits DEF Inv
  <1> QED
    BY <1>1, <1>2, <1>3, Invariance, PTL DEF Spec, PatchHasItsEdits, PatchIsWritten
=============================================================================
