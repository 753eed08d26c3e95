-------------------------- MODULE OccurrenceScheduler --------------------------
(***************************************************************************)
(* How schedules become rows of scheduled_task_runs.                       *)
(*                                                                         *)
(* A scheduler process polls (scheduler.py, create_due_runs): one pass, one *)
(* transaction, reads the tasks that are due, and for each of them records  *)
(* the windows that were missed, then either queues a run for the latest    *)
(* one or notes that it was coalesced with what the session still has to do. *)
(* Meanwhile users create, change, stop and delete tasks, executors work the *)
(* rows off, and any process of the system that starts recomputes the next  *)
(* time of every task (startup.py).                                         *)
(*                                                                         *)
(* Transactions are READ COMMITTED: what a pass wrote is seen by others     *)
(* after its commit, except that an insert of the same (task, key) waits    *)
(* for it.  Row locks on scheduled_tasks, which only delay a user's write   *)
(* until that commit, are left out.                                        *)
(***************************************************************************)
EXTENDS Integers, FiniteSets, FiniteSetsExt

CONSTANTS
    Tasks,
    Sessions,
    SessionOf,      \* the chat session of each task
    Schedulers,     \* scheduler processes
    Plans,          \* the schedules users give to each task
    Editable,       \* tasks that users update
    ScanLimit,      \* MAX_CRON_MISSED_SCAN        1000
    MaxPerSession,  \* MAX_ENABLED_PER_SESSION       20
    Never,          \* next_run_at = None
    Horizon,        \* bounds of the model: the clock,
    Stride,         \*   how far it moves at once,
    Limit           \*   crashes of schedulers, starts of other processes
                    \*   and requests of users, other than creating a task

ASSUME SchedulesAssumption ==
    /\ SessionOf \in [Tasks -> Sessions]
    /\ Never \notin Nat
    /\ \A t \in Tasks : \A s \in Plans[t] :
          /\ s.kind \in {"once", "interval", "cron"}
          /\ s.hits \subseteq Nat /\ IsFiniteSet(s.hits)
          /\ s.kind = "interval" => s.every \in Nat \ {0}
    /\ Limit \in [{"crash", "boot", "request"} -> Nat]

ASSUME BoundsAssumption ==
    /\ ScanLimit \in Nat
    /\ Horizon \in Nat /\ Stride \in Nat

VARIABLES
    clock,
    sched,     \* ScheduledTask.schedule_type, cron, interval_seconds, run_at
    next,      \* .next_run_at
    created,   \* tasks whose row exists,
    enabled,   \* is .enabled,
    deleted,   \* has .deleted_at
    closed,    \* chat sessions that were deleted
    first,     \* history: the first next_run_at of each task
    rows,      \* scheduled_task_runs: state by [task, source, at, count]
    pc,        \* what each scheduler process is doing
    now,       \* the time its pass took when it began
    seen,      \* the due tasks as its query returned them
    todo,      \* those it has not come to
    cur,       \* the one it is handling
    draft,     \* the rows it inserted and has not committed
    spent      \* how much of each Limit is used up

taskVars == <<sched, next, created, enabled, deleted, closed, first>>
passVars == <<pc, now, seen, todo, cur, draft>>
vars     == <<clock, taskVars, rows, passVars, spent>>

Spend(what) == /\ spent[what] < Limit[what]
               /\ spent' = [spent EXCEPT ![what] = @ + 1]

Automatic == {"scheduled", "catch_up"}
Active    == {"pending", "running"}
InSession(s) == {t \in Tasks : SessionOf[t] = s}
Live(t) == t \in enabled \ deleted
RowsOf(t) == {k \in DOMAIN rows : k.task = t}

TypeOK ==
    /\ clock \in 0 .. Horizon
    /\ \A t \in created : sched[t] \in Plans[t]
    /\ next \in [Tasks -> Nat \cup {Never}]
    /\ first \in [Tasks -> Nat \cup {Never}]
    /\ created \subseteq Tasks
    /\ enabled \subseteq created /\ deleted \subseteq created
    /\ closed \subseteq Sessions
    /\ \A k \in DOMAIN rows :
          /\ k.task \in created /\ k.at \in Nat /\ k.count \in Nat
          /\ k.source \in Automatic \cup {"manual", "missed", "coalesced"}
          /\ rows[k] \in Active \cup {"ended", "skipped"}
          /\ rows[k] = "skipped" <=> k.source \in {"missed", "coalesced"}
    /\ pc \in [Schedulers -> {"down", "idle", "pick", "missed", "overlap",
                              "coalesced", "scheduled", "catch_up"}]
    /\ now \in [Schedulers -> 0 .. Horizon]
    /\ \A p \in Schedulers : /\ todo[p] \subseteq DOMAIN seen[p]
                             /\ pc[p] = "idle" => draft[p] = {}
    /\ \A what \in DOMAIN Limit : spent[what] \in 0 .. Limit[what]

NoTasks == [t \in {} |-> Never]

Init ==
    /\ clock = 0
    /\ sched = [t \in Tasks |-> CHOOSE s \in Plans[t] : TRUE]
    /\ next = [t \in Tasks |-> Never]
    /\ first = next
    /\ created = {} /\ enabled = {} /\ deleted = {} /\ closed = {}
    /\ rows = [k \in {} |-> "none"]
    /\ pc = [p \in Schedulers |-> "idle"]
    /\ now = [p \in Schedulers |-> 0]
    /\ seen = [p \in Schedulers |-> NoTasks]
    /\ todo = [p \in Schedulers |-> {}]
    /\ cur = [p \in Schedulers |-> Never]
    /\ draft = [p \in Schedulers |-> {}]
    /\ spent = [what \in DOMAIN Limit |-> 0]

-----------------------------------------------------------------------------
(* Schedules.  A cron schedule is the set of times it names (hits); a one-off *)
(* one names a single time.                                                 *)

(* next_run_at: a one-off time that has come is gone, an interval starts     *)
(* from now, and cron's next time may be now itself.                        *)
NextRunAt(s, time) ==
    LET ahead == {h \in s.hits : IF s.kind = "cron" THEN h >= time ELSE h > time}
    IN  IF s.kind = "interval" THEN time + s.every
        ELSE IF ahead = {} THEN Never ELSE Min(ahead)

(* The times a scan from s finds due, first itself apart. *)
DueAfter(s, from, time) ==
    IF s.kind = "interval" THEN {h \in from + 1 .. time : (h - from) % s.every = 0}
    ELSE IF s.kind = "cron" THEN
         LET due == {h \in s.hits : from < h /\ h <= time}
         IN  {h \in due : Cardinality({g \in due : g <= h}) <= ScanLimit}
    ELSE {}

(* Mutant: one missed window too few is counted. *)
UncountedDueWindow(s, from, time) ==
    LET due == DueAfter(s, from, time)
    IN  [latest |-> Max(due \cup {from}),
         missed |-> IF due = {} THEN 0 ELSE Cardinality(due) - 1]

(* Mutant: the oldest window is caught up, not the latest. *)
OldestDueWindow(s, from, time) ==
    [latest |-> from, missed |-> Cardinality(DueAfter(s, from, time))]

(* _latest_due_window: the latest due time and how many older ones there are. *)
LatestDueWindow(s, from, time) ==
    LET due == DueAfter(s, from, time)
    IN  [latest |-> Max(due \cup {from}), missed |-> Cardinality(due)]

Window(p, t) == LatestDueWindow(seen[p][t].sched, seen[p][t].next, now[p])

-----------------------------------------------------------------------------
(* One pass of a scheduler. *)

Due(t, time) == Live(t) /\ next[t] # Never /\ next[t] <= time

StartPass(p) ==
    /\ pc[p] = "idle"
    /\ \E t \in Tasks : Due(t, clock)
    /\ LET due == {t \in Tasks : Due(t, clock)}
       IN  /\ seen' = [seen EXCEPT ![p] =
                         [t \in due |-> [sched |-> sched[t], next |-> next[t]]]]
           /\ todo' = [todo EXCEPT ![p] = due]
    /\ now' = [now EXCEPT ![p] = clock]
    /\ pc' = [pc EXCEPT ![p] = "pick"]
    /\ UNCHANGED <<clock, taskVars, rows, cur, draft, spent>>

(* The query has no ORDER BY. *)
PickTask(p, t) ==
    /\ pc[p] = "pick"
    /\ t \in todo[p]
    /\ todo' = [todo EXCEPT ![p] = @ \ {t}]
    /\ cur' = [cur EXCEPT ![p] = t]
    /\ pc' = [pc EXCEPT ![p] = IF Window(p, t).missed > 0 THEN "missed" ELSE "overlap"]
    /\ UNCHANGED <<clock, taskVars, rows, now, seen, draft, spent>>

Row(t, src, time, n) == [task |-> t, source |-> src, at |-> time, count |-> n]

(* The row p is about to insert: its key names the source and the time. *)
NewRow(p) ==
    LET t == cur[p]
        w == Window(p, t)
    IN  IF pc[p] = "missed" THEN Row(t, "missed", seen[p][t].next, w.missed)
        ELSE Row(t, pc[p], w.latest, 0)

Inserting == {"missed", "coalesced", "scheduled", "catch_up"}

(* A unique index makes an insert wait for the transaction that holds the key. *)
WaitsFor(p, q) ==
    /\ q # p
    /\ pc[p] \in Inserting
    /\ NewRow(p) \in draft[q]

(* Mutant: an occurrence that exists is inserted again. *)
InsertAnyway(p) ==
    /\ pc[p] \in Inserting
    /\ \A q \in Schedulers : ~WaitsFor(p, q)
    /\ draft' = [draft EXCEPT ![p] = @ \cup {NewRow(p)}]
    /\ pc' = [pc EXCEPT ![p] = IF @ = "missed" THEN "overlap" ELSE "pick"]
    /\ UNCHANGED <<clock, taskVars, rows, now, seen, todo, cur, spent>>

(* _record_missed_summary, _record_overlap_skip and the insert of the run, each *)
(* in a savepoint: if the key exists, IntegrityError is swallowed.           *)
InsertRow(p) ==
    /\ pc[p] \in Inserting
    /\ \A q \in Schedulers : ~WaitsFor(p, q)
    /\ draft' = [draft EXCEPT ![p] = @ \cup ({NewRow(p)} \ DOMAIN rows)]
    /\ pc' = [pc EXCEPT ![p] = IF @ = "missed" THEN "overlap" ELSE "pick"]
    /\ UNCHANGED <<clock, taskVars, rows, now, seen, todo, cur, spent>>

(* Mutant: rows the pass itself has queued are not seen. *)
ActiveElsewhere(p, s) ==
    \E k \in DOMAIN rows : SessionOf[k.task] = s /\ rows[k] \in Active /\ p \in Schedulers

(* _has_active_overlap: committed rows of the session and the pass's own. *)
HasActiveOverlap(p, s) ==
    \/ \E k \in DOMAIN rows : SessionOf[k.task] = s /\ rows[k] \in Active
    \/ \E k \in draft[p] : SessionOf[k.task] = s /\ k.source \in Automatic

CheckOverlap(p) ==
    LET t == cur[p]
    IN  /\ pc[p] = "overlap"
        /\ pc' = [pc EXCEPT ![p] =
                    IF HasActiveOverlap(p, SessionOf[t]) THEN "coalesced"
                    ELSE IF now[p] > seen[p][t].next THEN "catch_up"
                    ELSE "scheduled"]
        /\ UNCHANGED <<clock, taskVars, rows, now, seen, todo, cur, draft, spent>>

EndPass(p, label) ==
    /\ pc' = [pc EXCEPT ![p] = label]
    /\ seen' = [seen EXCEPT ![p] = NoTasks]
    /\ todo' = [todo EXCEPT ![p] = {}]
    /\ cur' = [cur EXCEPT ![p] = Never]
    /\ draft' = [draft EXCEPT ![p] = {}]
    /\ now' = [now EXCEPT ![p] = 0]

(* Mutant: summaries of missed windows are queued like runs. *)
QueuedAsRuns(ks) == [k \in DOMAIN rows \cup ks |->
                       IF k \notin ks THEN rows[k]
                       ELSE IF k.source # "coalesced" THEN "pending" ELSE "skipped"]

(* The rows ks join the table. *)
Queued(ks) == [k \in DOMAIN rows \cup ks |->
                 IF k \notin ks THEN rows[k]
                 ELSE IF k.source \in Automatic THEN "pending" ELSE "skipped"]

(* Mutant: the next time is only moved for tasks that got a run. *)
CommitWithRun(p) ==
    /\ pc[p] = "pick" /\ todo[p] = {}
    /\ rows' = Queued(draft[p])
    /\ next' = [t \in Tasks |->
                  IF \E k \in draft[p] : k.task = t /\ k.source \in Automatic
                  THEN NextRunAt(seen[p][t].sched, now[p]) ELSE next[t]]
    /\ EndPass(p, "idle")
    /\ UNCHANGED <<clock, sched, created, enabled, deleted, closed, first, spent>>

(* The commit writes the rows and, from the schedules the pass read, the next *)
(* time of every task it handled, whatever it is by now.  (A value equal to  *)
(* the one read is not written.)                                            *)
CommitPass(p) ==
    /\ pc[p] = "pick" /\ todo[p] = {}
    /\ rows' = Queued(draft[p])
    /\ next' = [t \in Tasks |->
                  IF /\ t \in DOMAIN seen[p]
                     /\ NextRunAt(seen[p][t].sched, now[p]) # seen[p][t].next
                  THEN NextRunAt(seen[p][t].sched, now[p]) ELSE next[t]]
    /\ EndPass(p, "idle")
    /\ UNCHANGED <<clock, sched, created, enabled, deleted, closed, first, spent>>

(* Nothing in the loop catches an error: the process ends, its transaction is *)
(* rolled back.                                                             *)
Crash(p) ==
    /\ pc[p] # "down"
    /\ Spend("crash")
    /\ EndPass(p, "down")
    /\ UNCHANGED <<clock, taskVars, rows>>

(* Two passes that wait for each other: the database aborts one of them. *)
AbortDeadlocked(p, q) ==
    /\ WaitsFor(p, q) /\ WaitsFor(q, p)
    /\ EndPass(p, "down")
    /\ UNCHANGED <<clock, taskVars, rows, spent>>

(* normalize_scheduled_task_next_runs, at the end of init_db. *)
NormalizeNextRuns ==
    next' = [t \in Tasks |-> IF Live(t) THEN NextRunAt(sched[t], clock) ELSE next[t]]

(* A scheduler process starts: main() runs init_db before the loop. *)
Restart(p) ==
    /\ pc[p] = "down"
    /\ pc' = [pc EXCEPT ![p] = "idle"]
    /\ NormalizeNextRuns
    /\ UNCHANGED <<clock, sched, created, enabled, deleted, closed, first, rows,
                   now, seen, todo, cur, draft, spent>>

(* So do the API and the notification worker. *)
Boot ==
    /\ Spend("boot")
    /\ NormalizeNextRuns
    /\ UNCHANGED <<clock, sched, created, enabled, deleted, closed, first, rows,
                   passVars>>

-----------------------------------------------------------------------------
(* Requests of users.  They name a task of a session that still exists; a   *)
(* deleted task is not refused (require_session_task_manager).              *)

MayManage(t) == t \in created /\ SessionOf[t] \notin closed

(* cancel_unstarted_runs *)
CancelPending(ts) ==
    rows' = [k \in DOMAIN rows |-> IF k.task \in ts /\ rows[k] = "pending"
                                  THEN "ended" ELSE rows[k]]

EnabledIn(s) == {t \in InSession(s) : Live(t)}

CreateTask(t, s, on) ==
    /\ t \notin created /\ SessionOf[t] \notin closed
    /\ on => Cardinality(EnabledIn(SessionOf[t])) < MaxPerSession
    /\ created' = created \cup {t}
    /\ enabled' = IF on THEN enabled \cup {t} ELSE enabled
    /\ sched' = [sched EXCEPT ![t] = s]
    /\ next' = IF on THEN [next EXCEPT ![t] = NextRunAt(s, clock)] ELSE next
    /\ first' = [first EXCEPT ![t] = next'[t]]
    /\ UNCHANGED <<clock, deleted, closed, rows, passVars, spent>>

(* update_task, for an edit and for the switch. *)
UpdateTask(t, s, on) ==
    /\ Spend("request")
    /\ MayManage(t) /\ t \in Editable
    /\ sched' = [sched EXCEPT ![t] = s]
    /\ enabled' = IF on THEN enabled \cup {t} ELSE enabled \ {t}
    /\ next' = [next EXCEPT ![t] = IF on THEN NextRunAt(s, clock) ELSE Never]
    /\ CancelPending(IF on THEN {} ELSE {t})
    /\ UNCHANGED <<clock, created, deleted, closed, first, passVars>>

SoftDeleteTask(t) ==
    /\ Spend("request")
    /\ MayManage(t)
    /\ enabled' = enabled \ {t}
    /\ deleted' = deleted \cup {t}
    /\ CancelPending({t})
    /\ UNCHANGED <<clock, sched, next, created, closed, first, passVars>>

RequestStopTask(t) ==
    /\ Spend("request")
    /\ MayManage(t)
    /\ enabled' = enabled \ {t}
    /\ next' = [next EXCEPT ![t] = Never]
    /\ CancelPending({t})
    /\ UNCHANGED <<clock, sched, created, deleted, closed, first, passVars>>

(* routers/agent.py, delete_session: the tasks are deleted with the session. *)
DeleteSession(s) ==
    /\ Spend("request")
    /\ s \notin closed
    /\ closed' = closed \cup {s}
    /\ enabled' = enabled \ (InSession(s) \ deleted)
    /\ deleted' = deleted \cup (InSession(s) \cap created)
    /\ UNCHANGED <<clock, sched, next, created, first, rows, passVars>>

(* create_manual_run: the key is a fresh id, the count stands for it. *)
RunNow(t) ==
    /\ Spend("request")
    /\ MayManage(t)
    /\ LET k == Row(t, "manual", clock, spent["request"])
       IN  rows' = [j \in DOMAIN rows \cup {k} |-> IF j = k THEN "pending" ELSE rows[j]]
    /\ UNCHANGED <<clock, taskVars, passVars>>

-----------------------------------------------------------------------------
(* The rows' life outside this module: an executor claims a run, also beside  *)
(* one of its session that a lost executor left running, may put it back for *)
(* a retry, and a run may end without having started.  RunExecution shows    *)
(* that rows live like this when an execution times out before its lease.    *)

StartRun(k) ==
    /\ rows[k] = "pending"
    /\ rows' = [rows EXCEPT ![k] = "running"]
    /\ UNCHANGED <<clock, taskVars, passVars, spent>>

EndRun(k, retry) ==
    /\ rows[k] \in Active /\ (retry => rows[k] = "running")
    /\ rows' = [rows EXCEPT ![k] = IF retry THEN "pending" ELSE "ended"]
    /\ UNCHANGED <<clock, taskVars, passVars, spent>>

Tick ==
    /\ clock + Stride <= Horizon
    /\ clock' = clock + Stride
    /\ UNCHANGED <<taskVars, rows, passVars, spent>>

-----------------------------------------------------------------------------
(* What a process does in a pass once it has begun. *)
Continue(p) ==
    \/ \E t \in Tasks : PickTask(p, t)
    \/ CheckOverlap(p) \/ InsertRow(p) \/ CommitPass(p)
    \/ \E q \in Schedulers : AbortDeadlocked(p, q)

UserNext ==
    \/ \E t \in Tasks : \E s \in Plans[t] : \E on \in BOOLEAN :
          CreateTask(t, s, on) \/ UpdateTask(t, s, on)
    \/ \E t \in Tasks : SoftDeleteTask(t) \/ RequestStopTask(t) \/ RunNow(t)
    \/ \E s \in Sessions : DeleteSession(s)

RowNext ==
    \E k \in DOMAIN rows : StartRun(k) \/ \E retry \in BOOLEAN : EndRun(k, retry)

Next ==
    \/ Tick \/ Boot
    \/ \E p \in Schedulers : StartPass(p) \/ Continue(p) \/ Crash(p) \/ Restart(p)
    \/ UserNext
    \/ RowNext

Spec == Init /\ [][Next]_vars

(* A scheduler process polls, finishes the pass it has begun and is restarted *)
(* when it ends (restart: unless-stopped).                                  *)
Fairness ==
    \A p \in Schedulers :
        WF_vars(StartPass(p)) /\ WF_vars(Continue(p)) /\ WF_vars(Restart(p))

FairSpec == Spec /\ Fairness

-----------------------------------------------------------------------------
(* Properties of a deployment with one scheduler. *)

(* Which windows of a cron task a row accounts for. *)
Covers(k) ==
    IF k.source = "missed"
    THEN LET later == {h \in sched[k.task].hits : h >= k.at}
         IN  {h \in later : Cardinality({g \in later : g <= h}) <= k.count}
    ELSE IF k.source = "manual" THEN {} ELSE {k.at}

Steady(t) == t \notin Editable /\ sched[t].kind = "cron"

(* No window of a task has two verdicts: it is run, or coalesced, or missed,  *)
(* whatever crashes, restarts and late commits come between a pass's read   *)
(* of next_run_at and its overwriting it.                                   *)
OneVerdictPerWindow ==
    \A t \in Tasks : Steady(t) =>
        \A j, k \in RowsOf(t) : j # k => Covers(j) \cap Covers(k) = {}

(* No window is lost without a trace: each one between the first time and   *)
(* the present next_run_at of an enabled task has a row in its history.     *)
EveryWindowRecorded ==
    \A t \in Tasks : Live(t) /\ Steady(t) =>
        \A h \in sched[t].hits :
            /\ first[t] # Never /\ h >= first[t]
            /\ next[t] = Never \/ h < next[t]
            => \E k \in RowsOf(t) : h \in Covers(k)

(* However late the scheduler polls and however its pass interleaves with    *)
(* requests, it leaves no gap: only the start of a process can.             *)
NoGapWithoutRestart ==
    spent["crash"] = 0 /\ spent["boot"] = 0 => EveryWindowRecorded

(* A session never has two automatic runs waiting or running, whichever of  *)
(* its tasks were due at once and whatever became of the earlier run.       *)
NoBacklog ==
    \A s \in Sessions :
        Cardinality({k \in DOMAIN rows : /\ SessionOf[k.task] = s
                                         /\ k.source \in Automatic
                                         /\ rows[k] \in Active}) <= 1

(* A pass queues at most one run per task, for the latest window that was    *)
(* due when it began: downtime is never replayed window by window.          *)
LatestIsCompensated ==
    \A p \in Schedulers : \A k \in draft[p] :
        k.source \in Automatic /\ seen[p][k.task].sched.kind = "cron" =>
            /\ ~\E h \in seen[p][k.task].sched.hits : k.at < h /\ h <= now[p]
            /\ \A j \in draft[p] : j.task = k.task /\ j.source \in Automatic => j = k

(* Properties that need no such restriction. *)

(* The row of a run that ended is never queued again by any pass, so no      *)
(* occurrence is executed a second time because two schedulers, or a slow   *)
(* and a later pass, computed it again.                                     *)
EndedStaysEnded ==
    [][\A k \in DOMAIN rows : rows[k] \in {"ended", "skipped"} => rows'[k] = rows[k]]_vars

(* A task that is due is dealt with (or withdrawn): schedulers that crash,   *)
(* block each other on a key or are aborted in a deadlock come back to it.  *)
DueIsHandled ==
    \A t \in Tasks : Due(t, clock) ~> ~Due(t, clock)

-----------------------------------------------------------------------------
(* What the specification of the repository says and the code does not keep. *)

(* "The system prevents its future scheduling": no run is queued for a task  *)
(* that is disabled or deleted by then.                                     *)
StoppedStaysStopped ==
    [][\A k \in DOMAIN rows' \ DOMAIN rows : k.source \in Automatic => Live(k.task)]_vars

(* "When a session is deleted the system must cancel runs not started". *)
DeletedSessionIsQuiet ==
    [][\A s \in closed' \ closed : \A k \in DOMAIN rows' :
          SessionOf[k.task] = s => rows'[k] # "pending"]_vars

(* "The server must refuse more enabled tasks per session than the limit". *)
QuotaKept == \A s \in Sessions : Cardinality(EnabledIn(s)) <= MaxPerSession
=============================================================================
