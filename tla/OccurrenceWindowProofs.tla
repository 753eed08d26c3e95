------------------------ MODULE OccurrenceWindowProofs ------------------------
(***************************************************************************)
(* The windows of schedules in OccurrenceScheduler: what a pass drafts for   *)
(* them, what it commits, and what is left when it does.                    *)
(*                                                                         *)
(* Theorems name what they need beyond the constants' assumptions:          *)
(* OneScheduler (two of them do break the property), ScanSuffices (a scan   *)
(* that is cut short breaks it) and ClockMissesWindows.                     *)
(***************************************************************************)
EXTENDS OccurrenceProofs

(***************************************************************************)
(* What a pass has drafted, whoever else is at work.                       *)
(***************************************************************************)

(* The task it is handling. *)
InHand(p, t) == pc[p] \in Working /\ cur[p] = t

MissedRow(p, t) == Row(t, "missed", seen[p][t].next, Window(p, t).missed)

(* A draft is the summary of a task's missed windows or the verdict on its  *)
(* latest one.                                                              *)
DraftIsSound(p) ==
    \A k \in draft[p] :
        /\ k.task \notin todo[p]
        /\ k.source = "missed" => k = MissedRow(p, k.task)
        /\ k.source # "missed" => k.at = Window(p, k.task).latest /\ k.count = 0

OneRunPerTask(p) ==
    /\ \A j, k \in draft[p] :
          j.task = k.task /\ j.source # "missed" /\ k.source # "missed" => j = k
    /\ \A k \in draft[p] : k.source # "missed" => ~InHand(p, k.task)

(* Nothing is forgotten: a row that is not in the draft was in the table. *)
HandledHaveRows(p) ==
    \A t \in DOMAIN seen[p] \ todo[p] :
        /\ Window(p, t).missed > 0 /\ ~(InHand(p, t) /\ pc[p] = "missed")
           => MissedRow(p, t) \in draft[p] \cup DOMAIN rows
        /\ ~InHand(p, t)
           => \E k \in draft[p] \cup DOMAIN rows :
                 /\ k.task = t /\ k.at = Window(p, t).latest
                 /\ k.source \in Automatic \cup {"coalesced"}

PassIsSound(p) == DraftIsSound(p) /\ OneRunPerTask(p) /\ HandledHaveRows(p)

PassInv == \A p \in Schedulers : PassIsSound(p)

(* A step that does not touch the pass of p. *)
PassUntouched(p) ==
    /\ pc'[p] = pc[p] /\ now'[p] = now[p] /\ seen'[p] = seen[p]
    /\ todo'[p] = todo[p] /\ cur'[p] = cur[p] /\ draft'[p] = draft[p]

LEMMA InitPassInv == Init => PassInv
  BY DEF Init, PassInv, PassIsSound, DraftIsSound, OneRunPerTask, HandledHaveRows, NoTasks

LEMMA WindowKept ==
    ASSUME NEW p, NEW t, seen'[p] = seen[p], now'[p] = now[p]
    PROVE  Window(p, t)' = Window(p, t) /\ MissedRow(p, t)' = MissedRow(p, t)
  BY DEF Window, MissedRow

LEMMA UntouchedKeepSound ==
    ASSUME NEW p \in Schedulers, PassIsSound(p), PassUntouched(p),
           DOMAIN rows \subseteq DOMAIN rows'
    PROVE  PassIsSound(p)'
  <1>1. \A t : Window(p, t)' = Window(p, t) /\ MissedRow(p, t)' = MissedRow(p, t)
    BY WindowKept DEF PassUntouched
  <1>2. \A t : InHand(p, t)' <=> InHand(p, t)
    BY DEF InHand, PassUntouched
  <1>3. DraftIsSound(p)'
    BY <1>1 DEF PassIsSound, DraftIsSound, PassUntouched
  <1>4. OneRunPerTask(p)'
    BY <1>2 DEF PassIsSound, OneRunPerTask, PassUntouched
  <1>5. HandledHaveRows(p)'
    BY <1>1, <1>2 DEF PassIsSound, HandledHaveRows, PassUntouched
  <1> QED BY <1>3, <1>4, <1>5 DEF PassIsSound

LEMMA StartPassSound ==
    ASSUME TypeInv, NEW p \in Schedulers, StartPass(p)
    PROVE  PassIsSound(p)'
  <1>1. draft'[p] = {} /\ todo'[p] = DOMAIN seen'[p]
    BY DEF StartPass, TypeInv, PassTypes
  <1> QED BY <1>1 DEF PassIsSound, DraftIsSound, OneRunPerTask, HandledHaveRows

LEMMA EndPassSound ==
    ASSUME TypeInv, NEW p \in Schedulers, NEW label, EndPass(p, label)
    PROVE  PassIsSound(p)'
  <1>1. draft'[p] = {} /\ DOMAIN seen'[p] = {}
    BY DEF EndPass, TypeInv, NoTasks
  <1> QED BY <1>1 DEF PassIsSound, DraftIsSound, OneRunPerTask, HandledHaveRows

LEMMA PickTaskSound ==
    ASSUME TypeInv, NEW p \in Schedulers, PassIsSound(p), NEW t \in Tasks, PickTask(p, t)
    PROVE  PassIsSound(p)'
  <1>1. /\ pc[p] = "pick" /\ t \in todo[p]
        /\ todo'[p] = todo[p] \ {t} /\ cur'[p] = t
        /\ pc'[p] = IF Window(p, t).missed > 0 THEN "missed" ELSE "overlap"
        /\ UNCHANGED <<rows, now, seen, draft>>
    BY DEF PickTask, TypeInv
  <1>2. \A u : Window(p, u)' = Window(p, u) /\ MissedRow(p, u)' = MissedRow(p, u)
    BY <1>1, WindowKept
  <1>3. \A u : ~InHand(p, u) /\ (InHand(p, u)' <=> u = t)
    BY <1>1 DEF InHand, Working, Inserting
  <1>4. DraftIsSound(p)'
    BY <1>1, <1>2 DEF PassIsSound, DraftIsSound
  <1>5. OneRunPerTask(p)'
    BY <1>1, <1>3 DEF PassIsSound, OneRunPerTask, DraftIsSound
  <1>6. HandledHaveRows(p)'
    <2> SUFFICES ASSUME NEW u \in DOMAIN seen'[p] \ todo'[p]
                 PROVE  /\ Window(p, u)'.missed > 0 /\ ~(InHand(p, u)' /\ pc'[p] = "missed")
                           => MissedRow(p, u)' \in draft'[p] \cup DOMAIN rows'
                        /\ ~InHand(p, u)'
                           => \E k \in draft'[p] \cup DOMAIN rows' :
                                 /\ k.task = u /\ k.at = Window(p, u)'.latest
                                 /\ k.source \in Automatic \cup {"coalesced"}
      BY DEF HandledHaveRows
    <2>1. CASE u = t
      BY <2>1, <1>1, <1>2, <1>3
    <2>2. CASE u # t
      <3>1. u \in DOMAIN seen[p] \ todo[p]
        BY <2>2, <1>1
      <3> QED BY <2>2, <3>1, <1>1, <1>2, <1>3 DEF PassIsSound, HandledHaveRows
    <2> QED BY <2>1, <2>2
  <1> QED BY <1>4, <1>5, <1>6 DEF PassIsSound

LEMMA CheckOverlapSound ==
    ASSUME TypeInv, NEW p \in Schedulers, PassIsSound(p), CheckOverlap(p)
    PROVE  PassIsSound(p)'
  <1>1. /\ pc[p] = "overlap" /\ pc'[p] \in Inserting \ {"missed"}
        /\ UNCHANGED <<rows, now, seen, todo, cur, draft>>
    BY DEF CheckOverlap, TypeInv, Inserting
  <1>2. \A u : Window(p, u)' = Window(p, u) /\ MissedRow(p, u)' = MissedRow(p, u)
    BY <1>1, WindowKept
  <1>3. \A u : InHand(p, u)' <=> InHand(p, u)
    BY <1>1 DEF InHand, Working
  <1> QED BY <1>1, <1>2, <1>3 DEF PassIsSound, DraftIsSound, OneRunPerTask, HandledHaveRows,
             Inserting

LEMMA InsertRowSound ==
    ASSUME TypeInv, NEW p \in Schedulers, PassIsSound(p), InsertRow(p)
    PROVE  PassIsSound(p)'
  <1> DEFINE k == NewRow(p)
             t == cur[p]
  <1>1. /\ pc[p] \in Inserting
        /\ draft'[p] = draft[p] \cup ({k} \ DOMAIN rows)
        /\ pc'[p] = IF pc[p] = "missed" THEN "overlap" ELSE "pick"
        /\ UNCHANGED <<rows, now, seen, todo, cur>>
    BY DEF InsertRow, TypeInv
  <1>2. \A u : Window(p, u)' = Window(p, u) /\ MissedRow(p, u)' = MissedRow(p, u)
    BY <1>1, WindowKept
  <1>3. t \notin todo[p] /\ InHand(p, t)
    BY <1>1 DEF TypeInv, PassTypes, InHand, Working
  <1>4. k.task = t /\ t \notin todo[p]
    BY <1>3 DEF NewRow, Row
  <1>5. CASE pc[p] = "missed"
    <2>1. k = MissedRow(p, t) /\ k.source = "missed"
      BY <1>5 DEF NewRow, MissedRow, Row
    <2>2. \A u : InHand(p, u)' <=> InHand(p, u)
      BY <1>1, <1>5 DEF InHand, Working, Inserting
    <2> HIDE DEF k
    <2>3. DraftIsSound(p)'
      BY <1>1, <1>2, <1>4, <2>1 DEF PassIsSound, DraftIsSound
    <2>4. OneRunPerTask(p)'
      BY <1>1, <2>1, <2>2 DEF PassIsSound, OneRunPerTask
    <2>5. HandledHaveRows(p)'
      <3> SUFFICES ASSUME NEW u \in DOMAIN seen[p] \ todo[p]
                   PROVE  /\ Window(p, u).missed > 0
                             => MissedRow(p, u) \in draft'[p] \cup DOMAIN rows
                          /\ ~InHand(p, u)
                             => \E j \in draft'[p] \cup DOMAIN rows :
                                   /\ j.task = u /\ j.at = Window(p, u).latest
                                   /\ j.source \in Automatic \cup {"coalesced"}
        BY <1>1, <1>2, <1>5, <2>2 DEF HandledHaveRows
      <3>1. CASE u = t
        BY <3>1, <1>1, <1>3, <2>1
      <3>2. CASE u # t
        BY <3>2, <1>1 DEF PassIsSound, HandledHaveRows, InHand
      <3> QED BY <3>1, <3>2
    <2> QED BY <2>3, <2>4, <2>5 DEF PassIsSound
  <1>6. CASE pc[p] # "missed"
    <2>1. /\ k.source \in Automatic \cup {"coalesced"} /\ k.source # "missed"
          /\ k.at = Window(p, t).latest /\ k.count = 0
      BY <1>1, <1>6 DEF NewRow, Row, Inserting, Automatic
    <2>2. \A u : ~InHand(p, u)'
      BY <1>1, <1>6 DEF InHand, Working, Inserting
    <2> HIDE DEF k
    <2>3. DraftIsSound(p)'
      BY <1>1, <1>2, <1>4, <2>1 DEF PassIsSound, DraftIsSound
    <2>4. \A j \in draft[p] : j.source # "missed" => j.task # t
      BY <1>3 DEF PassIsSound, OneRunPerTask
    <2>5. OneRunPerTask(p)'
      BY <1>1, <1>4, <2>2, <2>4 DEF PassIsSound, OneRunPerTask
    <2>6. HandledHaveRows(p)'
      <3> SUFFICES ASSUME NEW u \in DOMAIN seen[p] \ todo[p]
                   PROVE  /\ Window(p, u).missed > 0
                             => MissedRow(p, u) \in draft'[p] \cup DOMAIN rows
                          /\ \E j \in draft'[p] \cup DOMAIN rows :
                                   /\ j.task = u /\ j.at = Window(p, u).latest
                                   /\ j.source \in Automatic \cup {"coalesced"}
        BY <1>1, <1>2, <2>2 DEF HandledHaveRows
      <3>1. Window(p, u).missed > 0 => MissedRow(p, u) \in draft'[p] \cup DOMAIN rows
        BY <1>1, <1>6 DEF PassIsSound, HandledHaveRows
      <3>2. CASE u = t
        <4>1. k \in draft'[p] \cup DOMAIN rows
          BY <1>1
        <4> QED BY <3>1, <3>2, <4>1, <1>4, <2>1
      <3>3. CASE u # t
        BY <3>1, <3>3, <1>1 DEF PassIsSound, HandledHaveRows, InHand
      <3> QED BY <3>2, <3>3
    <2> QED BY <2>3, <2>5, <2>6 DEF PassIsSound
  <1> QED BY <1>5, <1>6

(* The rows' keys are never taken away. *)
LEMMA KeysStay ==
    ASSUME Next
    PROVE  DOMAIN rows \subseteq DOMAIN rows'
  <1>1. ASSUME NEW ts, CancelPending(ts) PROVE DOMAIN rows \subseteq DOMAIN rows'
    BY <1>1 DEF CancelPending
  <1>2. ASSUME UserNext PROVE DOMAIN rows \subseteq DOMAIN rows'
    <2>1. ASSUME NEW t \in Tasks, SoftDeleteTask(t) \/ RequestStopTask(t) \/ RunNow(t)
          PROVE  DOMAIN rows \subseteq DOMAIN rows'
      BY <1>1, <2>1 DEF SoftDeleteTask, RequestStopTask, RunNow
    <2>2. ASSUME NEW t \in Tasks, NEW s \in Plans[t], NEW on \in BOOLEAN,
                 CreateTask(t, s, on) \/ UpdateTask(t, s, on)
          PROVE  DOMAIN rows \subseteq DOMAIN rows'
      BY <1>1, <2>2 DEF CreateTask, UpdateTask
    <2>3. ASSUME NEW s \in Sessions, DeleteSession(s) PROVE DOMAIN rows \subseteq DOMAIN rows'
      BY <2>3 DEF DeleteSession
    <2> QED BY <1>2, <2>1, <2>2, <2>3 DEF UserNext
  <1>3. ASSUME RowNext \/ Tick \/ Boot PROVE DOMAIN rows \subseteq DOMAIN rows'
    BY <1>3 DEF RowNext, StartRun, EndRun, Tick, Boot
  <1>4. ASSUME NEW p \in Schedulers, StartPass(p) \/ Continue(p) \/ Crash(p) \/ Restart(p)
        PROVE  DOMAIN rows \subseteq DOMAIN rows'
    BY <1>4 DEF StartPass, Continue, PickTask, CheckOverlap, InsertRow, CommitPass, Queued,
       AbortDeadlocked, Crash, Restart
  <1> QED BY <1>2, <1>3, <1>4 DEF Next

(* A step belongs to one scheduler at most. *)
LEMMA OthersUntouched ==
    ASSUME TypeInv, NEW p \in Schedulers, NEW q \in Schedulers, q # p,
           StartPass(p) \/ Continue(p) \/ Crash(p) \/ Restart(p)
    PROVE  PassUntouched(q)
  BY DEF TypeInv, PassUntouched, StartPass, Continue, PickTask, CheckOverlap, InsertRow,
     CommitPass, AbortDeadlocked, Crash, Restart, EndPass

LEMMA NextPassInv ==
    ASSUME TypeInv, PassInv, [Next]_vars
    PROVE  PassInv'
  <1>1. ASSUME UNCHANGED passVars, DOMAIN rows \subseteq DOMAIN rows' PROVE PassInv'
    BY <1>1, UntouchedKeepSound DEF PassInv, PassUntouched, passVars
  <1>2. CASE UNCHANGED vars
    BY <1>1, <1>2 DEF vars
  <1>3. CASE Tick \/ Boot \/ UserNext \/ RowNext
    <2>1. UNCHANGED passVars
      BY <1>3 DEF Tick, Boot, UserNext, RowNext, CreateTask, UpdateTask, SoftDeleteTask,
         RequestStopTask, DeleteSession, RunNow, StartRun, EndRun
    <2> QED BY <1>1, <1>3, <2>1, KeysStay DEF Next
  <1>4. ASSUME NEW p \in Schedulers, StartPass(p) \/ Continue(p) \/ Crash(p) \/ Restart(p)
        PROVE  PassInv'
    <2>1. DOMAIN rows \subseteq DOMAIN rows'
      BY <1>4, KeysStay DEF Next
    <2>2. \A q \in Schedulers \ {p} : PassIsSound(q)'
      BY <1>4, <2>1, OthersUntouched, UntouchedKeepSound DEF PassInv
    <2>3. PassIsSound(p)'
      <3>1. CASE StartPass(p)
        BY <3>1, StartPassSound
      <3>2. ASSUME NEW label, EndPass(p, label) PROVE PassIsSound(p)'
        BY <3>2, EndPassSound
      <3>3. CASE Continue(p)
        BY <3>2, <3>3, PickTaskSound, CheckOverlapSound, InsertRowSound
           DEF PassInv, Continue, CommitPass, AbortDeadlocked
      <3>4. CASE Crash(p)
        BY <3>2, <3>4 DEF Crash
      <3>5. CASE Restart(p)
        <4>1. /\ pc[p] = "down" /\ pc'[p] = "idle"
              /\ UNCHANGED <<rows, now, seen, todo, cur, draft>>
          BY <3>5 DEF Restart, TypeInv
        <4>2. \A u : Window(p, u)' = Window(p, u) /\ MissedRow(p, u)' = MissedRow(p, u)
          BY <4>1, WindowKept
        <4>3. \A u : ~InHand(p, u) /\ ~InHand(p, u)'
          BY <4>1 DEF InHand, Working, Inserting
        <4> QED BY <4>1, <4>2, <4>3 DEF PassInv, PassIsSound, DraftIsSound, OneRunPerTask,
                   HandledHaveRows
      <3> QED BY <1>4, <3>1, <3>3, <3>4, <3>5
    <2> QED BY <2>2, <2>3 DEF PassInv
  <1> QED BY <1>2, <1>3, <1>4 DEF Next

-----------------------------------------------------------------------------
(* Nothing of a schedule is due after the window for which a pass queues a   *)
(* run, and it queues one run per task: at any number of schedulers, as long *)
(* as the scan for missed windows is not cut short.                         *)
THEOREM DowntimeIsNotReplayed ==
    ASSUME ScanSuffices
    PROVE  Spec => []LatestIsCompensated
  <1>1. TypeInv /\ PassInv => LatestIsCompensated
    <2> SUFFICES ASSUME TypeInv, PassInv, NEW p \in Schedulers, NEW k \in draft[p],
                        k.source \in Automatic, seen[p][k.task].sched.kind = "cron"
                 PROVE  /\ ~\E h \in seen[p][k.task].sched.hits : k.at < h /\ h <= now[p]
                        /\ \A j \in draft[p] : j.task = k.task /\ j.source \in Automatic => j = k
      BY DEF LatestIsCompensated
    <2> DEFINE t == k.task
               s == seen[p][t].sched
               from == seen[p][t].next
    <2>1. t \in DOMAIN seen[p]
      BY DEF TypeInv, DraftTypes
    <2>2. /\ t \in Tasks /\ s \in Plans[t] /\ from \in Nat
          /\ Window(p, t).latest \in Nat /\ from <= Window(p, t).latest
      BY <2>1, WindowType
    <2>3. now[p] \in 0 .. Horizon
      BY DEF TypeInv
    <2>4. k.at = Window(p, t).latest
      BY DEF PassInv, PassIsSound, DraftIsSound, Automatic
    <2>5. ASSUME NEW h \in s.hits, k.at < h, h <= now[p] PROVE FALSE
      <3>1. h <= Window(p, t).latest \/ h <= from
        BY <2>2, <2>3, <2>5, LatestIsLast DEF Window
      <3>2. h \in Nat
        BY <2>2, PlanFacts
      <3> QED BY <2>2, <2>4, <2>5, <3>1, <3>2
    <2>6. \A j \in draft[p] : j.task = t /\ j.source \in Automatic => j = k
      BY DEF PassInv, PassIsSound, OneRunPerTask, Automatic
    <2> QED BY <2>5, <2>6
  <1>2. Init => TypeInv /\ PassInv
    BY InitTypes, InitPassInv
  <1>3. TypeInv /\ PassInv /\ [Next]_vars => (TypeInv /\ PassInv)'
    BY NextTypes, NextPassInv
  <1> QED BY <1>1, <1>2, <1>3, PTL DEF Spec

-----------------------------------------------------------------------------
(* One scheduler, as deployed. *)
OneScheduler == \A p, q \in Schedulers : p = q

QueuedIn(s) == {k \in DOMAIN rows : /\ SessionOf[k.task] = s
                                    /\ k.source \in Automatic
                                    /\ rows[k] \in Active}

DraftedIn(p, s) == {k \in draft[p] : SessionOf[k.task] = s /\ k.source \in Automatic}

(* The pass has found the session free and is about to insert the run. *)
FoundFree(p, s) == pc[p] \in Automatic /\ SessionOf[cur[p]] = s

(* What is queued, drafted and about to be drafted is one run in all. *)
BacklogInv ==
    \A s \in Sessions :
        /\ \A j, k \in QueuedIn(s) : j = k
        /\ \A p \in Schedulers :
              /\ \A j, k \in DraftedIn(p, s) : j = k
              /\ DraftedIn(p, s) # {} => QueuedIn(s) = {}
              /\ FoundFree(p, s) => QueuedIn(s) = {} /\ DraftedIn(p, s) = {}

LEMMA InitBacklog == Init => BacklogInv
  BY DEF Init, BacklogInv, QueuedIn, DraftedIn, FoundFree, Automatic

LEMMA BacklogSuffices == BacklogInv => NoBacklog
  <1> SUFFICES ASSUME BacklogInv, NEW s \in Sessions PROVE Cardinality(QueuedIn(s)) <= 1
    BY DEF NoBacklog, QueuedIn
  <1>1. CASE QueuedIn(s) = {}
    BY <1>1, FS_EmptySet
  <1>2. ASSUME NEW k \in QueuedIn(s) PROVE Cardinality(QueuedIn(s)) <= 1
    <2>1. QueuedIn(s) = {k}
      BY <1>2 DEF BacklogInv
    <2> QED BY <2>1, FS_Singleton
  <1> QED BY <1>1, <1>2

(* A step that queues nothing new. *)
LEMMA QuietBacklog ==
    ASSUME BacklogInv, \A s \in Sessions : QueuedIn(s)' \subseteq QueuedIn(s),
           \A p \in Schedulers : \A s \in Sessions :
              /\ DraftedIn(p, s)' \subseteq DraftedIn(p, s)
              /\ FoundFree(p, s)' => FoundFree(p, s)
    PROVE  BacklogInv'
  BY DEF BacklogInv

LEMMA NextBacklog ==
    ASSUME OneScheduler, KeyInv, TypeInv, BacklogInv, [Next]_vars
    PROVE  BacklogInv'
  <1>1. ASSUME \A s \in Sessions : QueuedIn(s)' \subseteq QueuedIn(s), UNCHANGED passVars
        PROVE  BacklogInv'
    BY <1>1, QuietBacklog DEF passVars, DraftedIn, FoundFree
  <1>2. ASSUME DOMAIN rows' = DOMAIN rows,
               \A k \in DOMAIN rows : rows'[k] \in Active => rows[k] \in Active
        PROVE  \A s \in Sessions : QueuedIn(s)' \subseteq QueuedIn(s)
    BY <1>2 DEF QueuedIn
  <1>3. ASSUME NEW ts, CancelPending(ts)
        PROVE  \A s \in Sessions : QueuedIn(s)' \subseteq QueuedIn(s)
    BY <1>2, <1>3 DEF CancelPending, Active
  <1>4. ASSUME UNCHANGED rows
        PROVE  \A s \in Sessions : QueuedIn(s)' \subseteq QueuedIn(s)
    BY <1>4 DEF QueuedIn
  <1>5. CASE Tick \/ Boot \/ UNCHANGED vars
    BY <1>1, <1>4, <1>5 DEF Tick, Boot, vars, passVars
  <1>6. CASE RowNext
    <2>1. PICK k \in DOMAIN rows : StartRun(k) \/ \E retry \in BOOLEAN : EndRun(k, retry)
      BY <1>6 DEF RowNext
    <2>2. /\ DOMAIN rows' = DOMAIN rows /\ UNCHANGED passVars
          /\ \A j \in DOMAIN rows : rows'[j] \in Active => rows[j] \in Active
      BY <2>1 DEF StartRun, EndRun, Active
    <2> QED BY <1>1, <1>2, <2>2
  <1>7. CASE UserNext
    <2>1. ASSUME NEW t \in Tasks, RunNow(t)
          PROVE  \A s \in Sessions : QueuedIn(s)' \subseteq QueuedIn(s)
      <3> DEFINE m == Row(t, "manual", clock, spent["request"])
      <3>1. rows' = [j \in DOMAIN rows \cup {m} |-> IF j = m THEN "pending" ELSE rows[j]]
        BY <2>1 DEF RunNow
      <3>2. m.source \notin Automatic
        BY DEF Row, Automatic
      <3> HIDE DEF m
      <3> QED BY <3>1, <3>2 DEF QueuedIn
    <2>2. UNCHANGED passVars
      BY <1>7 DEF UserNext, CreateTask, UpdateTask, SoftDeleteTask, RequestStopTask,
         DeleteSession, RunNow
    <2>3. ASSUME NEW t \in Tasks, NEW s \in Plans[t], NEW on \in BOOLEAN,
                 CreateTask(t, s, on) \/ UpdateTask(t, s, on)
          PROVE  \A u \in Sessions : QueuedIn(u)' \subseteq QueuedIn(u)
      BY <1>3, <1>4, <2>3 DEF CreateTask, UpdateTask
    <2>4. ASSUME NEW t \in Tasks, SoftDeleteTask(t) \/ RequestStopTask(t)
          PROVE  \A u \in Sessions : QueuedIn(u)' \subseteq QueuedIn(u)
      BY <1>3, <2>4 DEF SoftDeleteTask, RequestStopTask
    <2>5. ASSUME NEW s \in Sessions, DeleteSession(s)
          PROVE  \A u \in Sessions : QueuedIn(u)' \subseteq QueuedIn(u)
      BY <1>4, <2>5 DEF DeleteSession
    <2>6. \A s \in Sessions : QueuedIn(s)' \subseteq QueuedIn(s)
      BY <1>7, <2>1, <2>3, <2>4, <2>5 DEF UserNext
    <2> QED BY <1>1, <2>2, <2>6
  <1>8. ASSUME NEW p \in Schedulers, StartPass(p) \/ Continue(p) \/ Crash(p) \/ Restart(p)
        PROVE  BacklogInv'
    <2>0. \A q \in Schedulers : q = p
      BY DEF OneScheduler
    <2>1. ASSUME UNCHANGED rows, draft'[p] \subseteq draft[p], pc'[p] \notin Automatic
          PROVE  BacklogInv'
      BY <1>4, <2>0, <2>1, QuietBacklog DEF DraftedIn, FoundFree
    <2>2. CASE StartPass(p)
      BY <2>1, <2>2 DEF StartPass, TypeInv, Automatic
    <2>3. ASSUME NEW t \in Tasks, PickTask(p, t) PROVE BacklogInv'
      BY <2>1, <2>3 DEF PickTask, TypeInv, Automatic
    <2>4. CASE Crash(p) \/ \E q \in Schedulers : AbortDeadlocked(p, q)
      BY <2>1, <2>4 DEF Crash, AbortDeadlocked, EndPass, TypeInv, Automatic
    <2>5. CASE Restart(p)
      BY <2>1, <2>5 DEF Restart, TypeInv, Automatic
    <2>6. CASE CheckOverlap(p)
      <3>1. /\ UNCHANGED <<rows, draft, cur>> /\ pc[p] = "overlap"
            /\ pc'[p] \in Automatic => ~HasActiveOverlap(p, SessionOf[cur[p]])
        BY <2>6 DEF CheckOverlap, TypeInv, Automatic
      <3>2. ASSUME NEW s \in Sessions, FoundFree(p, s)'
            PROVE  QueuedIn(s) = {} /\ DraftedIn(p, s) = {}
        BY <3>1, <3>2 DEF FoundFree, HasActiveOverlap, QueuedIn, DraftedIn
      <3>3. \A s \in Sessions : QueuedIn(s)' = QueuedIn(s) /\ DraftedIn(p, s)' = DraftedIn(p, s)
        BY <3>1 DEF QueuedIn, DraftedIn
      <3> QED BY <2>0, <3>2, <3>3 DEF BacklogInv
    <2>7. CASE InsertRow(p)
      <3>1. /\ UNCHANGED <<rows, cur>> /\ pc[p] \in Inserting
            /\ draft'[p] = draft[p] \cup ({NewRow(p)} \ DOMAIN rows)
            /\ pc'[p] \notin Automatic
        BY <2>7 DEF InsertRow, TypeInv, Automatic
      <3>2. \A s \in Sessions : QueuedIn(s)' = QueuedIn(s) /\ ~FoundFree(p, s)'
        BY <3>1 DEF QueuedIn, FoundFree
      <3>3. CASE pc[p] \notin Automatic
        <4>1. NewRow(p).source \notin Automatic
          BY <3>1, <3>3 DEF NewRow, Row, Inserting, Automatic
        <4>2. \A s \in Sessions : DraftedIn(p, s)' = DraftedIn(p, s)
          BY <3>1, <4>1 DEF DraftedIn
        <4> QED BY <2>0, <3>2, <4>2 DEF BacklogInv
      <3>4. CASE pc[p] \in Automatic
        <4>1. NewRow(p).task = cur[p]
          BY <3>4 DEF NewRow, Row, Automatic
        <4>2. ASSUME NEW s \in Sessions, SessionOf[cur[p]] # s
              PROVE  DraftedIn(p, s)' = DraftedIn(p, s)
          BY <3>1, <4>1, <4>2 DEF DraftedIn
        <4>3. ASSUME NEW s \in Sessions, SessionOf[cur[p]] = s
              PROVE  QueuedIn(s) = {} /\ DraftedIn(p, s)' \subseteq {NewRow(p)}
          BY <3>1, <3>4, <4>3 DEF DraftedIn, BacklogInv, FoundFree
        <4> QED BY <2>0, <3>2, <4>2, <4>3 DEF BacklogInv
      <3> QED BY <3>3, <3>4
    <2>8. CASE CommitPass(p)
      <3>1. /\ rows' = Queued(draft[p]) /\ draft'[p] = {} /\ pc'[p] = "idle"
            /\ draft[p] \cap DOMAIN rows = {}
        BY <2>8 DEF CommitPass, EndPass, TypeInv, KeyInv, DraftsAreNew
      <3>2. \A s \in Sessions : QueuedIn(s)' \subseteq QueuedIn(s) \cup DraftedIn(p, s)
        BY <3>1 DEF QueuedIn, DraftedIn, Queued, Active
      <3>3. \A s \in Sessions : DraftedIn(p, s)' = {} /\ ~FoundFree(p, s)'
        BY <3>1 DEF DraftedIn, FoundFree, Automatic
      <3> QED BY <2>0, <3>2, <3>3 DEF BacklogInv
    <2> QED BY <1>8, <2>2, <2>3, <2>4, <2>5, <2>6, <2>7, <2>8 DEF Continue
  <1> QED BY <1>5, <1>6, <1>7, <1>8 DEF Next

(* With one scheduler a session has at most one automatic run that waits or  *)
(* runs: create_due_runs looks for one before each insert, and sees its own. *)
THEOREM OneRunPerSession ==
    ASSUME OneScheduler
    PROVE  Spec => []NoBacklog
  <1> DEFINE IInv == KeyInv /\ TypeInv /\ BacklogInv
  <1>1. Init => IInv
    BY InitKeyInv, InitTypes, InitBacklog
  <1>2. IInv /\ [Next]_vars => IInv'
    BY NextKeyInv, NextTypes, NextBacklog
  <1>3. IInv => NoBacklog
    BY BacklogSuffices
  <1> QED BY <1>1, <1>2, <1>3, PTL DEF Spec

-----------------------------------------------------------------------------
(* No pass begins and no process starts at the very time of a window: the   *)
(* clock counts microseconds, cron minutes.  A pass at that very time would  *)
(* write that same time as the next one, and the window would be due again.  *)
ClockMissesWindows ==
    \A t \in Tasks : \A s \in Plans[t] :
        s.kind = "cron" => \A h \in s.hits : \A n \in Nat : h # n * Stride

ClockInv ==
    /\ \E n \in Nat : clock = n * Stride
    /\ \A p \in Schedulers : \E n \in Nat : now[p] = n * Stride

LEMMA InitClock == Init => ClockInv
  <1> SUFFICES ASSUME Init PROVE ClockInv
    OBVIOUS
  <1>1. 0 = 0 * Stride
    BY BoundsAssumption
  <1> QED BY <1>1 DEF Init, ClockInv

LEMMA NextClock ==
    ASSUME TypeInv, ClockInv, [Next]_vars
    PROVE  ClockInv'
  <1>1. ASSUME UNCHANGED <<clock, now>> PROVE ClockInv'
    BY <1>1 DEF ClockInv
  <1>2. CASE Tick
    <2>1. PICK n \in Nat : clock = n * Stride
      BY DEF ClockInv
    <2>2. n + 1 \in Nat /\ (n + 1) * Stride = n * Stride + Stride
      BY BoundsAssumption
    <2>3. clock' = (n + 1) * Stride /\ UNCHANGED now
      BY <1>2, <2>1, <2>2 DEF Tick, passVars
    <2> QED BY <2>2, <2>3 DEF ClockInv
  <1>3. ASSUME NEW p \in Schedulers, NEW label, EndPass(p, label), UNCHANGED clock
        PROVE  ClockInv'
    <2>1. 0 = 0 * Stride
      BY BoundsAssumption
    <2>2. \A q \in Schedulers : now'[q] = 0 \/ now'[q] = now[q]
      BY <1>3 DEF EndPass, TypeInv
    <2> QED BY <1>3, <2>1, <2>2 DEF ClockInv
  <1>4. ASSUME NEW p \in Schedulers, StartPass(p) PROVE ClockInv'
    BY <1>4 DEF StartPass, TypeInv, ClockInv
  <1>5. ASSUME NEW p \in Schedulers, Continue(p) PROVE ClockInv'
    BY <1>1, <1>3, <1>5 DEF Continue, PickTask, CheckOverlap, InsertRow, CommitPass, AbortDeadlocked
  <1>6. ASSUME NEW p \in Schedulers, Crash(p) \/ Restart(p) PROVE ClockInv'
    BY <1>1, <1>3, <1>6 DEF Crash, Restart
  <1>7. CASE Boot \/ UserNext \/ RowNext \/ UNCHANGED vars
    <2>1. ASSUME UserNext PROVE UNCHANGED <<clock, passVars>>
      BY <2>1 DEF UserNext, CreateTask, UpdateTask, SoftDeleteTask, RequestStopTask,
         DeleteSession, RunNow
    <2>2. ASSUME Boot \/ RowNext \/ UNCHANGED vars PROVE UNCHANGED <<clock, passVars>>
      BY <2>2 DEF Boot, RowNext, vars, StartRun, EndRun
    <2> QED BY <1>1, <1>7, <2>1, <2>2 DEF passVars
  <1> QED BY <1>2, <1>4, <1>5, <1>6, <1>7 DEF Next

(* The next time that a pass or a start computes is still to come. *)
LEMMA NextIsAhead ==
    ASSUME ClockMissesWindows, NEW t \in Tasks, NEW s \in Plans[t], s.kind = "cron",
           NEW time \in Nat, \E n \in Nat : time = n * Stride,
           NextRunAt(s, time) # Never
    PROVE  /\ NextRunAt(s, time) \in s.hits /\ NextRunAt(s, time) > time
           /\ \A h \in s.hits : h < NextRunAt(s, time) => h < time
  <1>1. /\ NextRunAt(s, time) \in s.hits /\ NextRunAt(s, time) >= time
        /\ \A h \in s.hits : h < NextRunAt(s, time) => h < time
    BY CronNext
  <1>2. NextRunAt(s, time) # time
    BY <1>1 DEF ClockMissesWindows
  <1>3. NextRunAt(s, time) \in Nat
    BY <1>1, PlanFacts
  <1> QED BY <1>1, <1>2, <1>3

-----------------------------------------------------------------------------
(***************************************************************************)
(* Windows of a steady cron task, with one scheduler.                      *)
(***************************************************************************)

(* All windows of t with a row lie before h. *)
AllBefore(t, h) == \A k \in RowsOf(t) : \A g \in Covers(k) : g < h

TaskWindows(t) ==
    /\ next[t] # Never => next[t] \in sched[t].hits /\ AllBefore(t, next[t])
    /\ \A k \in RowsOf(t) : \A g \in Covers(k) : g <= clock
    /\ \A p \in Schedulers : t \in DOMAIN seen[p] =>
          /\ seen[p][t].sched = sched[t]
          /\ seen[p][t].next \in sched[t].hits
          /\ AllBefore(t, seen[p][t].next)
    /\ \A j, k \in RowsOf(t) : j # k => Covers(j) \cap Covers(k) = {}

WindowInv == \A t \in created : Steady(t) => TaskWindows(t)

LEMMA CoversAreNat ==
    ASSUME TypeInv, NEW t \in created, NEW k \in RowsOf(t)
    PROVE  Covers(k) \subseteq Nat
  <1>1. t \in Tasks /\ sched[t] \in Plans[t]
    BY DEF TypeInv, TaskTypes
  <1>2. sched[t].hits \subseteq Nat
    BY <1>1, PlanFacts
  <1>3. k.task = t /\ k.at \in Nat
    BY DEF RowsOf, TypeInv, RowTypes
  <1> QED BY <1>2, <1>3 DEF Covers

LEMMA CoversKept ==
    ASSUME NEW t, sched'[t] = sched[t], NEW k, k.task = t
    PROVE  Covers(k)' = Covers(k)
  BY DEF Covers

(* The windows that a draft accounts for. *)
LEMMA DraftCovers ==
    ASSUME TypeInv, PassInv, NEW p \in Schedulers, NEW t \in DOMAIN seen[p],
           seen[p][t].sched = sched[t], sched[t].kind = "cron",
           seen[p][t].next \in sched[t].hits,
           NEW k, k.task = t,
           \/ k = MissedRow(p, t)
           \/ k.source \in Automatic \cup {"coalesced"} /\ k.at = Window(p, t).latest
    PROVE  Covers(k) = IF k.source = "missed"
                       THEN {h \in sched[t].hits : seen[p][t].next <= h
                                                   /\ h < Window(p, t).latest}
                       ELSE {Window(p, t).latest}
  <1> DEFINE s == sched[t]
             from == seen[p][t].next
             w == Window(p, t)
  <1>1. /\ t \in Tasks /\ s \in Plans[t] /\ from \in Nat /\ now[p] \in Nat
    BY WindowType
  <1>2. CASE k.source # "missed"
    BY <1>2 DEF Covers, MissedRow, Row, Automatic
  <1>3. CASE k.source = "missed"
    <2>1. k.at = from /\ k.count = w.missed
      BY <1>3 DEF MissedRow, Row, Automatic
    <2>2. Covers(k) = {h \in {g \in s.hits : g >= from} :
                          Cardinality({g \in {f \in s.hits : f >= from} : g <= h}) <= w.missed}
      BY <1>3, <2>1 DEF Covers
    <2>3. s.hits \subseteq Nat
      BY <1>1, PlanFacts
    <2>4. \A h \in s.hits : {g \in {f \in s.hits : f >= from} : g <= h} = Until(s, from, h)
      BY <1>1, <2>3 DEF Until
    <2>5. \A h \in s.hits : from <= h =>
             (Cardinality(Until(s, from, h)) <= w.missed <=> h < w.latest)
      BY <1>1, MissedAreBeforeLatest DEF Window
    <2> HIDE DEF s, from, w
    <2>6. Covers(k) = {h \in s.hits : from <= h /\ Cardinality(Until(s, from, h)) <= w.missed}
      <3>1. \A h \in s.hits : h >= from <=> from <= h
        BY <1>1, <2>3
      <3> QED BY <2>2, <2>4, <3>1
    <2>7. Covers(k) = {h \in s.hits : from <= h /\ h < w.latest}
      BY <2>5, <2>6
    <2> QED BY <1>3, <2>7 DEF s, from, w
  <1> QED BY <1>2, <1>3

-----------------------------------------------------------------------------
LEMMA InitWindows == Init => WindowInv
  BY DEF Init, WindowInv

(* Steps that give t no row but manual ones. *)
LEMMA QuietWindows ==
    ASSUME ClockMissesWindows, ClockInv, TypeInv, TypeInv',
           NEW t \in created, Steady(t), TaskWindows(t),
           sched'[t] = sched[t], clock <= clock',
           \A k \in RowsOf(t)' : k \in RowsOf(t) \/ k.source = "manual",
           next'[t] \in {next[t], Never, NextRunAt(sched[t], clock)},
           \A p \in Schedulers : seen'[p] = seen[p] \/ DOMAIN seen'[p] = {}
    PROVE  TaskWindows(t)'
  <1>1. /\ t \in Tasks /\ sched[t] \in Plans[t] /\ sched[t].kind = "cron"
        /\ clock \in Nat /\ clock' \in Nat
    BY BoundsAssumption DEF TypeInv, TaskTypes, Steady
  <1>2. \A k \in RowsOf(t)' : IF k \in RowsOf(t) THEN Covers(k)' = Covers(k) ELSE Covers(k)' = {}
    <2>1. \A k \in RowsOf(t)' : k.task = t
      BY DEF RowsOf
    <2> QED BY <2>1, CoversKept DEF Covers
  <1>3. \A k \in RowsOf(t) : Covers(k) \subseteq Nat
    BY CoversAreNat
  <1>4. \A k \in RowsOf(t) : \A g \in Covers(k) : g <= clock
    BY DEF TaskWindows
  <1>5. \A h : AllBefore(t, h) => \A k \in RowsOf(t)' : \A g \in Covers(k)' : g < h
    BY <1>2 DEF AllBefore
  <1>6. next'[t] # Never => next'[t] \in sched[t].hits /\ AllBefore(t, next'[t])
    <2>1. CASE next'[t] = next[t]
      BY <2>1 DEF TaskWindows
    <2>2. ASSUME next'[t] = NextRunAt(sched[t], clock), next'[t] # Never
          PROVE  next'[t] \in sched[t].hits /\ AllBefore(t, next'[t])
      <3>1. next'[t] \in sched[t].hits /\ next'[t] > clock
        BY <1>1, <2>2, NextIsAhead DEF ClockInv
      <3>2. next'[t] \in Nat
        BY <1>1, <3>1, PlanFacts
      <3>3. AllBefore(t, next'[t])
        BY <1>1, <1>3, <1>4, <3>1, <3>2 DEF AllBefore
      <3> QED BY <3>1, <3>3
    <2> QED BY <2>1, <2>2
  <1>7. \A k \in RowsOf(t)' : \A g \in Covers(k)' : g <= clock'
    BY <1>1, <1>2, <1>3, <1>4
  <1>8. \A p \in Schedulers : t \in DOMAIN seen'[p] =>
           /\ seen'[p][t].sched = sched'[t]
           /\ seen'[p][t].next \in sched'[t].hits
           /\ AllBefore(t, seen'[p][t].next)
    BY DEF TaskWindows
  <1>9. \A j, k \in RowsOf(t)' : j # k => Covers(j)' \cap Covers(k)' = {}
    BY <1>2 DEF TaskWindows
  <1>10. /\ next'[t] # Never => next'[t] \in sched'[t].hits
                               /\ \A k \in RowsOf(t)' : \A g \in Covers(k)' : g < next'[t]
         /\ \A p \in Schedulers : t \in DOMAIN seen'[p] =>
               \A k \in RowsOf(t)' : \A g \in Covers(k)' : g < seen'[p][t].next
    BY <1>5, <1>6, <1>8
  <1> QED BY <1>7, <1>8, <1>9, <1>10 DEF TaskWindows, AllBefore

(* The commit of a pass gives a window its verdict. *)
LEMMA CommitWindows ==
    ASSUME OneScheduler, ClockMissesWindows, ClockInv, TypeInv, TypeInv', PassInv,
           NEW p \in Schedulers, CommitPass(p),
           NEW t \in created, Steady(t), TaskWindows(t)
    PROVE  TaskWindows(t)'
  <1>1. /\ DOMAIN rows' = DOMAIN rows \cup draft[p]
        /\ UNCHANGED <<sched, clock>>
        /\ \A q \in Schedulers : DOMAIN seen'[q] = {}
        /\ next'[t] = IF /\ t \in DOMAIN seen[p]
                         /\ NextRunAt(seen[p][t].sched, now[p]) # seen[p][t].next
                      THEN NextRunAt(seen[p][t].sched, now[p]) ELSE next[t]
    BY DEF CommitPass, Queued, EndPass, NoTasks, TypeInv, TaskTypes, OneScheduler
  <1>2. clock \in Nat /\ clock <= clock
    BY BoundsAssumption DEF TypeInv
  <1>3. CASE t \notin DOMAIN seen[p]
    <2>1. \A k \in RowsOf(t)' : k \in RowsOf(t)
      BY <1>1, <1>3 DEF RowsOf, TypeInv, DraftTypes
    <2> QED BY <1>1, <1>2, <1>3, <2>1, QuietWindows
  <1>4. CASE t \in DOMAIN seen[p]
    <2> DEFINE s == sched[t]
               from == seen[p][t].next
               latest == Window(p, t).latest
               time == now[p]
    <2>1. /\ seen[p][t].sched = s /\ from \in s.hits /\ AllBefore(t, from)
      BY <1>4 DEF TaskWindows
    <2>2. /\ t \in Tasks /\ s \in Plans[t] /\ s.kind = "cron"
          /\ from \in Nat /\ latest \in Nat /\ time \in Nat
          /\ from <= latest /\ latest <= time /\ time <= clock
      BY <1>4, <2>1, WindowType DEF Steady, TypeInv, SeenTypes
    <2>3. \A k \in RowsOf(t)' : Covers(k)' = Covers(k)
      BY <1>1, CoversKept DEF RowsOf
    <2>4. \A k \in RowsOf(t)' : k \in RowsOf(t) \/ k \in draft[p]
      BY <1>1 DEF RowsOf
    <2>5. ASSUME NEW k \in draft[p], k.task = t
          PROVE  Covers(k) = IF k.source = "missed"
                             THEN {h \in s.hits : from <= h /\ h < latest} ELSE {latest}
      <3>1. k.source # "missed" => k.source \in Automatic \cup {"coalesced"}
        BY DEF TypeInv, DraftTypes, Sources
      <3>2. \/ k = MissedRow(p, t)
            \/ k.source \in Automatic \cup {"coalesced"} /\ k.at = latest
        BY <2>5, <3>1 DEF PassInv, PassIsSound, DraftIsSound
      <3> HIDE DEF s, from, latest
      <3> QED BY <1>4, <2>1, <2>2, <2>5, <3>2, DraftCovers DEF s, from, latest
    <2>6. ASSUME NEW k \in draft[p], k.task = t
          PROVE  \A g \in Covers(k) : g \in Nat /\ from <= g /\ g <= latest
      <3>1. s.hits \subseteq Nat
        BY <2>2, PlanFacts
      <3> HIDE DEF s, from, latest
      <3> QED BY <2>2, <2>5, <2>6, <3>1
    <2>7. \A k \in RowsOf(t) : \A g \in Covers(k) : g \in Nat /\ g < from
      BY <2>1, CoversAreNat DEF AllBefore
    <2>8. \A k \in RowsOf(t)' : \A g \in Covers(k) : g \in Nat /\ g <= time
      <3> HIDE DEF s, from, latest, time
      <3>1. \A k \in RowsOf(t)' : k.task = t
        BY DEF RowsOf
      <3> QED BY <2>2, <2>4, <2>6, <2>7, <3>1
    <2>9. next'[t] # Never => next'[t] \in s.hits /\ next'[t] > time /\ next'[t] \in Nat
      <3>1. ASSUME NextRunAt(s, time) # Never
            PROVE  NextRunAt(s, time) \in s.hits /\ NextRunAt(s, time) > time
                   /\ NextRunAt(s, time) \in Nat
        <4>1. NextRunAt(s, time) \in s.hits /\ NextRunAt(s, time) > time
          BY <2>2, <3>1, NextIsAhead DEF ClockInv
        <4> QED BY <4>1, <2>2, PlanFacts
      <3>2. NextRunAt(s, time) # from
        <4>1. from # Never
          BY <2>2, SchedulesAssumption
        <4>2. ASSUME NextRunAt(s, time) # Never PROVE NextRunAt(s, time) # from
          <5> HIDE DEF s, from, time, latest
          <5> QED BY <3>1, <4>2, <2>2
        <4> QED BY <4>1, <4>2
      <3>3. next'[t] = NextRunAt(s, time)
        BY <1>1, <1>4, <2>1, <3>2
      <3> QED BY <3>1, <3>3
    <2>10. next'[t] # Never =>
              /\ next'[t] \in sched'[t].hits
              /\ \A k \in RowsOf(t)' : \A g \in Covers(k)' : g < next'[t]
      <3>1. ASSUME next'[t] # Never, NEW k \in RowsOf(t)', NEW g \in Covers(k)'
            PROVE  g < next'[t]
        <4>1. g \in Nat /\ g <= time
          BY <2>3, <2>8, <3>1
        <4> HIDE DEF time
        <4> QED BY <2>2, <2>9, <3>1, <4>1
      <3> QED BY <1>1, <2>9, <3>1
    <2>11. \A k \in RowsOf(t)' : \A g \in Covers(k)' : g <= clock'
      <3> HIDE DEF time
      <3> QED BY <1>1, <1>2, <2>2, <2>3, <2>8
    <2>12. \A j, k \in RowsOf(t)' : j # k => Covers(j)' \cap Covers(k)' = {}
      <3> SUFFICES ASSUME NEW j \in RowsOf(t)', NEW k \in RowsOf(t)', j # k,
                          NEW g \in Covers(j) \cap Covers(k)
                   PROVE  FALSE
        BY <2>3
      <3>t. j.task = t /\ k.task = t
        BY DEF RowsOf
      <3>1. CASE j \in RowsOf(t) /\ k \in RowsOf(t)
        BY <3>1 DEF TaskWindows
      <3>2. ASSUME NEW a \in RowsOf(t), NEW b \in draft[p], b.task = t,
                   NEW f \in Covers(a) \cap Covers(b)
            PROVE  FALSE
        <4>1. f \in Nat /\ f < from
          BY <2>7, <3>2
        <4>2. from <= f
          BY <2>6, <3>2
        <4> HIDE DEF from
        <4> QED BY <2>2, <4>1, <4>2
      <3>3. CASE j \in draft[p] /\ k \in draft[p]
        <4>1. CASE j.source = "missed" /\ k.source = "missed"
          BY <3>3, <3>t, <4>1 DEF PassInv, PassIsSound, DraftIsSound
        <4>2. CASE j.source # "missed" /\ k.source # "missed"
          BY <3>3, <3>t, <4>2 DEF PassInv, PassIsSound, OneRunPerTask
        <4>3. ASSUME NEW a \in draft[p], NEW b \in draft[p], a.task = t, b.task = t,
                     a.source = "missed", b.source # "missed", NEW f \in Covers(a) \cap Covers(b)
              PROVE  FALSE
          <5>1. f < latest /\ f = latest
            BY <2>5, <4>3
          <5> HIDE DEF latest
          <5> QED BY <2>2, <5>1
        <4> QED BY <3>3, <3>t, <4>1, <4>2, <4>3
      <3> QED BY <2>4, <3>t, <3>1, <3>2, <3>3
    <2> QED BY <1>1, <2>10, <2>11, <2>12 DEF TaskWindows, AllBefore
  <1> QED BY <1>3, <1>4

LEMMA StartPassWindows ==
    ASSUME ClockMissesWindows, ClockInv, TypeInv, TypeInv', NEW p \in Schedulers, StartPass(p),
           NEW t \in created, Steady(t), TaskWindows(t)
    PROVE  TaskWindows(t)'
  <1>1. /\ UNCHANGED <<clock, rows, sched, next>>
        /\ \A q \in Schedulers \ {p} : seen'[q] = seen[q]
        /\ t \in DOMAIN seen'[p] =>
              next[t] # Never /\ seen'[p][t] = [sched |-> sched[t], next |-> next[t]]
    BY DEF StartPass, TypeInv, taskVars, Due
  <1>2. \A k \in RowsOf(t) : Covers(k)' = Covers(k)
    BY <1>1, CoversKept DEF RowsOf
  <1>3. RowsOf(t)' = RowsOf(t)
    BY <1>1 DEF RowsOf
  <1>4. \A h : AllBefore(t, h)' <=> AllBefore(t, h)
    BY <1>2, <1>3 DEF AllBefore
  <1>5. t \in DOMAIN seen'[p] => /\ seen'[p][t].sched = sched[t]
                                 /\ seen'[p][t].next = next[t] /\ next[t] # Never
    BY <1>1
  <1> QED BY <1>1, <1>2, <1>3, <1>4, <1>5 DEF TaskWindows

LEMMA SteadyStays ==
    ASSUME TypeInv, Next, NEW t \in created, t \notin Editable
    PROVE  sched'[t] = sched[t] /\ t \in created' /\ (Steady(t)' <=> Steady(t))
  <1>1. ASSUME UserNext PROVE sched'[t] = sched[t] /\ t \in created'
    <2>1. ASSUME NEW u \in Tasks, NEW s \in Plans[u], NEW on \in BOOLEAN,
                 CreateTask(u, s, on) \/ UpdateTask(u, s, on)
          PROVE  sched'[t] = sched[t] /\ t \in created'
      <3>1. u # t
        BY <2>1 DEF CreateTask, UpdateTask
      <3> QED BY <2>1, <3>1 DEF CreateTask, UpdateTask, TypeInv, TaskTypes
    <2>2. ASSUME NEW u \in Tasks, SoftDeleteTask(u) \/ RequestStopTask(u) \/ RunNow(u)
          PROVE  sched'[t] = sched[t] /\ t \in created'
      BY <2>2 DEF SoftDeleteTask, RequestStopTask, RunNow, taskVars
    <2>3. ASSUME NEW s \in Sessions, DeleteSession(s) PROVE sched'[t] = sched[t] /\ t \in created'
      BY <2>3 DEF DeleteSession
    <2> QED BY <1>1, <2>1, <2>2, <2>3 DEF UserNext
  <1>2. ASSUME Tick \/ Boot \/ RowNext PROVE sched'[t] = sched[t] /\ t \in created'
    BY <1>2 DEF Tick, Boot, RowNext, StartRun, EndRun, taskVars
  <1>3. ASSUME NEW p \in Schedulers, StartPass(p) \/ Continue(p) \/ Crash(p) \/ Restart(p)
        PROVE  sched'[t] = sched[t] /\ t \in created'
    BY <1>3 DEF StartPass, Continue, PickTask, CheckOverlap, InsertRow, CommitPass,
       AbortDeadlocked, Crash, Restart, taskVars
  <1> QED BY <1>1, <1>2, <1>3 DEF Next, Steady

(* What the steps outside a pass do to a task that exists. *)
LEMMA OutsideWindows ==
    ASSUME TypeInv, Tick \/ Boot \/ UserNext \/ RowNext, NEW t \in created, t \notin Editable
    PROVE  /\ UNCHANGED seen /\ clock <= clock'
           /\ \A k \in RowsOf(t)' : k \in RowsOf(t) \/ k.source = "manual"
           /\ next'[t] \in {next[t], Never, NextRunAt(sched[t], clock)}
  <1>1. clock \in Nat /\ clock <= clock
    BY BoundsAssumption DEF TypeInv
  <1>2. t \in Tasks
    BY DEF TypeInv, TaskTypes
  <1>3. CASE Tick
    BY <1>1, <1>3, BoundsAssumption DEF Tick, RowsOf, taskVars, passVars
  <1>4. CASE Boot
    BY <1>1, <1>2, <1>4 DEF Boot, NormalizeNextRuns, RowsOf, passVars
  <1>5. CASE RowNext
    BY <1>1, <1>5 DEF RowNext, StartRun, EndRun, RowsOf, taskVars, passVars
  <1>6. ASSUME NEW u \in Tasks, RunNow(u)
        PROVE  \A k \in RowsOf(t)' : k \in RowsOf(t) \/ k.source = "manual"
    BY <1>6 DEF RunNow, Row, RowsOf
  <1>7. CASE UserNext
    <2>1. UNCHANGED <<seen, clock>>
      BY <1>7 DEF UserNext, CreateTask, UpdateTask, SoftDeleteTask, RequestStopTask, DeleteSession,
         RunNow, passVars
    <2>2. \A k \in RowsOf(t)' : k \in RowsOf(t) \/ k.source = "manual"
      BY <1>6, <1>7 DEF UserNext, CreateTask, UpdateTask, SoftDeleteTask, RequestStopTask,
         DeleteSession, CancelPending, RowsOf
    <2>3. next'[t] \in {next[t], Never}
      <3> SUFFICES ASSUME next'[t] # next[t] PROVE next'[t] = Never
        OBVIOUS
      <3>1. DOMAIN next = Tasks
        BY DEF TypeInv, TaskTypes
      <3>2. ASSUME NEW u \in Tasks, NEW s \in Plans[u], NEW on \in BOOLEAN,
                   CreateTask(u, s, on) \/ UpdateTask(u, s, on)
            PROVE  next'[t] = next[t]
        <4>1. u # t
          BY <3>2 DEF CreateTask, UpdateTask
        <4> QED BY <3>1, <3>2, <4>1, <1>2 DEF CreateTask, UpdateTask
      <3>3. ASSUME NEW u \in Tasks, RequestStopTask(u) PROVE next'[t] = Never
        BY <3>1, <3>3, <1>2 DEF RequestStopTask
      <3>4. ASSUME NEW u \in Tasks, SoftDeleteTask(u) \/ RunNow(u) PROVE next'[t] = next[t]
        BY <3>4 DEF SoftDeleteTask, RunNow, taskVars
      <3>5. ASSUME NEW s \in Sessions, DeleteSession(s) PROVE next'[t] = next[t]
        BY <3>5 DEF DeleteSession
      <3> QED BY <1>7, <3>2, <3>3, <3>4, <3>5 DEF UserNext
    <2> QED BY <1>1, <2>1, <2>2, <2>3
  <1> QED BY <1>3, <1>4, <1>5, <1>7

(* A task comes to exist by CreateTask. *)
LEMMA CreatedByRequest ==
    ASSUME Next, NEW t \in created', t \notin created
    PROVE  t \in Tasks /\ \E s \in Plans[t] : \E on \in BOOLEAN : CreateTask(t, s, on)
  <1>1. ASSUME NEW u \in Tasks, NEW s \in Plans[u], NEW on \in BOOLEAN, CreateTask(u, s, on)
        PROVE  u = t
    BY <1>1 DEF CreateTask
  <1>2. ASSUME UserNext, ~\E u \in Tasks : \E s \in Plans[u] : \E on \in BOOLEAN :
                             CreateTask(u, s, on)
        PROVE  created' = created
    BY <1>2 DEF UserNext, UpdateTask, SoftDeleteTask, RequestStopTask, DeleteSession, RunNow,
       taskVars
  <1>3. ASSUME Tick \/ Boot \/ RowNext PROVE created' = created
    BY <1>3 DEF Tick, Boot, RowNext, StartRun, EndRun, taskVars
  <1>4. ASSUME NEW p \in Schedulers, StartPass(p) \/ Crash(p) \/ Restart(p)
        PROVE  created' = created
    BY <1>4 DEF StartPass, Crash, Restart, taskVars
  <1>5. ASSUME NEW p \in Schedulers, Continue(p) PROVE created' = created
    BY <1>5 DEF Continue, PickTask, CheckOverlap, InsertRow, CommitPass, AbortDeadlocked, taskVars
  <1> QED BY <1>1, <1>2, <1>3, <1>4, <1>5 DEF Next

LEMMA NextWindows ==
    ASSUME OneScheduler, ClockMissesWindows, ClockInv, TypeInv, TypeInv', PassInv, WindowInv,
           [Next]_vars
    PROVE  WindowInv'
  <1>1. CASE UNCHANGED vars
    <2>1. UNCHANGED <<clock, sched, next, created, rows, seen>> /\ clock \in Nat
      BY <1>1, BoundsAssumption DEF vars, taskVars, passVars, TypeInv
    <2> SUFFICES ASSUME NEW t \in created, Steady(t) PROVE TaskWindows(t)'
      BY <2>1 DEF WindowInv, Steady
    <2>2. TaskWindows(t) /\ clock <= clock
      BY <2>1 DEF WindowInv
    <2>3. RowsOf(t)' = RowsOf(t)
      BY <2>1 DEF RowsOf
    <2> QED BY <2>1, <2>2, <2>3, QuietWindows
  <1>2. CASE Next
    <2> SUFFICES ASSUME NEW t \in created', Steady(t)' PROVE TaskWindows(t)'
      BY DEF WindowInv
    <2>1. CASE t \notin created
      <3>1. \E s \in Plans[t] : \E on \in BOOLEAN : CreateTask(t, s, on)
        BY <1>2, <2>1, CreatedByRequest
      <3>2. UNCHANGED <<clock, rows, seen>>
        BY <3>1 DEF CreateTask, passVars
      <3>3. RowsOf(t)' = {} /\ \A p \in Schedulers : t \notin DOMAIN seen'[p]
        BY <2>1, <3>2 DEF RowsOf, TypeInv, RowTypes, SeenTypes
      <3>4. t \in Tasks
        BY DEF TypeInv, TaskTypes
      <3>5. next'[t] # Never => next'[t] \in sched'[t].hits
        <4>1. PICK s \in Plans[t], on \in BOOLEAN : CreateTask(t, s, on)
          BY <3>1
        <4>2. sched'[t] = s /\ next'[t] \in {next[t], NextRunAt(s, clock)}
              /\ (~on => next'[t] = next[t]) /\ (on => next'[t] = NextRunAt(s, clock))
          BY <3>4, <4>1 DEF CreateTask, TypeInv, TaskTypes
        <4>3. s.kind = "cron"
          BY <4>2 DEF Steady
        <4>4. clock \in Nat
          BY BoundsAssumption DEF TypeInv
        <4>5. CASE on
          BY <3>4, <4>2, <4>3, <4>4, <4>5, CronNext
        <4>6. CASE ~on
          BY <2>1, <3>4, <4>2, <4>6 DEF TypeInv, TaskTypes
        <4> QED BY <4>5, <4>6
      <3> QED BY <3>3, <3>5 DEF TaskWindows, AllBefore
    <2>2. CASE t \in created
      <3>1. sched'[t] = sched[t] /\ Steady(t) /\ t \notin Editable
        BY <1>2, <2>2, SteadyStays DEF Steady
      <3>2. TaskWindows(t)
        BY <2>2, <3>1 DEF WindowInv
      <3>3. CASE Tick \/ Boot \/ UserNext \/ RowNext
        BY <2>2, <3>1, <3>2, <3>3, OutsideWindows, QuietWindows
      <3>4. ASSUME NEW p \in Schedulers, StartPass(p) PROVE TaskWindows(t)'
        BY <2>2, <3>1, <3>2, <3>4, StartPassWindows
      <3>5. ASSUME NEW p \in Schedulers, CommitPass(p) PROVE TaskWindows(t)'
        BY <2>2, <3>1, <3>2, <3>5, CommitWindows
      <3>6. ASSUME NEW p \in Schedulers, Crash(p) \/ Restart(p)
                   \/ (Continue(p) /\ ~CommitPass(p))
            PROVE  TaskWindows(t)'
        <4>1. /\ UNCHANGED <<clock, rows>> /\ clock \in Nat
              /\ next'[t] \in {next[t], Never, NextRunAt(sched[t], clock)}
              /\ \A q \in Schedulers : seen'[q] = seen[q] \/ DOMAIN seen'[q] = {}
          BY <2>2, <3>6, BoundsAssumption DEF TypeInv, TaskTypes, Crash, Restart, Continue,
             PickTask, CheckOverlap, InsertRow, AbortDeadlocked, EndPass, NoTasks,
             NormalizeNextRuns, taskVars
        <4>2. \A k \in RowsOf(t)' : k \in RowsOf(t)
          BY <4>1 DEF RowsOf
        <4> QED BY <2>2, <3>1, <3>2, <4>1, <4>2, QuietWindows
      <3> QED BY <1>2, <3>3, <3>4, <3>5, <3>6 DEF Next
    <2> QED BY <2>1, <2>2
  <1> QED BY <1>1, <1>2

-----------------------------------------------------------------------------
(* No window of a steady cron task has two verdicts, whatever crashes,       *)
(* restarts and late commits come between a pass's reading of next_run_at    *)
(* and its overwriting it, and even where the scan is cut short.            *)
THEOREM WindowsHaveOneVerdict ==
    ASSUME OneScheduler, ClockMissesWindows
    PROVE  Spec => []OneVerdictPerWindow
  <1> DEFINE IInv == TypeInv /\ PassInv /\ ClockInv /\ WindowInv
  <1>1. Init => IInv
    BY InitTypes, InitPassInv, InitClock, InitWindows
  <1>2. IInv /\ [Next]_vars => IInv'
    BY NextTypes, NextPassInv, NextClock, NextWindows
  <1>3. IInv => OneVerdictPerWindow
    <2> SUFFICES ASSUME IInv, NEW t \in Tasks, Steady(t), NEW j \in RowsOf(t), NEW k \in RowsOf(t),
                        j # k
                 PROVE  Covers(j) \cap Covers(k) = {}
      BY DEF OneVerdictPerWindow
    <2>1. t \in created
      BY DEF TypeInv, RowTypes, RowsOf
    <2> QED BY <2>1 DEF WindowInv, TaskWindows
  <1> QED BY <1>1, <1>2, <1>3, PTL DEF Spec

-----------------------------------------------------------------------------
(***************************************************************************)
(* No window is lost, as long as no process starts or dies.                *)
(***************************************************************************)

NoRestart == spent["crash"] = 0 /\ spent["boot"] = 0

Recorded(t) ==
    \A h \in sched[t].hits :
        /\ first[t] # Never /\ h >= first[t]
        /\ next[t] = Never \/ h < next[t]
        => \E k \in RowsOf(t) : h \in Covers(k)

(* Nobody moves the next time of a live task under the feet of a pass. *)
ReadIsCurrent(t) ==
    \A p \in Schedulers : t \in DOMAIN seen[p] => next[t] = seen[p][t].next

GapInv ==
    NoRestart =>
        /\ \A p \in Schedulers : pc[p] # "down"
        /\ \A t \in Tasks : Live(t) /\ Steady(t) => Recorded(t) /\ ReadIsCurrent(t)

LEMMA InitGap == Init => GapInv
  BY DEF Init, GapInv, Live

LEMMA RecordedKept ==
    ASSUME NEW t, Recorded(t),
           sched'[t] = sched[t], next'[t] = next[t], first'[t] = first[t],
           DOMAIN rows \subseteq DOMAIN rows'
    PROVE  Recorded(t)'
  <1>1. \A k \in RowsOf(t) : k \in RowsOf(t)' /\ Covers(k)' = Covers(k)
    BY CoversKept DEF RowsOf
  <1> QED BY <1>1 DEF Recorded

(* The commit leaves no window between the time it read and the one it writes. *)
LEMMA CommitLeavesNoGap ==
    ASSUME ScanSuffices, TypeInv, PassInv, NEW p \in Schedulers, CommitPass(p),
           NEW t \in DOMAIN seen[p], Steady(t), TaskWindows(t), Recorded(t),
           next[t] = seen[p][t].next
    PROVE  Recorded(t)'
  <1> DEFINE s == sched[t]
             from == seen[p][t].next
             latest == Window(p, t).latest
             time == now[p]
  <1>1. /\ pc[p] = "pick" /\ todo[p] = {}
        /\ DOMAIN rows' = DOMAIN rows \cup draft[p]
        /\ UNCHANGED <<sched, first>>
    BY DEF CommitPass, Queued
  <1>2. /\ seen[p][t].sched = s /\ from \in s.hits
    BY DEF TaskWindows
  <1>3. /\ t \in Tasks /\ s \in Plans[t] /\ s.kind = "cron"
        /\ from \in Nat /\ latest \in Nat /\ time \in 0 .. Horizon /\ time \in Nat
        /\ from <= latest
    BY <1>2, WindowType DEF Steady, TypeInv
  <1>4. next'[t] = NextRunAt(s, time)
    BY <1>2, <1>3 DEF CommitPass
  <1>5. \A k : k.task = t => Covers(k)' = Covers(k)
    BY <1>1, CoversKept
  <1>6. s.hits \subseteq Nat
    BY <1>3, PlanFacts
  <1> SUFFICES ASSUME NEW h \in s.hits, first[t] # Never, h >= first[t],
                      next'[t] = Never \/ h < next'[t]
               PROVE  \E k \in RowsOf(t)' : h \in Covers(k)
    BY <1>1, <1>5 DEF Recorded, RowsOf
  <1>7. CASE h < from
    <2>1. \E k \in RowsOf(t) : h \in Covers(k)
      BY <1>7 DEF Recorded
    <2> QED BY <2>1, <1>1 DEF RowsOf
  <1>8. CASE ~(h < from)
    <2>1. from <= h /\ h \in Nat
      BY <1>3, <1>6, <1>8
    <2>2. h <= time
      <3>1. h < time
        BY <1>3, <1>4, CronNext
      <3> HIDE DEF time
      <3> QED BY <3>1, <2>1, <1>3
    <2>3. h <= latest \/ h <= from
      BY <1>2, <1>3, <2>2, LatestIsLast DEF Window
    <2>4. h <= latest
      <3> HIDE DEF from, latest
      <3> QED BY <1>3, <2>1, <2>3
    <2>5. ~InHand(p, t) /\ t \in DOMAIN seen[p] \ todo[p]
      BY <1>1 DEF InHand, Working, Inserting
    <2>6. CASE h = latest
      <3>1. PICK k \in draft[p] \cup DOMAIN rows :
               k.task = t /\ k.at = latest /\ k.source \in Automatic \cup {"coalesced"}
        BY <2>5 DEF PassInv, PassIsSound, HandledHaveRows
      <3>2. k.source # "missed"
        BY <3>1 DEF Automatic
      <3>3. Covers(k) = {latest}
        <4> HIDE DEF s, from, latest
        <4> QED BY <1>2, <1>3, <3>1, <3>2, DraftCovers DEF s, from, latest
      <3> QED BY <1>1, <2>6, <3>1, <3>3 DEF RowsOf
    <2>7. CASE h < latest
      <3> DEFINE k == MissedRow(p, t)
      <3>1. Window(p, t).missed > 0
        <4>1. Cardinality(Until(s, from, h)) <= Window(p, t).missed
          BY <1>2, <1>3, <2>1, <2>7, MissedAreBeforeLatest DEF Window
        <4>2. IsFiniteSet(Until(s, from, h)) /\ Cardinality(Until(s, from, h)) \in Nat
          BY <1>3, UntilFinite
        <4>3. h \in Until(s, from, h)
          BY <2>1 DEF Until
        <4>4. Cardinality(Until(s, from, h)) # 0
          BY <4>2, <4>3, FS_EmptySet
        <4>5. Window(p, t).missed \in Nat
          BY WindowType
        <4> QED BY <4>1, <4>2, <4>4, <4>5
      <3>2. k \in draft[p] \cup DOMAIN rows
        BY <2>5, <3>1 DEF PassInv, PassIsSound, HandledHaveRows
      <3>3. k.task = t /\ k.source = "missed"
        BY DEF MissedRow, Row
      <3>4. Covers(k) = {g \in s.hits : from <= g /\ g < latest}
        <4> HIDE DEF s, from, latest, k
        <4> QED BY <1>2, <1>3, <3>3, DraftCovers DEF s, from, latest, k
      <3>5. h \in Covers(k)
        BY <2>1, <2>7, <3>4
      <3> QED BY <1>1, <3>2, <3>3, <3>5 DEF RowsOf
    <2> QED BY <1>3, <2>1, <2>4, <2>6, <2>7
  <1> QED BY <1>7, <1>8

(* A steady task that was withdrawn stays so, and only its own commit moves  *)
(* the next time of one that is live.                                       *)
LEMMA LiveSteadyStep ==
    ASSUME TypeInv, Next, NEW t \in created, t \notin Editable, Live(t)',
           ~Boot, \A p \in Schedulers : ~Restart(p)
    PROVE  /\ Live(t) /\ first'[t] = first[t]
           /\ \/ next'[t] = next[t]
              \/ \E p \in Schedulers : CommitPass(p)
  <1>1. t \in Tasks /\ DOMAIN next = Tasks /\ DOMAIN first = Tasks
    BY DEF TypeInv, TaskTypes
  <1>2. ASSUME UNCHANGED <<next, first, enabled, deleted>>
        PROVE  Live(t) /\ first'[t] = first[t] /\ next'[t] = next[t]
    BY <1>2 DEF Live
  <1>3. CASE Tick \/ RowNext
    BY <1>2, <1>3 DEF Tick, RowNext, StartRun, EndRun, taskVars
  <1>4. ASSUME NEW u \in Tasks, NEW s \in Plans[u], NEW on \in BOOLEAN,
               CreateTask(u, s, on) \/ UpdateTask(u, s, on)
        PROVE  Live(t) /\ first'[t] = first[t] /\ next'[t] = next[t]
    <2>1. u # t
      BY <1>4 DEF CreateTask, UpdateTask
    <2> QED BY <1>1, <1>4, <2>1 DEF CreateTask, UpdateTask, Live
  <1>5. ASSUME NEW u \in Tasks, SoftDeleteTask(u) \/ RequestStopTask(u) \/ RunNow(u)
        PROVE  Live(t) /\ first'[t] = first[t] /\ next'[t] = next[t]
    BY <1>1, <1>5 DEF SoftDeleteTask, RequestStopTask, RunNow, Live, taskVars
  <1>6. ASSUME NEW s \in Sessions, DeleteSession(s)
        PROVE  Live(t) /\ first'[t] = first[t] /\ next'[t] = next[t]
    BY <1>1, <1>6 DEF DeleteSession, Live
  <1>7. CASE UserNext
    BY <1>4, <1>5, <1>6, <1>7 DEF UserNext
  <1>8. ASSUME NEW p \in Schedulers, CommitPass(p)
        PROVE  Live(t) /\ first'[t] = first[t]
    BY <1>8 DEF CommitPass, Live
  <1>9. ASSUME NEW p \in Schedulers, StartPass(p) \/ Crash(p) \/ (Continue(p) /\ ~CommitPass(p))
        PROVE  Live(t) /\ first'[t] = first[t] /\ next'[t] = next[t]
    BY <1>2, <1>9 DEF StartPass, Crash, Continue, PickTask, CheckOverlap, InsertRow,
       AbortDeadlocked, taskVars
  <1> QED BY <1>3, <1>7, <1>8, <1>9 DEF Next

(* What is read of a task is dropped, or is its next time. *)
LEMMA ReadStaysCurrent ==
    ASSUME OneScheduler, TypeInv, Next, NEW t \in created, ReadIsCurrent(t),
           next'[t] = next[t] \/ \E p \in Schedulers : CommitPass(p)
    PROVE  ReadIsCurrent(t)'
  <1>1. CASE \E p \in Schedulers : CommitPass(p)
    BY <1>1 DEF ReadIsCurrent, CommitPass, EndPass, NoTasks, TypeInv, OneScheduler
  <1>2. CASE next'[t] = next[t] /\ ~\E p \in Schedulers : CommitPass(p)
    <2>1. \A p \in Schedulers : t \in DOMAIN seen'[p] =>
             seen'[p] = seen[p] \/ seen'[p][t].next = next[t]
      <3>1. ASSUME NEW q \in Schedulers, NEW label, EndPass(q, label), NEW p \in Schedulers
            PROVE  seen'[p] = seen[p] \/ DOMAIN seen'[p] = {}
        BY <3>1 DEF EndPass, NoTasks, TypeInv
      <3>2. ASSUME NEW q \in Schedulers, StartPass(q), NEW p \in Schedulers,
                   t \in DOMAIN seen'[p]
            PROVE  seen'[p] = seen[p] \/ seen'[p][t].next = next[t]
        BY <3>2 DEF StartPass, TypeInv
      <3>3. ASSUME NEW q \in Schedulers, Continue(q) \/ Crash(q) \/ Restart(q), NEW p \in Schedulers
            PROVE  seen'[p] = seen[p] \/ DOMAIN seen'[p] = {}
        BY <1>2, <3>1, <3>3 DEF Continue, PickTask, CheckOverlap, InsertRow, AbortDeadlocked, Crash,
           Restart
      <3>4. ASSUME Tick \/ Boot \/ UserNext \/ RowNext PROVE UNCHANGED seen
        BY <3>4 DEF Tick, Boot, UserNext, RowNext, CreateTask, UpdateTask, SoftDeleteTask,
           RequestStopTask, DeleteSession, RunNow, StartRun, EndRun, passVars
      <3> QED BY <3>2, <3>3, <3>4 DEF Next
    <2> QED BY <1>2, <2>1 DEF ReadIsCurrent
  <1> QED BY <1>1, <1>2

LEMMA NextGap ==
    ASSUME OneScheduler, ScanSuffices, TypeInv, PassInv, WindowInv, GapInv, [Next]_vars
    PROVE  GapInv'
  <1>1. CASE UNCHANGED vars
    <2>1. UNCHANGED <<sched, next, first, rows, seen, pc, spent, enabled, deleted>>
      BY <1>1 DEF vars, taskVars, passVars
    <2>2. \A t : (Recorded(t) => Recorded(t)') /\ (ReadIsCurrent(t) => ReadIsCurrent(t)')
      BY <2>1, RecordedKept DEF ReadIsCurrent
    <2> QED BY <2>1, <2>2 DEF GapInv, NoRestart, Live, Steady
  <1>2. CASE Next
    <2> SUFFICES ASSUME NoRestart' PROVE /\ \A p \in Schedulers : pc'[p] # "down"
                                         /\ \A t \in Tasks : Live(t)' /\ Steady(t)' =>
                                               Recorded(t)' /\ ReadIsCurrent(t)'
      BY DEF GapInv
    <2>1. spent \in [{"crash", "boot", "request"} -> Nat]
      BY SchedulesAssumption DEF TypeInv
    <2>2. ~Boot /\ (\A p \in Schedulers : ~Crash(p))
      BY <2>1 DEF Boot, Crash, Spend, NoRestart
    <2>3. NoRestart
      BY <1>2, <2>1, <2>2 DEF Next, NoRestart, UserNext, RowNext, Tick, StartPass, Continue, PickTask,
         CheckOverlap, InsertRow, CommitPass, AbortDeadlocked, Restart, CreateTask, UpdateTask,
         SoftDeleteTask, RequestStopTask, DeleteSession, RunNow, StartRun, EndRun, Spend
    <2>4. \A p \in Schedulers : pc[p] # "down"
      BY <2>3 DEF GapInv
    <2>5. \A p \in Schedulers : ~Restart(p)
      BY <2>4 DEF Restart
    <2>6. \A p, q \in Schedulers : ~AbortDeadlocked(p, q)
      BY DEF OneScheduler, AbortDeadlocked, WaitsFor
    <2>7. \A p \in Schedulers : pc'[p] # "down"
      <3>1. ASSUME UNCHANGED pc PROVE \A p \in Schedulers : pc'[p] # "down"
        BY <2>4, <3>1
      <3>2. CASE Tick \/ UserNext \/ RowNext
        BY <3>1, <3>2 DEF Tick, UserNext, RowNext, CreateTask, UpdateTask, SoftDeleteTask,
           RequestStopTask, DeleteSession, RunNow, StartRun, EndRun, passVars
      <3>3. ASSUME NEW q \in Schedulers, StartPass(q) \/ Continue(q)
            PROVE  \A p \in Schedulers : pc'[p] # "down"
        BY <2>4, <2>6, <3>3 DEF StartPass, Continue, PickTask, CheckOverlap, InsertRow, CommitPass,
           EndPass, TypeInv
      <3> QED BY <1>2, <2>2, <2>5, <3>2, <3>3 DEF Next
    <2>8. ASSUME NEW t \in Tasks, t \in created, Live(t)', Steady(t)'
          PROVE  Recorded(t)' /\ ReadIsCurrent(t)'
      <3>1. sched'[t] = sched[t] /\ Steady(t) /\ t \notin Editable
        BY <1>2, <2>8, SteadyStays DEF Steady
      <3>2. /\ Live(t) /\ first'[t] = first[t]
            /\ next'[t] = next[t] \/ \E p \in Schedulers : CommitPass(p)
        BY <1>2, <2>2, <2>5, <2>8, <3>1, LiveSteadyStep
      <3>3. Recorded(t) /\ ReadIsCurrent(t)
        BY <2>3, <3>1, <3>2 DEF GapInv
      <3>4. ReadIsCurrent(t)'
        BY <1>2, <2>8, <3>2, <3>3, ReadStaysCurrent
      <3>5. CASE next'[t] = next[t]
        <4>1. DOMAIN rows \subseteq DOMAIN rows'
          BY <1>2, KeysStay
        <4>2. Recorded(t)'
          BY <3>1, <3>2, <3>3, <3>5, <4>1, RecordedKept
        <4> QED BY <3>4, <4>2
      <3>6. ASSUME NEW p \in Schedulers, CommitPass(p), t \in DOMAIN seen[p]
            PROVE  Recorded(t)'
        <4>1. TaskWindows(t) /\ next[t] = seen[p][t].next
          BY <2>8, <3>1, <3>3, <3>6 DEF WindowInv, ReadIsCurrent
        <4> QED BY <3>1, <3>3, <3>6, <4>1, CommitLeavesNoGap
      <3>7. ASSUME NEW p \in Schedulers, CommitPass(p), t \notin DOMAIN seen[p]
            PROVE  next'[t] = next[t]
        BY <3>7 DEF CommitPass
      <3> QED BY <3>2, <3>4, <3>5, <3>6, <3>7
    <2>9. ASSUME NEW t \in Tasks, t \notin created, Live(t)', Steady(t)'
          PROVE  Recorded(t)' /\ ReadIsCurrent(t)'
      <3>1. t \in created'
        BY <1>2, <2>9, NextTypes DEF Live, TypeInv, TaskTypes
      <3>2. \E s \in Plans[t] : \E on \in BOOLEAN : CreateTask(t, s, on)
        BY <1>2, <2>9, <3>1, CreatedByRequest
      <3>3. UNCHANGED seen /\ first'[t] = next'[t]
        BY <3>2 DEF CreateTask, passVars, TypeInv, TaskTypes
      <3>4. ReadIsCurrent(t)'
        BY <2>9, <3>3 DEF ReadIsCurrent, TypeInv, SeenTypes
      <3>5. sched'[t].hits \subseteq Nat /\ next'[t] \in Nat \cup {Never}
        <4>1. TypeInv'
          BY <1>2, NextTypes
        <4>2. sched'[t] \in Plans[t] /\ next'[t] \in Nat \cup {Never}
          BY <3>1, <4>1 DEF TypeInv, TaskTypes
        <4> QED BY <4>2, PlanFacts
      <3>6. Recorded(t)'
        BY <3>3, <3>5 DEF Recorded
      <3> QED BY <3>4, <3>6
    <2> QED BY <2>7, <2>8, <2>9
  <1> QED BY <1>1, <1>2

(* While no process starts or dies, every window that a live steady cron     *)
(* task has had since it was created is in its history, however late the     *)
(* scheduler polls and whatever users request while it is in a pass.        *)
THEOREM NoWindowIsLost ==
    ASSUME OneScheduler, ClockMissesWindows, ScanSuffices
    PROVE  Spec => []NoGapWithoutRestart
  <1> DEFINE IInv == TypeInv /\ PassInv /\ ClockInv /\ WindowInv /\ GapInv
  <1>1. Init => IInv
    BY InitTypes, InitPassInv, InitClock, InitWindows, InitGap
  <1>2. IInv /\ [Next]_vars => IInv'
    BY NextTypes, NextPassInv, NextClock, NextWindows, NextGap
  <1>3. IInv => NoGapWithoutRestart
    BY DEF GapInv, NoRestart, Recorded, NoGapWithoutRestart, EveryWindowRecorded
  <1> QED BY <1>1, <1>2, <1>3, PTL DEF Spec
=============================================================================
