--------------------------- MODULE OccurrenceProofs ---------------------------
(***************************************************************************)
(* OccurrenceScheduler proved for any number of schedulers, tasks and       *)
(* users' requests, and any schedules: its types, and what protects a row.  *)
(* OccurrenceWindowProofs continues with the windows of schedules.          *)
(***************************************************************************)
EXTENDS OccurrenceScheduler, FiniteSetTheorems, TLAPS

(***************************************************************************)
(* Schedules.  Largest and smallest times exist although the community      *)
(* modules define them by CHOOSE; a scan that is cut short still returns    *)
(* times of the schedule.                                                  *)
(***************************************************************************)

(* A finite nonempty set of numbers has a largest and a smallest element: a  *)
(* least set without one would stay without one when an element is removed. *)
LEMMA ExtremesExist ==
    ASSUME NEW S \in SUBSET Int, IsFiniteSet(S), S # {}
    PROVE  /\ \E x \in S : \A y \in S : x >= y
           /\ \E x \in S : \A y \in S : x =< y
  <1> DEFINE Extremes(T) == /\ \E x \in T : \A y \in T : x >= y
                            /\ \E x \in T : \A y \in T : x =< y
             Bad == {T \in SUBSET S : T # {} /\ ~Extremes(T)}
  <1> SUFFICES ASSUME S \in Bad PROVE FALSE
    OBVIOUS
  <1>1. Bad \subseteq FiniteSubsetsOf(S)
    BY FS_FiniteSubsetsOfFinite
  <1>2. PICK T \in Bad : \A U \in Bad : <<U, T>> \notin StrictSubsetOrdering(S)
    BY <1>1, FS_StrictSubsetOrderingWellFounded, WFMin
  <1>3. PICK x \in T : TRUE
    OBVIOUS
  <1>4. T \ {x} \notin Bad
    <2>1. T \ {x} \in SUBSET S /\ T \in SUBSET S /\ T \ {x} \subseteq T /\ T \ {x} # T
      BY <1>3
    <2>2. <<T \ {x}, T>> \in StrictSubsetOrdering(S)
      BY <2>1 DEF StrictSubsetOrdering
    <2> QED BY <1>2, <2>2
  <1>5. CASE T = {x}
    BY <1>5
  <1>6. CASE T # {x}
    <2>1. Extremes(T \ {x})
      BY <1>3, <1>4, <1>6
    <2>2. PICK a, b \in T \ {x} : \A y \in T \ {x} : a >= y /\ b =< y
      BY <2>1
    <2>3. /\ \E u \in T : \A y \in T : u >= y
      BY <2>2, <1>3
    <2>4. \E u \in T : \A y \in T : u =< y
      BY <2>2, <1>3
    <2> QED BY <2>3, <2>4
  <1> QED BY <1>5, <1>6

LEMMA MaxIsLargest ==
    ASSUME NEW S \in SUBSET Int, IsFiniteSet(S), S # {}
    PROVE  Max(S) \in S /\ \A x \in S : x <= Max(S)
  BY ExtremesExist DEF Max

LEMMA MinIsSmallest ==
    ASSUME NEW S \in SUBSET Int, IsFiniteSet(S), S # {}
    PROVE  Min(S) \in S /\ \A x \in S : Min(S) <= x
  BY ExtremesExist DEF Min

LEMMA PlanFacts ==
    ASSUME NEW t \in Tasks, NEW s \in Plans[t]
    PROVE  /\ s.kind \in {"once", "interval", "cron"}
           /\ s.hits \subseteq Nat /\ IsFiniteSet(s.hits)
           /\ s.kind = "interval" => s.every \in Nat \ {0}
  BY SchedulesAssumption

LEMMA NextRunAtType ==
    ASSUME NEW t \in Tasks, NEW s \in Plans[t], NEW time \in Nat
    PROVE  NextRunAt(s, time) \in Nat \cup {Never}
  <1> DEFINE ahead == {h \in s.hits : IF s.kind = "cron" THEN h >= time ELSE h > time}
  <1>1. ahead \subseteq Nat /\ IsFiniteSet(ahead)
    BY PlanFacts, FS_Subset
  <1>2. ahead # {} => Min(ahead) \in Nat
    BY <1>1, MinIsSmallest
  <1> QED BY <1>2, PlanFacts DEF NextRunAt

(* The next time of a cron schedule is the first one that is not over. *)
LEMMA CronNext ==
    ASSUME NEW t \in Tasks, NEW s \in Plans[t], s.kind = "cron", NEW time \in Nat
    PROVE  LET n == NextRunAt(s, time)
           IN  \/ n = Never /\ \A h \in s.hits : h < time
               \/ n # Never /\ n \in s.hits /\ n >= time
                            /\ \A h \in s.hits : h < n => h < time
  <1> DEFINE ahead == {h \in s.hits : h >= time}
  <1>1. ahead \subseteq Nat /\ IsFiniteSet(ahead) /\ s.hits \subseteq Nat
    BY PlanFacts, FS_Subset
  <1>2. NextRunAt(s, time) = IF ahead = {} THEN Never ELSE Min(ahead)
    BY DEF NextRunAt
  <1>3. CASE ahead = {}
    BY <1>1, <1>2, <1>3
  <1>4. CASE ahead # {}
    <2>1. Min(ahead) \in ahead /\ \A h \in ahead : Min(ahead) <= h
      BY <1>1, <1>4, MinIsSmallest
    <2>2. Min(ahead) # Never
      BY <1>1, <2>1, SchedulesAssumption
    <2>3. \A h \in s.hits : h < Min(ahead) => h < time
      BY <1>1, <2>1
    <2> QED BY <1>2, <1>4, <2>1, <2>2, <2>3
  <1> QED BY <1>3, <1>4

LEMMA DueAfterType ==
    ASSUME NEW t \in Tasks, NEW s \in Plans[t], NEW from \in Nat, NEW time \in Nat
    PROVE  /\ IsFiniteSet(DueAfter(s, from, time))
           /\ DueAfter(s, from, time) \subseteq from + 1 .. time
  <1>1. DueAfter(s, from, time) \subseteq from + 1 .. time
    BY PlanFacts DEF DueAfter
  <1>2. IsFiniteSet(from + 1 .. time)
    BY FS_Interval
  <1> QED BY <1>1, <1>2, FS_Subset

LEMMA LatestDueWindowType ==
    ASSUME NEW t \in Tasks, NEW s \in Plans[t], NEW from \in Nat, NEW time \in Nat
    PROVE  LET w == LatestDueWindow(s, from, time)
               due == DueAfter(s, from, time)
           IN  /\ w.latest \in Nat /\ w.missed \in Nat
               /\ w.latest \in due \cup {from}
               /\ \A h \in due \cup {from} : h <= w.latest
               /\ w.missed = Cardinality(due)
               /\ Cardinality(due \cup {from}) = w.missed + 1
               /\ from <= w.latest
               /\ from <= time => w.latest <= time
  <1> DEFINE due == DueAfter(s, from, time)
  <1>1. IsFiniteSet(due) /\ due \subseteq from + 1 .. time
    BY DueAfterType
  <1>2. IsFiniteSet(due \cup {from}) /\ Cardinality(due \cup {from}) = Cardinality(due) + 1
    BY <1>1, FS_AddElement
  <1>3. Cardinality(due) \in Nat
    BY <1>1, FS_CardinalityType
  <1>4. /\ Max(due \cup {from}) \in due \cup {from}
        /\ \A h \in due \cup {from} : h <= Max(due \cup {from})
    <2>1. due \cup {from} \in SUBSET Int /\ due \cup {from} # {}
      BY <1>1
    <2> HIDE DEF due
    <2> QED BY <1>2, <2>1, MaxIsLargest
  <1>5. \A h \in due \cup {from} : h \in Nat /\ (from <= time => h <= time)
    <2> HIDE DEF due
    <2>1. \A h \in from + 1 .. time : h \in Nat /\ h <= time
      OBVIOUS
    <2> QED BY <1>1, <2>1
  <1> QED BY <1>2, <1>3, <1>4, <1>5 DEF LatestDueWindow, due

(* The windows from its first to h. *)
Until(s, from, h) == {g \in s.hits : from <= g /\ g <= h}

LEMMA UntilFinite ==
    ASSUME NEW t \in Tasks, NEW s \in Plans[t], NEW from, NEW h
    PROVE  IsFiniteSet(Until(s, from, h)) /\ Cardinality(Until(s, from, h)) \in Nat
  BY PlanFacts, FS_Subset, FS_CardinalityType DEF Until

(* Of a cron task, a summary of missed windows counts exactly those before   *)
(* the latest one, whether or not the scan reached its limit.               *)
LEMMA MissedAreBeforeLatest ==
    ASSUME NEW t \in Tasks, NEW s \in Plans[t], s.kind = "cron",
           NEW time \in Nat, NEW from \in s.hits, NEW h \in s.hits, from <= h
    PROVE  LET w == LatestDueWindow(s, from, time)
           IN  Cardinality(Until(s, from, h)) <= w.missed <=> h < w.latest
  <1> DEFINE due == DueAfter(s, from, time)
             w == LatestDueWindow(s, from, time)
             all == {g \in s.hits : from < g /\ g <= time}
             rank(g) == {f \in all : f <= g}
  <1>1. s.hits \subseteq Nat /\ IsFiniteSet(s.hits) /\ from \in Nat /\ h \in Nat
    BY PlanFacts
  <1>2. IsFiniteSet(due) /\ due \subseteq from + 1 .. time
    BY <1>1, DueAfterType
  <1>3. /\ w.latest \in Nat /\ w.missed \in Nat /\ w.latest \in due \cup {from}
        /\ \A g \in due \cup {from} : g <= w.latest
        /\ Cardinality(due \cup {from}) = w.missed + 1
    <2>1. from \in Nat
      BY <1>1
    <2>2. w.latest \in Nat /\ w.missed \in Nat
      BY <2>1, LatestDueWindowType
    <2>3. w.latest \in due \cup {from}
      BY <2>1, LatestDueWindowType
    <2>4. \A g \in due \cup {from} : g <= w.latest
      BY <2>1, LatestDueWindowType
    <2>5. Cardinality(due \cup {from}) = w.missed + 1
      BY <2>1, LatestDueWindowType
    <2> QED BY <2>2, <2>3, <2>4, <2>5
  <1>4. due = {g \in all : Cardinality(rank(g)) <= ScanLimit}
    BY DEF DueAfter
  <1>5. IsFiniteSet(due \cup {from})
    BY <1>2, FS_AddElement
  <1>6. IsFiniteSet(Until(s, from, h)) /\ Cardinality(Until(s, from, h)) \in Nat
    BY UntilFinite
  <1>7. ASSUME w.latest <= h PROVE Cardinality(Until(s, from, h)) > w.missed
    <2>1. due \cup {from} \subseteq Until(s, from, h)
      BY <1>1, <1>2, <1>3, <1>4, <1>7 DEF Until
    <2>2. Cardinality(due \cup {from}) <= Cardinality(Until(s, from, h))
      BY <2>1, <1>6, FS_Subset
    <2> QED BY <2>2, <1>3, <1>6
  <1>8. ASSUME h < w.latest PROVE Cardinality(Until(s, from, h)) <= w.missed
    <2>1. w.latest \in due
      BY <1>1, <1>3, <1>8
    <2>2. ASSUME NEW g \in Until(s, from, h), g # from PROVE g \in due
      <3>1. g \in all /\ g <= w.latest
        BY <1>1, <1>2, <1>3, <1>8, <2>1, <2>2 DEF Until
      <3>2. rank(g) \subseteq rank(w.latest)
        BY <1>1, <1>3, <3>1
      <3>3. IsFiniteSet(rank(w.latest))
        BY <1>1, FS_Subset
      <3>4. Cardinality(rank(g)) <= Cardinality(rank(w.latest))
        BY <3>2, <3>3, FS_Subset
      <3>5. Cardinality(rank(w.latest)) <= ScanLimit
        BY <1>4, <2>1
      <3>6. Cardinality(rank(g)) \in Nat /\ Cardinality(rank(w.latest)) \in Nat
        BY <3>2, <3>3, FS_Subset, FS_CardinalityType
      <3>7. Cardinality(rank(g)) <= ScanLimit
        BY <3>4, <3>5, <3>6, BoundsAssumption
      <3> QED BY <1>4, <3>1, <3>7
    <2>3. Until(s, from, h) \subseteq (due \cup {from}) \ {w.latest}
      BY <1>1, <1>3, <1>8, <2>2 DEF Until
    <2>4. /\ IsFiniteSet((due \cup {from}) \ {w.latest})
          /\ Cardinality((due \cup {from}) \ {w.latest}) = w.missed
      <3>1. Cardinality((due \cup {from}) \ {w.latest}) = Cardinality(due \cup {from}) - 1
        BY <1>3, <1>5, FS_RemoveElement
      <3>2. IsFiniteSet((due \cup {from}) \ {w.latest})
        BY <1>5, FS_RemoveElement
      <3> QED BY <1>3, <3>1, <3>2
    <2> QED BY <2>3, <2>4, FS_Subset
  <1> QED BY <1>1, <1>3, <1>6, <1>7, <1>8

(* Windows up to the model's horizon that a scan can see in one go. *)
ScanSuffices ==
    \A t \in Tasks : \A s \in Plans[t] :
        s.kind = "cron" => Cardinality({h \in s.hits : h <= Horizon}) <= ScanLimit

(* A scan that is not cut short ends at the last window that was due. *)
LEMMA LatestIsLast ==
    ASSUME ScanSuffices,
           NEW t \in Tasks, NEW s \in Plans[t], s.kind = "cron",
           NEW time \in 0 .. Horizon, NEW from \in Nat, NEW h \in s.hits, h <= time
    PROVE  h <= LatestDueWindow(s, from, time).latest \/ h <= from
  <1> DEFINE due == DueAfter(s, from, time)
             all == {g \in s.hits : from < g /\ g <= time}
             seeable == {g \in s.hits : g <= Horizon}
             rank == {f \in all : f <= h}
  <1> SUFFICES ASSUME from < h PROVE h <= LatestDueWindow(s, from, time).latest
    BY PlanFacts
  <1>1. s.hits \subseteq Nat /\ IsFiniteSet(s.hits) /\ h \in Nat
        /\ time \in Nat /\ time <= Horizon
    BY PlanFacts, BoundsAssumption
  <1>2. \A g \in due \cup {from} : g <= LatestDueWindow(s, from, time).latest
    BY <1>1, LatestDueWindowType
  <1>3. rank \subseteq seeable
    BY <1>1, BoundsAssumption
  <1>4. IsFiniteSet(seeable) /\ Cardinality(seeable) \in Nat
    BY <1>1, FS_Subset, FS_CardinalityType
  <1>5. Cardinality(rank) <= Cardinality(seeable) /\ Cardinality(rank) \in Nat
    BY <1>3, <1>4, FS_Subset, FS_CardinalityType
  <1>6. Cardinality(seeable) <= ScanLimit
    BY DEF ScanSuffices
  <1>7. Cardinality(rank) <= ScanLimit
    BY <1>4, <1>5, <1>6, BoundsAssumption
  <1>8. h \in due
    BY <1>1, <1>7 DEF DueAfter
  <1> QED BY <1>2, <1>8

-----------------------------------------------------------------------------
(***************************************************************************)
(* Types.  TypeInv adds what TypeOK leaves open: a pass has read tasks that  *)
(* exist and were due, handles one of them while it is Working, and has     *)
(* drafted rows of tasks it has come to.                                   *)
(***************************************************************************)

(* Where a row comes from; where a pass is while it has a task in hand. *)
Sources == Automatic \cup {"manual", "missed", "coalesced"}
Working == Inserting \cup {"overlap"}
(* The types of TypeOK and those of the variables it leaves open.            *)
RowTypes ==
    \A k \in DOMAIN rows :
        /\ k \in [task : created, source : Sources, at : Nat, count : Nat]
        /\ rows[k] \in Active \cup {"ended", "skipped"}
        /\ rows[k] = "skipped" <=> k.source \in {"missed", "coalesced"}

TaskTypes ==
    /\ DOMAIN sched = Tasks /\ \A t \in created : sched[t] \in Plans[t]
    /\ next \in [Tasks -> Nat \cup {Never}]
    /\ \A t \in Tasks \ created : next[t] = Never
    /\ first \in [Tasks -> Nat \cup {Never}]
    /\ created \subseteq Tasks
    /\ enabled \subseteq created /\ deleted \subseteq created
    /\ closed \subseteq Sessions

(* What a pass remembers; it has cur to handle while it is Working. *)
SeenTypes(p) ==
    /\ now[p] <= clock
    /\ DOMAIN seen[p] \subseteq created
    /\ \A t \in DOMAIN seen[p] : /\ seen[p][t].sched \in Plans[t]
                                 /\ seen[p][t].next \in 0 .. now[p]

DraftTypes(p) ==
    draft[p] \subseteq [task : DOMAIN seen[p], source : Sources \ {"manual"},
                        at : Nat, count : Nat]

PassTypes(p) ==
    /\ todo[p] \subseteq DOMAIN seen[p]
    /\ pc[p] \in Working => cur[p] \in DOMAIN seen[p] \ todo[p]
    /\ pc[p] \in {"down", "idle"} => draft[p] = {}

TypeInv ==
    /\ clock \in 0 .. Horizon
    /\ spent \in [DOMAIN Limit -> Nat]
    /\ \A what \in DOMAIN Limit : spent[what] <= Limit[what]
    /\ pc \in [Schedulers -> {"down", "idle", "pick"} \cup Working]
    /\ now \in [Schedulers -> 0 .. Horizon]
    /\ DOMAIN seen = Schedulers /\ DOMAIN todo = Schedulers
    /\ DOMAIN cur = Schedulers /\ DOMAIN draft = Schedulers
    /\ TaskTypes /\ RowTypes
    /\ \A p \in Schedulers : SeenTypes(p) /\ DraftTypes(p) /\ PassTypes(p)

LEMMA InitTypes == Init => TypeInv
  <1> SUFFICES ASSUME Init PROVE TypeInv
    OBVIOUS
  <1>1. TaskTypes /\ RowTypes
    BY DEF Init, TaskTypes, RowTypes
  <1>2. \A p \in Schedulers : SeenTypes(p) /\ DraftTypes(p) /\ PassTypes(p)
    BY DEF Init, SeenTypes, DraftTypes, PassTypes, NoTasks, Working, Inserting
  <1>3. clock \in 0 .. Horizon /\ now \in [Schedulers -> 0 .. Horizon]
    BY BoundsAssumption DEF Init
  <1>4. /\ spent \in [DOMAIN Limit -> Nat]
        /\ \A what \in DOMAIN Limit : spent[what] <= Limit[what]
    BY SchedulesAssumption DEF Init
  <1> QED BY <1>1, <1>2, <1>3, <1>4 DEF Init, TypeInv

LEMMA TypesSuffice == TypeInv => TypeOK
  <1> SUFFICES ASSUME TypeInv PROVE TypeOK
    OBVIOUS
  <1>1. \A k \in DOMAIN rows :
          /\ k.task \in created /\ k.at \in Nat /\ k.count \in Nat
          /\ k.source \in Automatic \cup {"manual", "missed", "coalesced"}
          /\ rows[k] \in Active \cup {"ended", "skipped"}
          /\ rows[k] = "skipped" <=> k.source \in {"missed", "coalesced"}
    BY DEF TypeInv, RowTypes, Sources
  <1>2. pc \in [Schedulers -> {"down", "idle", "pick", "missed", "overlap",
                               "coalesced", "scheduled", "catch_up"}]
    BY DEF TypeInv, Working, Inserting
  <1>3. \A what \in DOMAIN Limit : spent[what] \in 0 .. Limit[what]
    BY SchedulesAssumption DEF TypeInv
  <1>4. \A p \in Schedulers : todo[p] \subseteq DOMAIN seen[p] /\ (pc[p] = "idle" => draft[p] = {})
    BY DEF TypeInv, PassTypes
  <1> QED BY <1>1, <1>2, <1>3, <1>4 DEF TypeInv, TypeOK, TaskTypes

(* What a pass computes has the types of a row. *)
LEMMA WindowType ==
    ASSUME TypeInv, NEW p \in Schedulers, NEW t \in DOMAIN seen[p]
    PROVE  /\ t \in Tasks /\ t \in created
           /\ seen[p][t].sched \in Plans[t] /\ seen[p][t].next \in Nat
           /\ now[p] \in Nat /\ seen[p][t].next <= now[p]
           /\ Window(p, t).latest \in Nat /\ Window(p, t).missed \in Nat
           /\ seen[p][t].next <= Window(p, t).latest /\ Window(p, t).latest <= now[p]
  <1>1. /\ t \in Tasks /\ t \in created
        /\ seen[p][t].sched \in Plans[t] /\ seen[p][t].next \in Nat
        /\ now[p] \in Nat /\ seen[p][t].next <= now[p]
    BY BoundsAssumption DEF TypeInv, TaskTypes, SeenTypes
  <1> DEFINE w(s, from, time) == LatestDueWindow(s, from, time)
  <1>2. \A s \in Plans[t] : \A from, time \in Nat :
           /\ w(s, from, time).latest \in Nat /\ w(s, from, time).missed \in Nat
           /\ from <= w(s, from, time).latest
           /\ from <= time => w(s, from, time).latest <= time
    BY <1>1, LatestDueWindowType
  <1> QED BY <1>1, <1>2 DEF Window

LEMMA NewRowType ==
    ASSUME TypeInv, NEW p \in Schedulers, pc[p] \in Inserting
    PROVE  NewRow(p) \in [task : DOMAIN seen[p], source : Sources \ {"manual"},
                          at : Nat, count : Nat]
  <1>1. cur[p] \in DOMAIN seen[p]
    BY DEF TypeInv, PassTypes, Working
  <1>2. /\ seen[p][cur[p]].next \in Nat
        /\ Window(p, cur[p]).latest \in Nat /\ Window(p, cur[p]).missed \in Nat
    BY <1>1, WindowType
  <1> QED BY <1>1, <1>2 DEF NewRow, Row, Inserting, Sources, Automatic

LEMMA SpendTypes ==
    ASSUME TypeInv, NEW what \in {"crash", "boot", "request"}, Spend(what)
    PROVE  /\ spent' \in [DOMAIN Limit -> Nat]
           /\ \A w \in DOMAIN Limit : spent'[w] <= Limit[w]
  <1>1. Limit \in [DOMAIN Limit -> Nat] /\ what \in DOMAIN Limit
    BY SchedulesAssumption
  <1> QED BY <1>1 DEF TypeInv, Spend

(* Tasks and rows may change while a pass is under way. *)
LEMMA PassesKeepTypes ==
    ASSUME TypeInv, UNCHANGED passVars, created \subseteq created',
           clock \in Nat, clock' \in Nat, clock <= clock',
           NEW p \in Schedulers
    PROVE  SeenTypes(p)' /\ DraftTypes(p)' /\ PassTypes(p)'
  <1>1. SeenTypes(p)'
    <2>1. SeenTypes(p) /\ now[p] \in Nat
      BY BoundsAssumption DEF TypeInv
    <2> QED BY <2>1 DEF SeenTypes, passVars
  <1> QED BY <1>1 DEF TypeInv, DraftTypes, PassTypes, passVars

LEMMA RowsKeepTypes ==
    ASSUME TypeInv, created \subseteq created', DOMAIN rows' = DOMAIN rows,
           \A k \in DOMAIN rows :
              rows'[k] = rows[k] \/ (rows[k] \in Active /\ rows'[k] \in Active \cup {"ended"})
    PROVE  RowTypes'
  BY DEF TypeInv, RowTypes, Active

LEMMA NormalizeTypes ==
    ASSUME TypeInv, NormalizeNextRuns
    PROVE  /\ next' \in [Tasks -> Nat \cup {Never}]
           /\ \A t \in Tasks \ created : next'[t] = Never
  <1>1. \A t \in Tasks : Live(t) => NextRunAt(sched[t], clock) \in Nat \cup {Never}
    BY NextRunAtType, BoundsAssumption DEF TypeInv, TaskTypes, Live
  <1> QED BY <1>1 DEF TypeInv, TaskTypes, NormalizeNextRuns, Live

(* The end of a pass, by commit or by death. *)
LEMMA EndPassTypes ==
    ASSUME TypeInv, NEW p \in Schedulers, NEW label \in {"down", "idle"}, EndPass(p, label),
           UNCHANGED <<clock, created>>
    PROVE  /\ pc' \in [Schedulers -> {"down", "idle", "pick"} \cup Working]
           /\ now' \in [Schedulers -> 0 .. Horizon]
           /\ DOMAIN seen' = Schedulers /\ DOMAIN todo' = Schedulers
           /\ DOMAIN cur' = Schedulers /\ DOMAIN draft' = Schedulers
           /\ \A q \in Schedulers : SeenTypes(q)' /\ DraftTypes(q)' /\ PassTypes(q)'
  <1>1. /\ pc' \in [Schedulers -> {"down", "idle", "pick"} \cup Working]
        /\ now' \in [Schedulers -> 0 .. Horizon]
        /\ DOMAIN seen' = Schedulers /\ DOMAIN todo' = Schedulers
        /\ DOMAIN cur' = Schedulers /\ DOMAIN draft' = Schedulers
    BY BoundsAssumption DEF EndPass, TypeInv
  <1>2. \A q \in Schedulers \ {p} : SeenTypes(q)' /\ DraftTypes(q)' /\ PassTypes(q)'
    BY DEF EndPass, TypeInv, SeenTypes, DraftTypes, PassTypes
  <1>3. SeenTypes(p)' /\ DraftTypes(p)' /\ PassTypes(p)'
    BY DEF EndPass, TypeInv, SeenTypes, DraftTypes, PassTypes, NoTasks, Working, Inserting
  <1> QED BY <1>1, <1>2, <1>3

LEMMA StartPassTypes ==
    ASSUME TypeInv, NEW p \in Schedulers, StartPass(p)
    PROVE  TypeInv'
  <1> DEFINE due == {t \in Tasks : Due(t, clock)}
  <1>1. /\ seen' = [seen EXCEPT ![p] = [t \in due |-> [sched |-> sched[t], next |-> next[t]]]]
        /\ todo' = [todo EXCEPT ![p] = due]
        /\ now' = [now EXCEPT ![p] = clock] /\ pc' = [pc EXCEPT ![p] = "pick"]
        /\ UNCHANGED <<clock, taskVars, rows, cur, draft, spent>>
        /\ pc[p] = "idle"
    BY DEF StartPass
  <1>2. \A t \in due : t \in created /\ sched[t] \in Plans[t] /\ next[t] \in 0 .. clock
    BY BoundsAssumption DEF TypeInv, TaskTypes, Due, Live
  <1>3. SeenTypes(p)' /\ DraftTypes(p)' /\ PassTypes(p)'
    <2> HIDE DEF due
    <2>1. draft[p] = {}
      BY <1>1 DEF TypeInv, PassTypes
    <2>2. clock \in Nat
      BY BoundsAssumption DEF TypeInv
    <2> QED BY <1>1, <1>2, <2>1, <2>2 DEF TypeInv, SeenTypes, DraftTypes, PassTypes, Working,
               Inserting, taskVars
  <1>4. \A q \in Schedulers \ {p} : SeenTypes(q)' /\ DraftTypes(q)' /\ PassTypes(q)'
    BY <1>1 DEF TypeInv, SeenTypes, DraftTypes, PassTypes, taskVars
  <1>5. TaskTypes' /\ RowTypes'
    BY <1>1 DEF TypeInv, TaskTypes, RowTypes, taskVars
  <1> QED BY <1>1, <1>3, <1>4, <1>5 DEF TypeInv

LEMMA ContinueTypes ==
    ASSUME TypeInv, NEW p \in Schedulers, Continue(p)
    PROVE  TypeInv'
  <1>1. ASSUME NEW t \in Tasks, PickTask(p, t) PROVE TypeInv'
    <2>1. /\ todo' = [todo EXCEPT ![p] = @ \ {t}] /\ cur' = [cur EXCEPT ![p] = t]
          /\ pc' = [pc EXCEPT ![p] = IF Window(p, t).missed > 0 THEN "missed" ELSE "overlap"]
          /\ UNCHANGED <<clock, taskVars, rows, now, seen, draft, spent>>
          /\ t \in todo[p]
      BY <1>1 DEF PickTask
    <2>2. \A q \in Schedulers : SeenTypes(q)' /\ DraftTypes(q)'
      BY <2>1 DEF TypeInv, SeenTypes, DraftTypes, taskVars
    <2>3. \A q \in Schedulers : PassTypes(q)'
      BY <2>1 DEF TypeInv, PassTypes, Working, Inserting
    <2>4. TaskTypes' /\ RowTypes'
      BY <2>1 DEF TypeInv, TaskTypes, RowTypes, taskVars
    <2> QED BY <2>1, <2>2, <2>3, <2>4 DEF TypeInv, Working, Inserting
  <1>2. CASE CheckOverlap(p)
    <2>1. /\ pc[p] = "overlap"
          /\ \E label \in Inserting : pc' = [pc EXCEPT ![p] = label]
          /\ UNCHANGED <<clock, taskVars, rows, now, seen, todo, cur, draft, spent>>
      BY <1>2 DEF CheckOverlap, Inserting
    <2>2. \A q \in Schedulers : SeenTypes(q)' /\ DraftTypes(q)' /\ PassTypes(q)'
      BY <2>1 DEF TypeInv, SeenTypes, DraftTypes, PassTypes, Working, Inserting, taskVars
    <2>3. TaskTypes' /\ RowTypes'
      BY <2>1 DEF TypeInv, TaskTypes, RowTypes, taskVars
    <2> QED BY <2>1, <2>2, <2>3 DEF TypeInv, Working
  <1>3. CASE InsertRow(p)
    <2>1. /\ pc[p] \in Inserting
          /\ draft' = [draft EXCEPT ![p] = @ \cup ({NewRow(p)} \ DOMAIN rows)]
          /\ pc' = [pc EXCEPT ![p] = IF @ = "missed" THEN "overlap" ELSE "pick"]
          /\ UNCHANGED <<clock, taskVars, rows, now, seen, todo, cur, spent>>
      BY <1>3 DEF InsertRow
    <2>2. \A q \in Schedulers : SeenTypes(q)' /\ PassTypes(q)'
      BY <2>1 DEF TypeInv, SeenTypes, PassTypes, Working, Inserting, taskVars
    <2>3. \A q \in Schedulers : DraftTypes(q)'
      BY <2>1, NewRowType DEF TypeInv, DraftTypes
    <2>4. TaskTypes' /\ RowTypes'
      BY <2>1 DEF TypeInv, TaskTypes, RowTypes, taskVars
    <2> QED BY <2>1, <2>2, <2>3, <2>4 DEF TypeInv, Working
  <1>4. CASE CommitPass(p)
    <2>1. /\ rows' = Queued(draft[p])
          /\ EndPass(p, "idle")
          /\ UNCHANGED <<clock, sched, created, enabled, deleted, closed, first, spent>>
      BY <1>4 DEF CommitPass
    <2>2. RowTypes'
      <3>1. \A k \in draft[p] : k \in [task : created, source : Sources, at : Nat, count : Nat]
                                /\ k.source # "manual"
        BY DEF TypeInv, DraftTypes, SeenTypes
      <3> QED BY <2>1, <3>1 DEF Queued, RowTypes, TypeInv, Sources, Automatic, Active
    <2>3. next' \in [Tasks -> Nat \cup {Never}]
      <3>1. \A t \in DOMAIN seen[p] : NextRunAt(seen[p][t].sched, now[p]) \in Nat \cup {Never}
        BY WindowType, NextRunAtType
      <3> QED BY <1>4, <3>1 DEF CommitPass, TypeInv, TaskTypes
    <2>4. \A t \in Tasks \ created : next'[t] = Never
      BY <1>4 DEF CommitPass, TypeInv, TaskTypes, SeenTypes
    <2>5. TaskTypes'
      BY <2>1, <2>3, <2>4 DEF TypeInv, TaskTypes
    <2> QED BY <2>1, <2>2, <2>5, EndPassTypes DEF TypeInv
  <1>5. ASSUME NEW q \in Schedulers, AbortDeadlocked(p, q) PROVE TypeInv'
    <2>1. EndPass(p, "down") /\ UNCHANGED <<clock, taskVars, rows, spent>>
      BY <1>5 DEF AbortDeadlocked
    <2>2. TaskTypes' /\ RowTypes'
      BY <2>1 DEF TypeInv, TaskTypes, RowTypes, taskVars
    <2> QED BY <2>1, <2>2, EndPassTypes DEF TypeInv, taskVars
  <1> QED BY <1>1, <1>2, <1>3, <1>4, <1>5 DEF Continue

LEMMA ProcessTypes ==
    ASSUME TypeInv, Boot \/ \E p \in Schedulers : Crash(p) \/ Restart(p)
    PROVE  TypeInv'
  <1>1. CASE Boot
    <2>1. UNCHANGED <<clock, sched, created, enabled, deleted, closed, first, rows, passVars>>
      BY <1>1 DEF Boot
    <2>2. clock \in Nat
      BY BoundsAssumption DEF TypeInv
    <2>3. \A p \in Schedulers : SeenTypes(p)' /\ DraftTypes(p)' /\ PassTypes(p)'
      BY <2>1, <2>2, PassesKeepTypes
    <2>4. TaskTypes' /\ RowTypes'
      BY <1>1, <2>1, NormalizeTypes DEF Boot, TypeInv, TaskTypes, RowTypes
    <2>5. /\ spent' \in [DOMAIN Limit -> Nat]
          /\ \A w \in DOMAIN Limit : spent'[w] <= Limit[w]
      BY <1>1, SpendTypes DEF Boot
    <2> QED BY <2>1, <2>3, <2>4, <2>5 DEF TypeInv, passVars
  <1>2. ASSUME NEW p \in Schedulers, Crash(p) PROVE TypeInv'
    <2>1. EndPass(p, "down") /\ UNCHANGED <<clock, taskVars, rows>>
      BY <1>2 DEF Crash
    <2>2. TaskTypes' /\ RowTypes'
      BY <2>1 DEF TypeInv, TaskTypes, RowTypes, taskVars
    <2>3. /\ spent' \in [DOMAIN Limit -> Nat]
          /\ \A w \in DOMAIN Limit : spent'[w] <= Limit[w]
      BY <1>2, SpendTypes DEF Crash
    <2> QED BY <2>1, <2>2, <2>3, EndPassTypes DEF TypeInv, taskVars
  <1>3. ASSUME NEW p \in Schedulers, Restart(p) PROVE TypeInv'
    <2>1. /\ pc[p] = "down" /\ pc' = [pc EXCEPT ![p] = "idle"]
          /\ UNCHANGED <<clock, sched, created, enabled, deleted, closed, first, rows,
                         now, seen, todo, cur, draft, spent>>
      BY <1>3 DEF Restart
    <2>2. TaskTypes' /\ RowTypes'
      BY <1>3, <2>1, NormalizeTypes DEF Restart, TypeInv, TaskTypes, RowTypes
    <2>3. \A q \in Schedulers : SeenTypes(q)' /\ DraftTypes(q)' /\ PassTypes(q)'
      BY <2>1 DEF TypeInv, SeenTypes, DraftTypes, PassTypes, Working, Inserting
    <2> QED BY <2>1, <2>2, <2>3 DEF TypeInv
  <1> QED BY <1>1, <1>2, <1>3

(* A step that leaves passes alone. *)
LEMMA OutsideTypes ==
    ASSUME TypeInv, UNCHANGED passVars, created \subseteq created',
           clock' \in 0 .. Horizon, clock <= clock', TaskTypes', RowTypes',
           spent' \in [DOMAIN Limit -> Nat], \A w \in DOMAIN Limit : spent'[w] <= Limit[w]
    PROVE  TypeInv'
  <1>1. clock \in Nat /\ clock' \in Nat
    BY BoundsAssumption DEF TypeInv
  <1>2. \A p \in Schedulers : SeenTypes(p)' /\ DraftTypes(p)' /\ PassTypes(p)'
    BY <1>1, PassesKeepTypes
  <1> QED BY <1>2 DEF TypeInv, passVars

LEMMA RowTypesKept ==
    ASSUME TypeInv, created \subseteq created',
           UNCHANGED rows \/ \E ts : CancelPending(ts)
    PROVE  RowTypes'
  <1>1. DOMAIN rows' = DOMAIN rows
    BY DEF CancelPending
  <1>2. \A k \in DOMAIN rows : rows'[k] = rows[k] \/ (rows[k] = "pending" /\ rows'[k] = "ended")
    BY DEF CancelPending
  <1> QED BY <1>1, <1>2, RowsKeepTypes DEF Active

LEMMA RequestTypes ==
    ASSUME TypeInv, UserNext
    PROVE  TypeInv'
  <1>1. clock \in Nat /\ clock <= clock
    BY BoundsAssumption DEF TypeInv
  <1>2. \A t \in Tasks : \A s \in Plans[t] : NextRunAt(s, clock) \in Nat \cup {Never}
    BY <1>1, NextRunAtType
  <1>s. ASSUME Spend("request")
        PROVE  /\ spent' \in [DOMAIN Limit -> Nat]
               /\ \A w \in DOMAIN Limit : spent'[w] <= Limit[w]
    BY <1>s, SpendTypes
  <1>3. ASSUME NEW t \in Tasks, NEW s \in Plans[t], NEW on \in BOOLEAN, CreateTask(t, s, on)
        PROVE  TypeInv'
    <2>1. UNCHANGED <<clock, deleted, closed, rows, passVars, spent>> /\ created' = created \cup {t}
      BY <1>3 DEF CreateTask
    <2>2. next' \in [Tasks -> Nat \cup {Never}]
      BY <1>2, <1>3 DEF CreateTask, TypeInv, TaskTypes
    <2>3. first' \in [Tasks -> Nat \cup {Never}]
      BY <1>3, <2>2 DEF CreateTask, TypeInv, TaskTypes
    <2>4. TaskTypes'
      BY <1>3, <2>1, <2>2, <2>3 DEF CreateTask, TypeInv, TaskTypes
    <2>5. RowTypes'
      BY <2>1, RowTypesKept
    <2> QED BY <1>1, <2>1, <2>4, <2>5, OutsideTypes DEF TypeInv
  <1>4. ASSUME NEW t \in Tasks, NEW s \in Plans[t], NEW on \in BOOLEAN, UpdateTask(t, s, on)
        PROVE  TypeInv'
    <2>1. UNCHANGED <<clock, created, deleted, closed, first, passVars>> /\ t \in created
      BY <1>4 DEF UpdateTask, MayManage
    <2>2. next' \in [Tasks -> Nat \cup {Never}]
      BY <1>2, <1>4 DEF UpdateTask, TypeInv, TaskTypes
    <2>3. TaskTypes'
      BY <1>4, <2>1, <2>2 DEF UpdateTask, TypeInv, TaskTypes
    <2>4. RowTypes'
      BY <1>4, <2>1, RowTypesKept DEF UpdateTask
    <2> QED BY <1>1, <1>4, <1>s, <2>1, <2>3, <2>4, OutsideTypes DEF TypeInv, UpdateTask
  <1>5. ASSUME NEW t \in Tasks, SoftDeleteTask(t) PROVE TypeInv'
    <2>1. UNCHANGED <<clock, sched, next, created, closed, first, passVars>> /\ t \in created
      BY <1>5 DEF SoftDeleteTask, MayManage
    <2>2. TaskTypes'
      BY <1>5, <2>1 DEF SoftDeleteTask, TypeInv, TaskTypes
    <2>3. RowTypes'
      BY <1>5, <2>1, RowTypesKept DEF SoftDeleteTask
    <2> QED BY <1>1, <1>5, <1>s, <2>1, <2>2, <2>3, OutsideTypes DEF TypeInv, SoftDeleteTask
  <1>6. ASSUME NEW t \in Tasks, RequestStopTask(t) PROVE TypeInv'
    <2>1. UNCHANGED <<clock, sched, created, deleted, closed, first, passVars>>
      BY <1>6 DEF RequestStopTask
    <2>2. TaskTypes'
      BY <1>6, <2>1 DEF RequestStopTask, TypeInv, TaskTypes
    <2>3. RowTypes'
      BY <1>6, <2>1, RowTypesKept DEF RequestStopTask
    <2> QED BY <1>1, <1>6, <1>s, <2>1, <2>2, <2>3, OutsideTypes DEF TypeInv, RequestStopTask
  <1>7. ASSUME NEW t \in Tasks, RunNow(t) PROVE TypeInv'
    <2> DEFINE k == Row(t, "manual", clock, spent["request"])
    <2>1. UNCHANGED <<clock, taskVars, passVars>> /\ t \in created
          /\ rows' = [j \in DOMAIN rows \cup {k} |-> IF j = k THEN "pending" ELSE rows[j]]
      BY <1>7 DEF RunNow, MayManage
    <2>2. TaskTypes'
      BY <2>1 DEF TypeInv, TaskTypes, taskVars
    <2>3. k \in [task : created, source : Sources, at : Nat, count : Nat] /\ k.source = "manual"
      BY <1>1, <2>1, SchedulesAssumption DEF TypeInv, Row, Sources
    <2>4. RowTypes'
      <3> HIDE DEF k
      <3> QED BY <2>1, <2>3 DEF TypeInv, RowTypes, taskVars, Active
    <2> QED BY <1>1, <1>7, <1>s, <2>1, <2>2, <2>4, OutsideTypes DEF TypeInv, RunNow, taskVars
  <1>8. ASSUME NEW s \in Sessions, DeleteSession(s) PROVE TypeInv'
    <2>1. UNCHANGED <<clock, sched, next, created, first, rows, passVars>>
      BY <1>8 DEF DeleteSession
    <2>2. TaskTypes'
      BY <1>8, <2>1 DEF DeleteSession, TypeInv, TaskTypes
    <2>3. RowTypes'
      BY <2>1, RowTypesKept
    <2> QED BY <1>1, <1>8, <1>s, <2>1, <2>2, <2>3, OutsideTypes DEF TypeInv, DeleteSession
  <1> QED BY <1>3, <1>4, <1>5, <1>6, <1>7, <1>8 DEF UserNext

LEMMA NextTypes == TypeInv /\ [Next]_vars => TypeInv'
  <1> SUFFICES ASSUME TypeInv, [Next]_vars PROVE TypeInv'
    OBVIOUS
  <1>1. clock \in Nat /\ clock <= clock
    BY BoundsAssumption DEF TypeInv
  <1>2. CASE Tick
    <2>1. clock' \in 0 .. Horizon /\ clock <= clock' /\ UNCHANGED <<taskVars, rows, passVars, spent>>
      BY <1>1, <1>2, BoundsAssumption DEF Tick
    <2>2. TaskTypes' /\ RowTypes'
      BY <2>1 DEF TypeInv, TaskTypes, RowTypes, taskVars
    <2> QED BY <2>1, <2>2, OutsideTypes DEF TypeInv, taskVars
  <1>3. ASSUME NEW k \in DOMAIN rows, StartRun(k) \/ \E retry \in BOOLEAN : EndRun(k, retry)
        PROVE  TypeInv'
    <2>1. UNCHANGED <<clock, taskVars, passVars, spent>>
      BY <1>3 DEF StartRun, EndRun
    <2>2. TaskTypes'
      BY <2>1 DEF TypeInv, TaskTypes, taskVars
    <2>3. RowTypes'
      BY <1>3, <2>1, RowsKeepTypes DEF StartRun, EndRun, Active, taskVars
    <2> QED BY <1>1, <2>1, <2>2, <2>3, OutsideTypes DEF TypeInv, taskVars
  <1>4. CASE UNCHANGED vars
    BY <1>4 DEF vars, taskVars, passVars, TypeInv, TaskTypes, RowTypes, SeenTypes, DraftTypes,
       PassTypes
  <1> QED BY <1>2, <1>3, <1>4, StartPassTypes, ContinueTypes, ProcessTypes, RequestTypes
             DEF Next, RowNext

(* Every variable of the scheduler has its type in every reachable state. *)
THEOREM SchedulerTypes == Spec => []TypeOK
  <1>1. TypeInv /\ [Next]_vars => TypeInv'
    BY NextTypes
  <1> QED BY <1>1, InitTypes, TypesSuffice, PTL DEF Spec

-----------------------------------------------------------------------------
(***************************************************************************)
(* What protects a row is its key: KeyInv says that an uncommitted row has  *)
(* a key that neither the table nor another pass has, and that the key of a *)
(* manual run, which no constraint of another transaction guards, is fresh. *)
(***************************************************************************)

DraftsAreNew == \A p \in Schedulers : draft[p] \cap DOMAIN rows = {}

DraftsAreDisjoint ==
    \A p, q \in Schedulers : p # q => draft[p] \cap draft[q] = {}

DraftsAreAutomatic == \A p \in Schedulers : \A k \in draft[p] : k.source # "manual"

ManualKeysAreOld ==
    \A k \in DOMAIN rows : k.source = "manual" => k.count < spent["request"]

KeyInv ==
    /\ DOMAIN draft = Schedulers /\ draft = [p \in Schedulers |-> draft[p]]
    /\ DOMAIN pc = Schedulers /\ pc = [p \in Schedulers |-> pc[p]]
    /\ spent \in [{"crash", "boot", "request"} -> Nat]
    /\ \A k \in DOMAIN rows : k.source = "manual" => k.count \in Nat
    /\ DraftsAreNew
    /\ DraftsAreDisjoint
    /\ DraftsAreAutomatic
    /\ ManualKeysAreOld

(* What one step may do to a row. *)
KeepsEnded ==
    \A k \in DOMAIN rows : rows[k] \in {"ended", "skipped"} => rows'[k] = rows[k]

LEMMA InitKeyInv == Init => KeyInv
  BY SchedulesAssumption DEF Init, KeyInv, DraftsAreNew, DraftsAreDisjoint,
     DraftsAreAutomatic, ManualKeysAreOld

LEMMA SpendCounts ==
    ASSUME KeyInv, NEW what \in {"crash", "boot", "request"}, Spend(what)
    PROVE  /\ spent' \in [{"crash", "boot", "request"} -> Nat]
           /\ spent["request"] <= spent'["request"]
           /\ what = "request" => spent["request"] < spent'["request"]
  BY DEF KeyInv, Spend

(* Steps that leave the drafts alone and touch the state of rows only. *)
LEMMA StatesOnly ==
    ASSUME KeyInv, DOMAIN rows' = DOMAIN rows, UNCHANGED <<draft, pc>>,
           spent' \in [{"crash", "boot", "request"} -> Nat],
           spent["request"] <= spent'["request"]
    PROVE  KeyInv'
  <1>1. ManualKeysAreOld'
    <2> SUFFICES ASSUME NEW k \in DOMAIN rows', k.source = "manual"
                 PROVE  k.count < spent'["request"]
      BY DEF ManualKeysAreOld
    <2>1. k.count < spent["request"] /\ k.count \in Nat
      BY DEF KeyInv, ManualKeysAreOld
    <2> QED BY <2>1 DEF KeyInv
  <1> QED BY <1>1 DEF KeyInv, DraftsAreNew, DraftsAreDisjoint, DraftsAreAutomatic

(* A pass that ends gives its drafts back. *)
LEMMA EndPassKeeps ==
    ASSUME KeyInv, NEW p \in Schedulers, NEW label, EndPass(p, label),
           rows' = rows,
           spent' \in [{"crash", "boot", "request"} -> Nat],
           spent["request"] <= spent'["request"]
    PROVE  KeyInv'
  <1>1. /\ draft' = [q \in Schedulers |-> IF q = p THEN {} ELSE draft[q]]
        /\ DOMAIN pc' = Schedulers /\ pc' = [q \in Schedulers |-> pc'[q]]
    BY DEF EndPass, KeyInv
  <1>2. DraftsAreNew' /\ DraftsAreDisjoint' /\ DraftsAreAutomatic'
    BY <1>1 DEF KeyInv, DraftsAreNew, DraftsAreDisjoint, DraftsAreAutomatic
  <1>3. ManualKeysAreOld'
    <2> SUFFICES ASSUME NEW k \in DOMAIN rows, k.source = "manual"
                 PROVE  k.count < spent'["request"]
      BY DEF ManualKeysAreOld
    <2>1. k.count < spent["request"] /\ k.count \in Nat
      BY DEF KeyInv, ManualKeysAreOld
    <2> QED BY <2>1 DEF KeyInv
  <1> QED BY <1>1, <1>2, <1>3 DEF KeyInv

LEMMA InsertKeeps ==
    ASSUME KeyInv, NEW p \in Schedulers, InsertRow(p)
    PROVE  KeyInv'
  <1> DEFINE new == {NewRow(p)} \ DOMAIN rows
  <1>1. /\ draft' = [q \in Schedulers |-> IF q = p THEN draft[p] \cup new ELSE draft[q]]
        /\ DOMAIN pc' = Schedulers /\ pc' = [q \in Schedulers |-> pc'[q]]
        /\ UNCHANGED <<rows, spent>>
    BY DEF InsertRow, KeyInv
  <1>2. pc[p] \in Inserting
    BY DEF InsertRow
  <1>3. \A q \in Schedulers : q # p => NewRow(p) \notin draft[q]
    BY <1>2 DEF InsertRow, WaitsFor
  <1>4. NewRow(p).source # "manual"
    BY <1>2 DEF NewRow, Row, Inserting
  <1>5. DraftsAreNew'
    BY <1>1 DEF KeyInv, DraftsAreNew
  <1>6. DraftsAreDisjoint'
    BY <1>1, <1>3 DEF KeyInv, DraftsAreDisjoint
  <1>7. DraftsAreAutomatic'
    BY <1>1, <1>4 DEF KeyInv, DraftsAreAutomatic
  <1>8. ManualKeysAreOld'
    BY <1>1 DEF KeyInv, ManualKeysAreOld
  <1> QED BY <1>1, <1>5, <1>6, <1>7, <1>8 DEF KeyInv

LEMMA CommitKeeps ==
    ASSUME KeyInv, NEW p \in Schedulers, CommitPass(p)
    PROVE  KeyInv' /\ KeepsEnded
  <1>1. /\ draft' = [q \in Schedulers |-> IF q = p THEN {} ELSE draft[q]]
        /\ DOMAIN pc' = Schedulers /\ pc' = [q \in Schedulers |-> pc'[q]]
        /\ UNCHANGED spent
    BY DEF CommitPass, EndPass, KeyInv
  <1>2. DOMAIN rows' = DOMAIN rows \cup draft[p]
    BY DEF CommitPass, Queued
  <1>3. \A k \in DOMAIN rows : rows'[k] = rows[k]
    BY DEF CommitPass, Queued, KeyInv, DraftsAreNew
  <1>4. DraftsAreNew'
    BY <1>1, <1>2 DEF KeyInv, DraftsAreNew, DraftsAreDisjoint
  <1>5. DraftsAreDisjoint' /\ DraftsAreAutomatic'
    BY <1>1 DEF KeyInv, DraftsAreDisjoint, DraftsAreAutomatic
  <1>6. /\ ManualKeysAreOld'
        /\ \A k \in DOMAIN rows' : k.source = "manual" => k.count \in Nat
    BY <1>1, <1>2 DEF KeyInv, ManualKeysAreOld, DraftsAreAutomatic
  <1> QED BY <1>1, <1>3, <1>4, <1>5, <1>6 DEF KeyInv, KeepsEnded

LEMMA RunNowKeeps ==
    ASSUME KeyInv, NEW t \in Tasks, RunNow(t)
    PROVE  KeyInv' /\ KeepsEnded
  <1> DEFINE k == Row(t, "manual", clock, spent["request"])
  <1>1. /\ rows' = [j \in DOMAIN rows \cup {k} |-> IF j = k THEN "pending" ELSE rows[j]]
        /\ UNCHANGED <<draft, pc>>
    BY DEF RunNow, passVars
  <1>2. k.source = "manual" /\ k.count = spent["request"]
    BY DEF Row
  <1>3. /\ spent' \in [{"crash", "boot", "request"} -> Nat]
        /\ spent["request"] \in Nat /\ spent["request"] < spent'["request"]
    BY SpendCounts DEF RunNow, KeyInv
  <1> HIDE DEF k
  <1>4. k \notin DOMAIN rows
    BY <1>2, <1>3 DEF KeyInv, ManualKeysAreOld
  <1>5. DOMAIN rows' = DOMAIN rows \cup {k}
    BY <1>1
  <1>6. DraftsAreNew'
    BY <1>1, <1>2, <1>5 DEF KeyInv, DraftsAreNew, DraftsAreAutomatic
  <1>7. DraftsAreDisjoint' /\ DraftsAreAutomatic'
    BY <1>1 DEF KeyInv, DraftsAreDisjoint, DraftsAreAutomatic
  <1>8. ManualKeysAreOld'
    <2> SUFFICES ASSUME NEW j \in DOMAIN rows', j.source = "manual"
                 PROVE  j.count < spent'["request"]
      BY DEF ManualKeysAreOld
    <2>1. CASE j = k
      BY <2>1, <1>2, <1>3
    <2>2. CASE j # k
      <3>1. j.count \in Nat /\ j.count < spent["request"]
        BY <2>2, <1>5 DEF KeyInv, ManualKeysAreOld
      <3> QED BY <3>1, <1>3
    <2> QED BY <2>1, <2>2
  <1>9. \A j \in DOMAIN rows' : j.source = "manual" => j.count \in Nat
    BY <1>2, <1>3, <1>5 DEF KeyInv
  <1>10. KeepsEnded
    BY <1>1, <1>4 DEF KeepsEnded
  <1> QED BY <1>1, <1>3, <1>6, <1>7, <1>8, <1>9, <1>10 DEF KeyInv

LEMMA ContinueKeeps ==
    ASSUME KeyInv, NEW p \in Schedulers, Continue(p)
    PROVE  KeyInv' /\ KeepsEnded
  <1>1. ASSUME NEW t \in Tasks, PickTask(p, t) PROVE KeyInv' /\ KeepsEnded
    BY <1>1 DEF PickTask, KeyInv, KeepsEnded, DraftsAreNew, DraftsAreDisjoint,
       DraftsAreAutomatic, ManualKeysAreOld
  <1>2. CASE CheckOverlap(p)
    BY <1>2 DEF CheckOverlap, KeyInv, KeepsEnded, DraftsAreNew, DraftsAreDisjoint,
       DraftsAreAutomatic, ManualKeysAreOld
  <1>3. CASE InsertRow(p)
    <2>1. KeepsEnded
      BY <1>3 DEF InsertRow, KeepsEnded
    <2> QED BY <1>3, <2>1, InsertKeeps
  <1>4. CASE CommitPass(p)
    BY <1>4, CommitKeeps
  <1>5. ASSUME NEW q \in Schedulers, AbortDeadlocked(p, q) PROVE KeyInv' /\ KeepsEnded
    <2>1. EndPass(p, "down") /\ UNCHANGED <<rows, spent>>
      BY <1>5 DEF AbortDeadlocked
    <2>2. spent' \in [{"crash", "boot", "request"} -> Nat] /\ spent["request"] <= spent'["request"]
      BY <2>1 DEF KeyInv
    <2> QED BY <2>1, <2>2, EndPassKeeps DEF KeepsEnded
  <1> QED BY <1>1, <1>2, <1>3, <1>4, <1>5 DEF Continue

LEMMA SchedulerKeeps ==
    ASSUME KeyInv, NEW p \in Schedulers, StartPass(p) \/ Crash(p) \/ Restart(p)
    PROVE  KeyInv' /\ KeepsEnded
  <1>1. CASE StartPass(p)
    BY <1>1 DEF StartPass, KeyInv, KeepsEnded, DraftsAreNew, DraftsAreDisjoint,
       DraftsAreAutomatic, ManualKeysAreOld
  <1>2. CASE Crash(p)
    <2>1. EndPass(p, "down") /\ UNCHANGED rows /\ Spend("crash")
      BY <1>2 DEF Crash
    <2>2. spent' \in [{"crash", "boot", "request"} -> Nat] /\ spent["request"] <= spent'["request"]
      BY <2>1, SpendCounts
    <2> QED BY <2>1, <2>2, EndPassKeeps DEF KeepsEnded
  <1>3. CASE Restart(p)
    BY <1>3 DEF Restart, KeyInv, KeepsEnded, DraftsAreNew, DraftsAreDisjoint,
       DraftsAreAutomatic, ManualKeysAreOld
  <1> QED BY <1>1, <1>2, <1>3

(* Requests and executors change no key but a manual one. *)
LEMMA OthersKeep ==
    ASSUME KeyInv, Tick \/ Boot \/ UserNext \/ RowNext
    PROVE  KeyInv' /\ KeepsEnded
  <1> DEFINE Quiet == /\ DOMAIN rows' = DOMAIN rows /\ UNCHANGED <<draft, pc>>
                      /\ spent' \in [{"crash", "boot", "request"} -> Nat]
                      /\ spent["request"] <= spent'["request"]
                      /\ KeepsEnded
  <1>q. ASSUME Quiet PROVE KeyInv' /\ KeepsEnded
    BY <1>q, StatesOnly
  <1>u. UNCHANGED spent => /\ spent' \in [{"crash", "boot", "request"} -> Nat]
                           /\ spent["request"] <= spent'["request"]
    BY DEF KeyInv
  <1>c. ASSUME NEW ts, CancelPending(ts)
        PROVE  DOMAIN rows' = DOMAIN rows /\ KeepsEnded
    BY <1>c DEF CancelPending, KeepsEnded
  <1>1. CASE Tick
    BY <1>1, <1>q, <1>u DEF Tick, KeepsEnded, passVars
  <1>2. CASE Boot
    <2>1. Spend("boot") /\ UNCHANGED <<rows, draft, pc>>
      BY <1>2 DEF Boot, passVars
    <2> QED BY <2>1, <1>q, SpendCounts DEF KeepsEnded
  <1>3. ASSUME NEW t \in Tasks, NEW s, NEW on, CreateTask(t, s, on)
        PROVE  KeyInv' /\ KeepsEnded
    BY <1>3, <1>q, <1>u DEF CreateTask, KeepsEnded, passVars
  <1>4. ASSUME NEW t \in Tasks, NEW s, NEW on, UpdateTask(t, s, on)
        PROVE  KeyInv' /\ KeepsEnded
    <2>1. Spend("request") /\ UNCHANGED <<draft, pc>>
          /\ CancelPending(IF on THEN {} ELSE {t})
      BY <1>4 DEF UpdateTask, passVars
    <2> QED BY <2>1, <1>q, <1>c, SpendCounts
  <1>5. ASSUME NEW t \in Tasks, SoftDeleteTask(t) \/ RequestStopTask(t)
        PROVE  KeyInv' /\ KeepsEnded
    <2>1. Spend("request") /\ UNCHANGED <<draft, pc>> /\ CancelPending({t})
      BY <1>5 DEF SoftDeleteTask, RequestStopTask, passVars
    <2> QED BY <2>1, <1>q, <1>c, SpendCounts
  <1>6. ASSUME NEW s \in Sessions, DeleteSession(s) PROVE KeyInv' /\ KeepsEnded
    <2>1. Spend("request") /\ UNCHANGED <<rows, draft, pc>>
      BY <1>6 DEF DeleteSession, passVars
    <2> QED BY <2>1, <1>q, SpendCounts DEF KeepsEnded
  <1>7. ASSUME NEW t \in Tasks, RunNow(t) PROVE KeyInv' /\ KeepsEnded
    BY <1>7, RunNowKeeps
  <1>8. ASSUME NEW k \in DOMAIN rows, StartRun(k) PROVE KeyInv' /\ KeepsEnded
    BY <1>8, <1>q, <1>u DEF StartRun, KeepsEnded, passVars
  <1>9. ASSUME NEW k \in DOMAIN rows, NEW retry \in BOOLEAN, EndRun(k, retry)
        PROVE  KeyInv' /\ KeepsEnded
    BY <1>9, <1>q, <1>u DEF EndRun, KeepsEnded, passVars, Active
  <1>10. CASE UserNext
    BY <1>10, <1>3, <1>4, <1>5, <1>6, <1>7 DEF UserNext
  <1>11. CASE RowNext
    BY <1>11, <1>8, <1>9 DEF RowNext
  <1> QED BY <1>1, <1>2, <1>10, <1>11

LEMMA NextKeyInv == KeyInv /\ [Next]_vars => KeyInv' /\ KeepsEnded
  <1> SUFFICES ASSUME KeyInv, [Next]_vars PROVE KeyInv' /\ KeepsEnded
    OBVIOUS
  <1>1. CASE Next
    BY <1>1, ContinueKeeps, SchedulerKeeps, OthersKeep DEF Next
  <1>2. CASE UNCHANGED vars
    BY <1>2 DEF vars, passVars, KeyInv, KeepsEnded, DraftsAreNew, DraftsAreDisjoint,
       DraftsAreAutomatic, ManualKeysAreOld
  <1> QED BY <1>1, <1>2

(* No occurrence that ended, or was recorded as skipped, is ever queued again *)
(* by create_due_runs: however many schedulers compute it, whenever they     *)
(* read the task and whatever crashes, the unique key keeps the row as it is. *)
THEOREM EndedRowsStay == Spec => EndedStaysEnded
  <1>1. KeyInv /\ [Next]_vars => KeyInv'
    BY NextKeyInv
  <1>2. KeyInv /\ [Next]_vars => [KeepsEnded]_vars
    BY NextKeyInv
  <1>3. [KeepsEnded]_vars =>
        [\A k \in DOMAIN rows : rows[k] \in {"ended", "skipped"} => rows'[k] = rows[k]]_vars
    BY DEF KeepsEnded
  <1> QED BY <1>1, <1>2, <1>3, InitKeyInv, PTL DEF Spec, EndedStaysEnded
=============================================================================
