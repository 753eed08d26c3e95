--------------------------- MODULE AgentLoopProofs ---------------------------
(***************************************************************************)
(* AgentLoop proved for any runs, subtasks, gaps, tool calls and limits.   *)
(*                                                                         *)
(* The actions of a run have two shapes: it advances inside its loop, or   *)
(* it leaves.  One lemma per action shows its shape and what comes with    *)
(* it; the invariants are then shown for the shapes.                       *)
(***************************************************************************)
EXTENDS AgentLoop, FiniteSetTheorems, TLAPS

\* The card of a gap is a probe that was made or that may still be made.
WithinProbes(w) ==
    \A g \in Gaps : /\ Cardinality(w.tried[g]) <= ProbesPerGap
                    /\ \/ w.card[g] = None
                       \/ w.card[g] \in w.tried[g]
                       \/ Cardinality(w.tried[g]) < ProbesPerGap

\* What a checkpoint may be: nothing, or work that is worth resuming.
Row(row) == \/ row = None
            \/ row \in Works /\ WithinProbes(row) /\ Resumable(row)

\* What the outcome says of the checkpoint.
Matches(row, l) ==
    /\ l.how \in Closed => row = None
    /\ l.how \in {"stalled", "budget"} => row = Unfinished(l.work)
    /\ l.how = "error" => row = IF Resumable(l.work) THEN l.work ELSE None

(***************************************************************************)
(* The inductive invariant.                                                *)
(***************************************************************************)
WorkIsLocal == \A r \in Runs : pc[r] \notin Looping => work[r] = Fresh

StepsAreLeft == \A r \in Runs : pc[r] = "tools" => loop[r].todo > 0

WorksAreSound == (\A r \in Runs : WithinProbes(work[r])) /\ Row(ckpt)

\* A run that would stop now has a reason to.
StopsHaveCause ==
    \A r \in Runs : pc[r] \in Begun /\ ~running => asked[r] \/ cleared[r]

\* Runs in progress together know that they share the session.
Companions ==
    \A q, r \in Runs : q # r /\ pc[q] \in Begun /\ pc[r] \in Begun => shared[r]

\* A run alone works on what the checkpoint holds.
RowIsResumed ==
    \A r \in Runs : pc[r] \in Looping /\ ~shared[r] /\ ckpt # None
                    => Resumable(work[r])

\* After a run that had the session to itself no run has begun.
LastIsFinal ==
    left # None /\ ~left.shared =>
        (\A q \in Runs : pc[q] \notin Begun) /\ Matches(ckpt, left)

Inv == /\ TypeOK /\ WorkIsLocal /\ StepsAreLeft /\ WorksAreSound
       /\ RunningMeansARun /\ StopsHaveCause /\ CancelledHasCause
       /\ Companions /\ RowIsResumed /\ LastIsFinal

(***************************************************************************)
(* The two shapes of a step of a run that has begun.                       *)
(***************************************************************************)
Advances(r, where, w, c, row) ==
    /\ pc[r] \in Begun /\ where \in Looping \cup {"chat"}
    /\ pc' = [pc EXCEPT ![r] = where]
    /\ work' = [work EXCEPT ![r] = w]
    /\ loop' = [loop EXCEPT ![r] = c]
    /\ ckpt' = row
    /\ round' \in [Runs -> Nat] /\ \A q \in Runs : round'[q] <= MaxIters[q]
    /\ UNCHANGED <<running, blocked, via, left, asked, cleared, shared, faults>>
    /\ w \in Works /\ WithinProbes(w)
    /\ c \in Counters /\ (where = "tools" => c.todo > 0)
    /\ row = ckpt \/ (row = w /\ Resumable(w))
    /\ where = "chat" => w = Fresh
    /\ pc[r] \in Looping =>
          /\ where \in Looping
          /\ Resumable(work[r]) => Resumable(w)
          /\ work[r].fix => w.fix /\ w.open = work[r].open /\ w.done = work[r].done
    /\ pc[r] \notin Looping /\ where \in Looping /\ ckpt # None => w = ckpt

Leaves(r, how, w, row) ==
    /\ pc[r] \in Begun
    /\ Leave(r, how, w, row)
    /\ End(r, how, w) \in Ends
    /\ Row(row)
    /\ how = "cancelled" => ~running
    /\ ~shared[r] => Matches(row, End(r, how, w))

Shape(r) == \/ \E where, w, c, row : Advances(r, where, w, c, row)
            \/ \E how, w, row : Leaves(r, how, w, row)

-----------------------------------------------------------------------------
LEMMA FreshIsSound == Fresh \in Works /\ WithinProbes(Fresh)
  <1>1. Fresh \in Works
    BY DEF Fresh, Works
  <1>2. Cardinality({}) = 0
    BY FS_EmptySet
  <1> QED
    BY <1>1, <1>2, NumberAssumption DEF Fresh, WithinProbes

LEMMA LimitsAreNat ==
    /\ MaxSteps \in Nat /\ MaxSteps > 0 /\ ProbesPerGap \in Nat
    /\ MaxIters \in [Runs -> Nat]
  BY NumberAssumption

LEMMA TriedIsFinite ==
    ASSUME NEW w \in Works, NEW g \in Gaps
    PROVE  IsFiniteSet(w.tried[g]) /\ Cardinality(w.tried[g]) \in Nat
  <1>1. w.tried[g] \subseteq Actions
    BY DEF Works
  <1> QED
    BY <1>1, NoneAssumption, FS_Subset, FS_CardinalityType

LEMMA MergeIsSound ==
    ASSUME NEW w \in Works, WithinProbes(w), NEW plan \in SUBSET Tasks,
           NEW ticked \in SUBSET plan
    PROVE  /\ Merge(w, plan, ticked) \in Works
           /\ WithinProbes(Merge(w, plan, ticked))
           /\ plan # {} => Resumable(Merge(w, plan, ticked))
           /\ (plan # {} /\ ~w.fix) \/ Planned(w, plan, ticked) = w
  <1> DEFINE m == Merge(w, plan, ticked)
  <1>1. m \in Works /\ m.tried = w.tried /\ m.card = w.card
    BY DEF Works, Merge
  <1>2. m.open \cup m.done = plan
    BY DEF Works, Merge
  <1>3. WithinProbes(m)
    BY <1>1 DEF WithinProbes
  <1> QED
    BY <1>1, <1>2, <1>3 DEF Resumable, Planned

LEMMA PlannedIsSound ==
    ASSUME NEW w \in Works, WithinProbes(w), NEW plan \in SUBSET Tasks,
           NEW ticked \in SUBSET plan
    PROVE  /\ Planned(w, plan, ticked) \in Works
           /\ WithinProbes(Planned(w, plan, ticked))
           /\ \/ PlanRow(w, plan, ticked) = ckpt
              \/ /\ PlanRow(w, plan, ticked) = Planned(w, plan, ticked)
                 /\ Resumable(Planned(w, plan, ticked))
           /\ Resumable(w) => Resumable(Planned(w, plan, ticked))
           /\ w.fix => Planned(w, plan, ticked) = w
  <1>1. CASE w.fix \/ plan = {}
    BY <1>1 DEF Planned, PlanRow
  <1>2. CASE ~(w.fix \/ plan = {})
    <2>1. Planned(w, plan, ticked) = Merge(w, plan, ticked)
      BY <1>2 DEF Planned
    <2>2. PlanRow(w, plan, ticked) = Merge(w, plan, ticked)
      BY <1>2 DEF PlanRow
    <2> QED
      BY <1>2, <2>1, <2>2, MergeIsSound
  <1> QED
    BY <1>1, <1>2

LEMMA ProbeIsSound ==
    ASSUME NEW w \in Works, WithinProbes(w), NEW a \in Actions
    PROVE  /\ Probe(w, a) \in Works /\ WithinProbes(Probe(w, a))
           /\ Probe(w, a).open = w.open /\ Probe(w, a).done = w.done
           /\ Probe(w, a).found = w.found /\ Probe(w, a).fix = w.fix
           /\ Probe(w, a).card = w.card
  <1> DEFINE p == Probe(w, a)
  <1>1. /\ p \in Works /\ p.card = w.card
        /\ p.open = w.open /\ p.done = w.done
        /\ p.found = w.found /\ p.fix = w.fix
    BY DEF Probe, Works
  <1>2. ASSUME NEW g \in Gaps
        PROVE  /\ Cardinality(p.tried[g]) <= ProbesPerGap
               /\ \/ p.card[g] = None
                  \/ p.card[g] \in p.tried[g]
                  \/ Cardinality(p.tried[g]) < ProbesPerGap
    <2>1. p.tried[g] = IF w.card[g] = a THEN w.tried[g] \cup {a} ELSE w.tried[g]
      BY DEF Probe, Works
    <2>2. CASE w.card[g] # a \/ a \in w.tried[g]
      <3>1. p.tried[g] = w.tried[g]
        BY <2>1, <2>2
      <3> QED
        BY <3>1, <1>1 DEF WithinProbes
    <2>3. CASE w.card[g] = a /\ a \notin w.tried[g]
      <3>1. Cardinality(w.tried[g]) < ProbesPerGap
        BY <2>3, NoneAssumption DEF WithinProbes
      <3>2. Cardinality(w.tried[g] \cup {a}) = Cardinality(w.tried[g]) + 1
        BY <2>3, TriedIsFinite, FS_AddElement
      <3>3. Cardinality(w.tried[g]) \in Nat
        BY TriedIsFinite
      <3> QED
        BY <1>1, <2>1, <2>3, <3>1, <3>2, <3>3, LimitsAreNat
    <2> QED
      BY <2>2, <2>3
  <1> QED
    BY <1>1, <1>2 DEF WithinProbes

-----------------------------------------------------------------------------
\* What the shapes of a run in its loop have in common.
LEMMA Goes ==
    ASSUME Inv, NEW r \in Runs, pc[r] \in Looping, NEW where \in Looping, NEW w \in Works,
           NEW c \in Counters, NEW row, WithinProbes(w),
           (Goto(r, where) /\ row = ckpt) \/ SaveAndGoto(r, where, row),
           Work(r, w), Count(r, c), where = "tools" => c.todo > 0,
           row = ckpt \/ (row = w /\ Resumable(w)),
           Resumable(work[r]) => Resumable(w),
           work[r].fix => w.fix /\ w.open = work[r].open /\ w.done = work[r].done
    PROVE  Advances(r, where, w, c, row)
  <1>1. round' = round /\ round \in [Runs -> Nat] /\ \A q \in Runs : round[q] <= MaxIters[q]
    BY DEF Inv, TypeOK, Goto, SaveAndGoto
  <1>2. pc[r] \in Begun /\ where \in Looping \cup {"chat"} /\ where # "chat"
    BY DEF Begun, Looping
  <1> QED
    BY <1>1, <1>2 DEF Advances, Goto, SaveAndGoto, Work, Count, history

\* ... and of a run that leaves it.
LEMMA GoesAway ==
    ASSUME Inv, NEW r \in Runs, pc[r] \in Begun, NEW how \in Kept \cup Closed \cup {"answered", "failed"},
           NEW w \in Works, NEW row, Leave(r, how, w, row),
           Row(row), how = "cancelled" => ~running,
           how \in Closed => row = None,
           how \in {"stalled", "budget"} => row = Unfinished(w),
           how = "error" => \/ Resumable(w) /\ row = w
                            \/ ~Resumable(w) /\ row = ckpt /\ w = work[r] /\ pc[r] \in Looping
    PROVE  Leaves(r, how, w, row)
  <1>1. End(r, how, w) \in Ends
    BY FreshIsSound DEF End, Ends, Inv, TypeOK
  <1>2. /\ End(r, how, w).how = how
        /\ how \in Kept /\ ~shared[r] => End(r, how, w).work = w
    BY DEF End
  <1>3. ASSUME ~shared[r], how = "error" PROVE row = IF Resumable(w) THEN w ELSE None
    BY <1>3 DEF Inv, RowIsResumed
  <1>4. ~shared[r] => Matches(row, End(r, how, w))
    BY <1>2, <1>3 DEF Matches, Kept
  <1> QED
    BY <1>1, <1>4 DEF Leaves

LEMMA RunsOfTheLoop ==
    ASSUME Inv, NEW r \in Runs
    PROVE  /\ work[r] \in Works /\ WithinProbes(work[r]) /\ loop[r] \in Counters
           /\ Row(ckpt) /\ Row(None)
           /\ work' = work => Work(r, work[r])
           /\ loop' = loop => Count(r, loop[r])
           /\ \A w \in Works : WithinProbes(w) => Row(Unfinished(w))
  BY DEF Inv, TypeOK, WorksAreSound, Row, Work, Count, Unfinished, Resumable

LEMMA HeardCounts ==
    ASSUME Inv, NEW r \in Runs
    PROVE  Heard(r) \in Counters
  BY RunsOfTheLoop DEF Heard, Counters

-----------------------------------------------------------------------------
LEMMA StartingShape ==
    ASSUME Inv, NEW r \in Runs, Answer(r) \/ Converse(r) \/ Load(r) \/ Raise(r)
    PROVE  Shape(r)
  <1> USE RunsOfTheLoop
  <1>1. CASE Answer(r)
    BY <1>1, GoesAway DEF Answer, Shape, Begun, Kept, Closed
  <1>2. CASE Raise(r)
    BY <1>2, GoesAway DEF Raise, Shape, Begun, Looping, Kept, Closed
  <1>3. pc[r] = "starting" => work[r] = Fresh
    BY DEF Inv, WorkIsLocal, Looping
  <1>4. round \in [Runs -> Nat] /\ \A q \in Runs : round[q] <= MaxIters[q]
    BY DEF Inv, TypeOK
  <1>5. CASE Converse(r)
    <2>1. Advances(r, "chat", work[r], loop[r], ckpt)
      BY <1>3, <1>4, <1>5 DEF Converse, Goto, Advances, Begun, Looping, Work, Count, history
    <2> QED
      BY <2>1 DEF Shape
  <1>6. CASE Load(r)
    <2> DEFINE w == IF ckpt = None THEN Fresh ELSE ckpt
    <2>1. w \in Works /\ WithinProbes(w) /\ (ckpt # None => w = ckpt)
      BY FreshIsSound DEF Row
    <2>2. Zero \in Counters
      BY LimitsAreNat DEF Zero, Counters
    <2>3. pc[r] \in Begun /\ pc[r] \notin Looping /\ "round" \in Looping
      BY <1>6 DEF Load, Begun, Looping
    <2>4. Advances(r, "round", w, Zero, ckpt)
      BY <1>4, <1>6, <2>1, <2>2, <2>3 DEF Load, Goto, Advances, Work, Count, history
    <2> QED
      BY <2>4 DEF Shape
  <1> QED
    BY <1>1, <1>2, <1>5, <1>6

LEMMA RoundCounts ==
    ASSUME Inv, NEW r \in Runs, Ask(r)
    PROVE  round' \in [Runs -> Nat] /\ \A q \in Runs : round'[q] <= MaxIters[q]
  <1>1. /\ round \in [Runs -> Nat] /\ \A q \in Runs : round[q] <= MaxIters[q]
        /\ round' = [round EXCEPT ![r] = round[r] + 1] /\ round[r] < MaxIters[r]
    BY DEF Ask, Inv, TypeOK
  <1>2. round' \in [Runs -> Nat]
    BY <1>1
  <1>3. ASSUME NEW q \in Runs PROVE round'[q] <= MaxIters[q]
    <2>1. round[q] \in Nat /\ MaxIters[q] \in Nat /\ round[q] <= MaxIters[q]
      BY <1>1, LimitsAreNat
    <2>2. CASE q = r
      BY <1>1, <2>1, <2>2
    <2>3. CASE q # r
      BY <1>1, <2>1, <2>3
    <2> QED
      BY <2>2, <2>3
  <1> QED
    BY <1>2, <1>3

LEMMA RoundShape ==
    ASSUME Inv, NEW r \in Runs,
           NoticeStop(r) \/ DeliverableReady(r) \/ Ask(r) \/ BudgetExhausted(r)
    PROVE  Shape(r)
  <1> USE RunsOfTheLoop
  <1>1. CASE NoticeStop(r)
    BY <1>1, GoesAway DEF NoticeStop, Shape, Begun, Looping, Kept, Closed
  <1>2. CASE DeliverableReady(r)
    BY <1>2, GoesAway DEF DeliverableReady, Shape, Begun, Looping, Kept, Closed
  <1>3. CASE Ask(r)
    <2>1. /\ round' \in [Runs -> Nat]
          /\ \A q \in Runs : round'[q] <= MaxIters[q]
      BY <1>3, RoundCounts
    <2>2. Advances(r, "llm", work[r], loop[r], ckpt)
      BY <1>3, <2>1 DEF Ask, Advances, Begun, Looping, Work, Count, history
    <2> QED
      BY <2>2 DEF Shape
  <1>4. CASE BudgetExhausted(r)
    <2>1. Advances(r, "distill", work[r], loop[r], ckpt)
      BY <1>4, Goes DEF BudgetExhausted, Looping
    <2> QED
      BY <2>1 DEF Shape
  <1> QED
    BY <1>1, <1>2, <1>3, <1>4

LEMMA CallShape ==
    ASSUME Inv, NEW r \in Runs, NEW kind \in Failures,
           LlmStopped(r) \/ RouteFallback(r) \/ LlmFails(r, kind)
    PROVE  Shape(r)
  <1> USE RunsOfTheLoop
  <1>1. CASE LlmStopped(r)
    BY <1>1, GoesAway DEF LlmStopped, Shape, Begun, Looping, Kept, Closed
  <1>2. CASE RouteFallback(r)
    <2>1. Advances(r, "round", work[r], loop[r], ckpt)
      BY <1>2, Goes DEF RouteFallback, Looping
    <2> QED
      BY <2>1 DEF Shape
  <1>3. CASE LlmFails(r, kind)
    <2>1. PICK c \in Counters :
             \/ Leave(r, "error", work[r], IF Resumable(work[r]) THEN work[r] ELSE ckpt)
             \/ Goto(r, "round") /\ Count(r, c) /\ UNCHANGED work
      BY <1>3 DEF LlmFails, Counters
    <2>2. pc[r] \in Looping /\ pc[r] \in Begun
      BY <1>3 DEF LlmFails, Begun, Looping
    <2>3. CASE Goto(r, "round") /\ Count(r, c) /\ UNCHANGED work
      <3>1. Advances(r, "round", work[r], c, ckpt)
        BY <2>2, <2>3, Goes DEF Looping
      <3> QED
        BY <3>1 DEF Shape
    <2>4. CASE Leave(r, "error", work[r], IF Resumable(work[r]) THEN work[r] ELSE ckpt)
      <3>1. CASE Resumable(work[r])
        BY <2>2, <2>4, <3>1, GoesAway DEF Shape, Kept, Closed, Row
      <3>2. CASE ~Resumable(work[r])
        BY <2>2, <2>4, <3>2, GoesAway DEF Shape, Kept, Closed
      <3> QED
        BY <3>1, <3>2
    <2> QED
      BY <2>1, <2>3, <2>4
  <1> QED
    BY <1>1, <1>2, <1>3

LEMMA TextRoundShape ==
    ASSUME Inv, NEW r \in Runs, pc[r] \in Looping, NEW w \in Works, NEW c \in Counters,
           NEW row, WithinProbes(w), TextRound(r, w, c, row),
           row = ckpt \/ (row = w /\ Resumable(w)),
           Resumable(work[r]) => Resumable(w),
           work[r].fix => w.fix /\ w.open = work[r].open /\ w.done = work[r].done
    PROVE  Shape(r)
  <1>1. CASE Leave(r, "stuck", w, None)
    BY <1>1, GoesAway, RunsOfTheLoop DEF Shape, Begun, Looping, Kept, Closed
  <1>2. ASSUME SaveAndGoto(r, "tools", row), Work(r, w),
               Count(r, [c EXCEPT !.todo = 1, !.texts = 0, !.signals = 0])
        PROVE  Shape(r)
    <2> DEFINE d == [c EXCEPT !.todo = 1, !.texts = 0, !.signals = 0]
    <2>3. 1 \in 0..MaxSteps
      BY LimitsAreNat
    <2>4. d.todo = 1
      BY DEF Counters
    <2>5. d \in Counters
      BY <2>3 DEF Counters
    <2>1. d \in Counters /\ d.todo > 0
      BY <2>4, <2>5
    <2>2. Advances(r, "tools", w, d, row)
      BY <1>2, <2>1, Goes DEF Looping
    <2> QED
      BY <2>2 DEF Shape
  <1>3. ASSUME SaveAndGoto(r, "round", row), Work(r, w),
               Count(r, [c EXCEPT !.texts = @ + 1])
        PROVE  Shape(r)
    <2>1. [c EXCEPT !.texts = @ + 1] \in Counters
      BY DEF Counters
    <2>2. Advances(r, "round", w, [c EXCEPT !.texts = @ + 1], row)
      BY <1>3, <2>1, Goes DEF Looping
    <2> QED
      BY <2>2 DEF Shape
  <1> QED
    BY <1>1, <1>2, <1>3 DEF TextRound

-----------------------------------------------------------------------------
LEMMA PlainReplyShape ==
    ASSUME Inv, NEW r \in Runs,
           ReplyRepeats(r) \/ ReplyTruncated(r) \/ ReplyDeclares(r) \/ ConfirmSignal(r)
    PROVE  Shape(r)
  <1> DEFINE w == work[r]
  <1>1. /\ w \in Works /\ WithinProbes(w) /\ Row(ckpt) /\ Row(Unfinished(w))
        /\ Heard(r) \in Counters /\ loop[r] \in Counters
        /\ pc[r] \in Looping /\ pc[r] \in Begun
    BY RunsOfTheLoop, HeardCounts
    DEF ReplyRepeats, ReplyTruncated, ReplyDeclares, ConfirmSignal, Begun, Looping
  <1>2. CASE ReplyRepeats(r)
    <2>1. Leave(r, "stalled", w, Unfinished(w))
      BY <1>2 DEF ReplyRepeats
    <2> QED
      BY <1>1, <2>1, GoesAway DEF Shape, Kept, Closed
  <1>3. ASSUME NEW c \in Counters, NEW where \in {"round", "reflect", "confirm"},
               Goto(r, where), Count(r, c), UNCHANGED work
        PROVE  Shape(r)
    <2>1. Advances(r, where, w, c, ckpt)
      BY <1>1, <1>3, Goes, RunsOfTheLoop DEF Looping
    <2> QED
      BY <2>1 DEF Shape
  <1>4. CASE ReplyTruncated(r)
    <2>1. [Heard(r) EXCEPT !.signals = 0] \in Counters
      BY <1>1 DEF Counters
    <2> QED
      BY <1>3, <1>4, <2>1 DEF ReplyTruncated
  <1>5. ASSUME NEW c \in Counters, TextRound(r, w, c, ckpt) PROVE Shape(r)
    BY <1>1, <1>5, TextRoundShape
  <1>6. CASE ReplyDeclares(r)
    <2>1. [Heard(r) EXCEPT !.signals = @ + 1] \in Counters
      BY <1>1 DEF Counters
    <2> QED
      BY <1>3, <1>5, <1>6, <2>1 DEF ReplyDeclares
  <1>7. CASE ConfirmSignal(r)
    <2>1. [loop[r] EXCEPT !.signals = 0] \in Counters
      BY <1>1 DEF Counters
    <2>2. UNCHANGED <<work, loop>> => UNCHANGED work /\ Count(r, loop[r])
      BY RunsOfTheLoop
    <2> QED
      BY <1>1, <1>3, <1>5, <1>7, <2>1, <2>2 DEF ConfirmSignal
  <1> QED
    BY <1>2, <1>4, <1>6, <1>7

LEMMA PlanReplyShape ==
    ASSUME Inv, NEW r \in Runs, NEW plan \in SUBSET Tasks, NEW ticked \in SUBSET plan,
           NEW n \in 1..MaxSteps,
           \/ ReplyFinal(r, plan, ticked)
           \/ ReplyText(r, plan, ticked)
           \/ ReplyTools(r, plan, ticked, n)
    PROVE  Shape(r)
  <1> DEFINE w == Planned(work[r], plan, ticked)
             row == PlanRow(work[r], plan, ticked)
             c == [Heard(r) EXCEPT !.quiet = (w = work[r])]
  <1>1. /\ work[r] \in Works /\ WithinProbes(work[r]) /\ Heard(r) \in Counters
        /\ pc[r] \in Looping /\ pc[r] \in Begun
    BY RunsOfTheLoop, HeardCounts DEF ReplyFinal, ReplyText, ReplyTools, Begun, Looping
  <1>2. /\ w \in Works /\ WithinProbes(w)
        /\ row = ckpt \/ (row = w /\ Resumable(w))
        /\ Resumable(work[r]) => Resumable(w)
        /\ work[r].fix => w.fix /\ w.open = work[r].open /\ w.done = work[r].done
    BY <1>1, PlannedIsSound
  <1>3. c \in Counters /\ [c EXCEPT !.signals = 0] \in Counters
    BY <1>1 DEF Counters
  <1> HIDE DEF w, row
  <1>4. ASSUME NEW where \in Looping, NEW d \in Counters, where = "tools" => d.todo > 0,
               SaveAndGoto(r, where, row), Work(r, w), Count(r, d)
        PROVE  Shape(r)
    <2>1. Advances(r, where, w, d, row)
      BY <1>1, <1>2, <1>4, Goes
    <2> QED
      BY <2>1 DEF Shape
  <1>5. CASE ReplyFinal(r, plan, ticked)
    <2>1. /\ Work(r, w)
          /\ \/ SaveAndGoto(r, "round", row) /\ Count(r, [c EXCEPT !.signals = 0])
             \/ SaveAndGoto(r, "reflect", row) /\ Count(r, c)
      BY <1>5 DEF ReplyFinal, w, row
    <2> HIDE DEF c
    <2> QED
      BY <1>3, <1>4, <2>1 DEF Looping
  <1>6. CASE ReplyText(r, plan, ticked)
    <2>1. PICK d \in Counters : TextRound(r, w, d, row)
      BY <1>3, <1>6 DEF ReplyText, w, row
    <2> QED
      BY <1>1, <1>2, <2>1, TextRoundShape
  <1>7. CASE ReplyTools(r, plan, ticked, n)
    <2> DEFINE d == [Heard(r) EXCEPT !.quiet = (w = work[r]), !.todo = n,
                                     !.texts = 0, !.signals = 0]
    <2>1. n \in 0..MaxSteps /\ n > 0
      BY LimitsAreNat
    <2>2. d \in Counters
      BY <1>1, <2>1 DEF Counters
    <2>3. d.todo = n
      BY <1>1 DEF Counters
    <2>4. SaveAndGoto(r, "tools", row) /\ Work(r, w) /\ Count(r, d)
      BY <1>7 DEF ReplyTools, w, row
    <2> HIDE DEF d
    <2> QED
      BY <1>4, <2>1, <2>2, <2>3, <2>4 DEF Looping
  <1> QED
    BY <1>5, <1>6, <1>7

LEMMA ReflectShape ==
    ASSUME Inv, NEW r \in Runs, NEW cards \in [Gaps -> Actions \cup {None}],
           ReflectPasses(r) \/ ReflectRejects(r, cards)
    PROVE  Shape(r)
  <1>1. /\ work[r] \in Works /\ WithinProbes(work[r]) /\ loop[r] \in Counters /\ Row(None)
        /\ pc[r] \in Looping /\ pc[r] \in Begun
    BY RunsOfTheLoop DEF ReflectPasses, ReflectRejects, Begun, Looping
  <1>2. ASSUME NEW w \in Works, Accept(r, w) PROVE Shape(r)
    <2>1. [w EXCEPT !.fix = FALSE] \in Works
      BY DEF Works
    <2>2. Leave(r, "delivered", [w EXCEPT !.fix = FALSE], None)
      BY <1>2 DEF Accept
    <2>3. Leaves(r, "delivered", [w EXCEPT !.fix = FALSE], None)
      BY <1>1, <2>1, <2>2, GoesAway DEF Kept, Closed
    <2> QED
      BY <2>3 DEF Shape
  <1>3. CASE ReflectPasses(r)
    BY <1>1, <1>2, <1>3 DEF ReflectPasses
  <1>4. CASE ReflectRejects(r, cards)
    <2> DEFINE valid == {g \in Gaps : Valid(work[r], g, cards[g])}
               w == [work[r] EXCEPT !.card = [g \in Gaps |->
                                        IF g \in valid THEN cards[g] ELSE @[g]]]
               v == [w EXCEPT !.fix = TRUE]
               c == [loop[r] EXCEPT !.rejects = @ + 1]
    <2>1. /\ valid # {}
          /\ \/ Accept(r, w)
             \/ /\ Work(r, v) /\ SaveAndGoto(r, "round", v)
                /\ Count(r, [c EXCEPT !.signals = 0])
      BY <1>4 DEF ReflectRejects
    <2>2. /\ w \in Works /\ v \in Works
          /\ v.open = work[r].open /\ v.done = work[r].done /\ v.fix
          /\ v.tried = work[r].tried
          /\ \A g \in Gaps : v.card[g] = IF g \in valid THEN cards[g] ELSE work[r].card[g]
      BY <1>1 DEF Works
    <2>3. WithinProbes(v)
      <3> SUFFICES ASSUME NEW g \in Gaps
                   PROVE  /\ Cardinality(v.tried[g]) <= ProbesPerGap
                          /\ \/ v.card[g] = None
                             \/ v.card[g] \in v.tried[g]
                             \/ Cardinality(v.tried[g]) < ProbesPerGap
        BY DEF WithinProbes
      <3>1. CASE g \in valid
        BY <1>1, <2>2, <3>1 DEF Valid, WithinProbes
      <3>2. CASE g \notin valid
        BY <1>1, <2>2, <3>2 DEF WithinProbes
      <3> QED
        BY <3>1, <3>2
    <2>4. Resumable(v)
      <3>1. PICK g \in Gaps : g \in valid
        BY <2>1
      <3>2. v.card[g] # None
        BY <2>2, <3>1 DEF Valid
      <3> QED
        BY <3>2 DEF Resumable
    <2>8. c \in Counters
      BY <1>1 DEF Counters
    <2> HIDE DEF c
    <2>5. [c EXCEPT !.signals = 0] \in Counters
      BY <2>8 DEF Counters
    <2> HIDE DEF valid, w, v
    <2>6. CASE Accept(r, w)
      BY <1>2, <2>2, <2>6
    <2>7. CASE /\ Work(r, v) /\ SaveAndGoto(r, "round", v)
               /\ Count(r, [c EXCEPT !.signals = 0])
      <3>1. Advances(r, "round", v, [c EXCEPT !.signals = 0], v)
        BY <1>1, <2>2, <2>3, <2>4, <2>5, <2>7, Goes DEF Looping
      <3> QED
        BY <3>1 DEF Shape
    <2> QED
      BY <2>1, <2>6, <2>7
  <1> QED
    BY <1>3, <1>4

-----------------------------------------------------------------------------
LEMMA StepShape ==
    ASSUME Inv, NEW r \in Runs, AtTool(r),
           NEW w \in Works, NEW c \in Counters, WithinProbes(w), c.todo = loop[r].todo,
           Resumable(work[r]) => Resumable(w),
           w.fix = work[r].fix, w.open = work[r].open, w.done = work[r].done,
           StepDone(r, w, c)
    PROVE  Shape(r)
  <1> DEFINE d == [c EXCEPT !.todo = @ - 1]
             where == IF c.todo = 1 THEN "round" ELSE "tools"
  <1>1. c.todo \in 0..MaxSteps /\ c.todo > 0
    BY DEF Counters, Inv, StepsAreLeft, AtTool
  <1>2. c.todo - 1 \in 0..MaxSteps /\ (c.todo # 1 => c.todo - 1 > 0)
    BY <1>1, LimitsAreNat
  <1>3. d.todo = c.todo - 1
    BY DEF Counters
  <1>4. d \in Counters
    BY <1>2 DEF Counters
  <1>5. where \in Looping /\ (where = "tools" => d.todo > 0)
    BY <1>2, <1>3 DEF Looping
  <1>6. Goto(r, where) /\ Work(r, w) /\ Count(r, d)
    BY DEF StepDone
  <1>7. pc[r] \in Looping
    BY DEF AtTool, Looping
  <1> HIDE DEF d, where
  <1>8. Advances(r, where, w, d, ckpt)
    BY <1>4, <1>5, <1>6, <1>7, Goes
  <1> QED
    BY <1>8 DEF Shape

LEMMA ExecutedShape ==
    ASSUME Inv, NEW r \in Runs, NEW a \in Actions, NEW ok \in BOOLEAN, NEW new \in BOOLEAN,
           ToolExecuted(r, a, ok, new)
    PROVE  Shape(r)
  <1>1. /\ work[r] \in Works /\ WithinProbes(work[r]) /\ loop[r] \in Counters /\ Row(None)
        /\ pc[r] \in Looping /\ pc[r] \in Begun /\ AtTool(r)
    BY RunsOfTheLoop DEF ToolExecuted, AtTool, Begun, Looping
  <1> DEFINE p == Probe(work[r], a)
             w == [p EXCEPT !.found = @ \/ new]
             c == [loop[r] EXCEPT !.ran = TRUE, !.quiet = @ /\ ~new, !.cached = 0,
                                  !.rejects = IF ok THEN 0 ELSE @]
  <1>2. /\ p \in Works /\ WithinProbes(p) /\ p.card = work[r].card
        /\ p.open = work[r].open /\ p.done = work[r].done
        /\ p.found = work[r].found /\ p.fix = work[r].fix
    BY <1>1, ProbeIsSound
  <1>3. StepDone(r, w, c)
    BY DEF ToolExecuted
  <1>4. c \in Counters /\ c.todo = loop[r].todo
    BY <1>1 DEF Counters
  <1> HIDE DEF p, c
  <1>5. /\ w \in Works /\ w.tried = p.tried /\ w.card = p.card /\ w.fix = p.fix
        /\ w.open = p.open /\ w.done = p.done /\ w.found = (p.found \/ new)
    BY <1>2 DEF Works
  <1> HIDE DEF w
  <1>6. WithinProbes(w)
    BY <1>2, <1>5 DEF WithinProbes
  <1>7. Resumable(work[r]) => Resumable(w)
    BY <1>2, <1>5 DEF Resumable
  <1> QED
    BY StepShape, <1>1, <1>2, <1>3, <1>4, <1>5, <1>6, <1>7

LEMMA PlainToolShape ==
    ASSUME Inv, NEW r \in Runs, NEW new \in BOOLEAN,
           ToolSkipped(r) \/ ToolBatch(r, new) \/ ToolCached(r, new)
    PROVE  Shape(r)
  <1>1. /\ work[r] \in Works /\ WithinProbes(work[r]) /\ loop[r] \in Counters /\ Row(None)
        /\ pc[r] \in Looping /\ pc[r] \in Begun /\ AtTool(r)
    BY RunsOfTheLoop DEF ToolSkipped, ToolBatch, ToolCached, AtTool, Begun, Looping
  <1>2. CASE ToolSkipped(r)
    BY <1>1, StepShape, <1>2 DEF ToolSkipped
  <1>3. CASE ToolBatch(r, new)
    <2> DEFINE w == [work[r] EXCEPT !.found = @ \/ new]
               c == [loop[r] EXCEPT !.ran = TRUE, !.quiet = @ /\ ~new]
    <2>1. StepDone(r, w, c)
      BY <1>3 DEF ToolBatch
    <2>2. c \in Counters /\ c.todo = loop[r].todo
      BY <1>1 DEF Counters
    <2> HIDE DEF c
    <2>3. /\ w \in Works /\ w.tried = work[r].tried /\ w.card = work[r].card
          /\ w.fix = work[r].fix /\ w.open = work[r].open /\ w.done = work[r].done
          /\ w.found = (work[r].found \/ new)
      BY <1>1 DEF Works
    <2> HIDE DEF w
    <2>4. WithinProbes(w) /\ (Resumable(work[r]) => Resumable(w))
      BY <1>1, <2>3 DEF WithinProbes, Resumable
    <2> QED
      BY <1>1, StepShape, <2>1, <2>2, <2>3, <2>4
  <1>4. CASE ToolCached(r, new)
    <2> DEFINE c == [loop[r] EXCEPT !.ran = TRUE, !.cached = IF new THEN @ + 1 ELSE @]
    <2>5. (IF new THEN loop[r].cached + 1 ELSE loop[r].cached) \in Nat
      BY <1>1 DEF Counters
    <2>4. c \in Counters /\ c.todo = loop[r].todo
      BY <1>1, <2>5 DEF Counters
    <2>1. Leave(r, "stuck", work[r], None) \/ StepDone(r, work[r], c)
      BY <1>4 DEF ToolCached
    <2> HIDE DEF c
    <2>2. CASE Leave(r, "stuck", work[r], None)
      BY <1>1, <2>2, GoesAway DEF Shape, Kept, Closed
    <2>3. CASE StepDone(r, work[r], c)
      BY <1>1, StepShape, <2>3, <2>4
    <2> QED
      BY <2>1, <2>2, <2>3
  <1> QED
    BY <1>2, <1>3, <1>4

LEMMA DistillShape ==
    ASSUME Inv, NEW r \in Runs, Distill(r)
    PROVE  Shape(r)
  BY GoesAway, RunsOfTheLoop DEF Distill, Shape, Begun, Looping, Kept, Closed

\* Every step of the system, by shape.
LEMMA Shapes ==
    ASSUME Inv, [Next]_vars
    PROVE  \/ \E r \in Runs : Start(r)
           \/ \E r \in Runs : Begin(r)
           \/ \E r \in Runs : Shape(r)
           \/ \E r \in Runs : Chatted(r)
           \/ \E r \in Runs : SetupFails(r)
           \/ \E r \in Runs : Finish(r)
           \/ \E r \in Runs : CloseChat(r)
           \/ StopChat
           \/ Crash
           \/ UNCHANGED vars
  <1>1. ASSUME NEW r \in Runs, Reply(r) PROVE Shape(r)
    <2>1. CASE ReplyRepeats(r) \/ ReplyTruncated(r) \/ ReplyDeclares(r)
      BY <2>1, PlainReplyShape
    <2>2. ASSUME NEW plan \in SUBSET Tasks, NEW ticked \in SUBSET plan,
                 \/ ReplyFinal(r, plan, ticked)
                 \/ ReplyText(r, plan, ticked)
                 \/ \E n \in 1..MaxSteps : ReplyTools(r, plan, ticked, n)
          PROVE  Shape(r)
      <3>1. 1 \in 1..MaxSteps
        BY LimitsAreNat
      <3> QED
        BY <2>2, <3>1, PlanReplyShape
    <2> QED
      BY <1>1, <2>1, <2>2 DEF Reply
  <1>2. ASSUME NEW r \in Runs, Tool(r) PROVE Shape(r)
    <2>1. ASSUME NEW a \in Actions, NEW ok \in BOOLEAN, NEW new \in BOOLEAN,
                 ToolExecuted(r, a, ok, new)
          PROVE  Shape(r)
      BY <2>1, ExecutedShape
    <2> QED
      BY <1>2, <2>1, PlainToolShape DEF Tool
  <1>3. ASSUME NEW r \in Runs, \E kind \in Failures : LlmFails(r, kind) PROVE Shape(r)
    BY <1>3, CallShape
  <1>4. "other" \in Failures
    BY DEF Failures
  <1>5. ASSUME NEW r \in Runs, ReflectPasses(r) PROVE Shape(r)
    <2>1. [g \in Gaps |-> None] \in [Gaps -> Actions \cup {None}]
      OBVIOUS
    <2> QED
      BY <1>5, <2>1, ReflectShape
  <1>6. ASSUME NEW r \in Runs, Advance(r)
        PROVE  SetupFails(r) \/ Begin(r) \/ Shape(r) \/ Chatted(r) \/ Finish(r) \/ CloseChat(r)
    BY <1>1, <1>2, <1>3, <1>4, <1>5, <1>6, StartingShape, RoundShape, CallShape,
       PlainReplyShape, ReflectShape, DistillShape DEF Advance
  <1> QED
    BY <1>6 DEF Next

-----------------------------------------------------------------------------
(***************************************************************************)
(* The invariant, conjunct by conjunct.                                    *)
(***************************************************************************)
LEMMA InvInitially == Init => Inv
  <1> SUFFICES ASSUME Init PROVE Inv
    OBVIOUS
  <1>1. Zero \in Counters
    BY LimitsAreNat DEF Zero, Counters
  <1>2. TypeOK
    <2>1. faults \in 0..MaxFaults
      BY NumberAssumption DEF Init
    <2>2. round \in [Runs -> Nat] /\ \A q \in Runs : round[q] <= MaxIters[q]
      BY LimitsAreNat DEF Init
    <2> QED
      BY <1>1, <2>1, <2>2, FreshIsSound DEF Init, TypeOK, Begun, Looping
  <1>3. WorkIsLocal /\ StepsAreLeft /\ WorksAreSound
    BY FreshIsSound DEF Init, WorkIsLocal, StepsAreLeft, WorksAreSound, Looping, Row
  <1>4. RunningMeansARun /\ StopsHaveCause /\ CancelledHasCause
    BY DEF Init, RunningMeansARun, StopsHaveCause, CancelledHasCause, Begun, Looping
  <1>5. Companions /\ RowIsResumed /\ LastIsFinal
    BY DEF Init, Companions, RowIsResumed, LastIsFinal, Begun, Looping
  <1> QED
    BY <1>2, <1>3, <1>4, <1>5 DEF Inv

LEMMA RoundReset ==
    ASSUME TypeOK, NEW r \in Runs, round' = [round EXCEPT ![r] = 0]
    PROVE  round' \in [Runs -> Nat] /\ \A q \in Runs : round'[q] <= MaxIters[q]
  <1>1. round \in [Runs -> Nat] /\ \A q \in Runs : round[q] <= MaxIters[q]
    BY DEF TypeOK
  <1> QED
    BY <1>1, LimitsAreNat

LEMMA FaultCounts ==
    ASSUME TypeOK, StopChat \/ Crash
    PROVE  faults' \in 0..MaxFaults
  <1>1. faults \in 0..MaxFaults /\ faults < MaxFaults /\ faults' = faults + 1
    BY DEF TypeOK, StopChat, Crash
  <1> QED
    BY <1>1, NumberAssumption

LEMMA TypeKept == Inv /\ [Next]_vars => TypeOK'
  <1> SUFFICES ASSUME Inv, [Next]_vars PROVE TypeOK'
    OBVIOUS
  <1>0. TypeOK /\ Zero \in Counters /\ Fresh \in Works
    BY FreshIsSound, LimitsAreNat DEF Zero, Counters, Inv
  <1> USE DEF Begun, Looping
  <1>1. ASSUME NEW r \in Runs, Start(r) PROVE TypeOK'
    BY <1>0, <1>1 DEF TypeOK, Start, SubmitChat, RunTick, Inbound, Request, history
  <1>2. ASSUME NEW r \in Runs, Begin(r) PROVE TypeOK'
    BY <1>0, <1>2 DEF TypeOK, Begin, own
  <1>3. ASSUME NEW r \in Runs, NEW where, NEW w, NEW c, NEW row, Advances(r, where, w, c, row)
        PROVE  TypeOK'
    BY <1>0, <1>3 DEF TypeOK, Advances
  <1>4. ASSUME NEW r \in Runs, NEW how, NEW w, NEW row, Leaves(r, how, w, row)
        PROVE  TypeOK'
    <2>1. row \in Works \cup {None} /\ left' \in Ends \cup {None}
      BY <1>4 DEF Leaves, Leave, Row
    <2>2. /\ round' \in [Runs -> Nat]
          /\ \A q \in Runs : round'[q] <= MaxIters[q]
      BY <1>0, <1>4, RoundReset DEF Leaves, Leave, Forget
    <2> QED
      BY <1>0, <1>4, <2>1, <2>2 DEF TypeOK, Leaves, Leave, Forget
  <1>5. ASSUME NEW r \in Runs, Chatted(r) PROVE TypeOK'
    <2>1. End(r, "answered", work[r]) \in Ends
      BY <1>0, <1>5, FreshIsSound DEF TypeOK, End, Ends
    <2>2. /\ round' \in [Runs -> Nat]
          /\ \A q \in Runs : round'[q] <= MaxIters[q]
      BY <1>0, <1>5, RoundReset DEF Chatted, Forget
    <2> QED
      BY <1>0, <1>5, <2>1, <2>2 DEF TypeOK, Chatted, Forget, Lower
  <1>6. ASSUME NEW r \in Runs, SetupFails(r) \/ Finish(r) \/ CloseChat(r) PROVE TypeOK'
    BY <1>0, <1>6 DEF TypeOK, SetupFails, Finish, CloseChat, Lower, own, history
  <1>7. CASE StopChat
    BY <1>0, <1>7, FaultCounts DEF TypeOK, StopChat, own
  <1>8. CASE Crash
    <2>1. /\ round' \in [Runs -> Nat]
          /\ \A q \in Runs : round'[q] <= MaxIters[q]
      BY <1>8, LimitsAreNat DEF Crash
    <2> QED
      BY <1>0, <1>8, <2>1, FaultCounts DEF TypeOK, Crash
  <1>9. CASE UNCHANGED vars
    BY <1>0, <1>9 DEF TypeOK, vars, own, history
  <1> QED
    BY <1>1, <1>2, <1>3, <1>4, <1>5, <1>6, <1>7, <1>8, <1>9, Shapes DEF Shape

\* A run works, has steps left and has probes left only inside its loop.
LEMMA WorkKept ==
    ASSUME Inv, [Next]_vars
    PROVE  (WorkIsLocal /\ StepsAreLeft /\ WorksAreSound)'
  <1>0. /\ TypeOK /\ WorkIsLocal /\ StepsAreLeft /\ WorksAreSound
        /\ pc \in [Runs -> Begun \cup {"idle", "queued", "ending", "closing", "ended"}]
        /\ work \in [Runs -> Works] /\ loop \in [Runs -> Counters]
    BY DEF Inv, TypeOK
  <1> USE FreshIsSound DEF WorkIsLocal, StepsAreLeft, WorksAreSound, Begun, Looping
  <1>1. ASSUME NEW r \in Runs, Start(r)
        PROVE  (WorkIsLocal /\ StepsAreLeft /\ WorksAreSound)'
    BY <1>0, <1>1 DEF Start, SubmitChat, RunTick, Inbound, Request, Row
  <1>2. ASSUME NEW r \in Runs, Begin(r)
        PROVE  (WorkIsLocal /\ StepsAreLeft /\ WorksAreSound)'
    BY <1>0, <1>2 DEF Begin, own, Row
  <1>3. ASSUME NEW r \in Runs, NEW where, NEW w, NEW c, NEW row, Advances(r, where, w, c, row)
        PROVE  (WorkIsLocal /\ StepsAreLeft /\ WorksAreSound)'
    BY <1>0, <1>3 DEF Advances, Row
  <1>4. ASSUME NEW r \in Runs, NEW how, NEW w, NEW row, Leaves(r, how, w, row)
        PROVE  (WorkIsLocal /\ StepsAreLeft /\ WorksAreSound)'
    BY <1>0, <1>4 DEF Leaves, Leave, Forget, Row
  <1>5. ASSUME NEW r \in Runs, Chatted(r)
        PROVE  (WorkIsLocal /\ StepsAreLeft /\ WorksAreSound)'
    BY <1>0, <1>5 DEF Chatted, Forget, Row
  <1>6. ASSUME NEW r \in Runs, SetupFails(r) \/ Finish(r) \/ CloseChat(r)
        PROVE  (WorkIsLocal /\ StepsAreLeft /\ WorksAreSound)'
    BY <1>0, <1>6 DEF SetupFails, Finish, CloseChat, own, history, Row
  <1>7. CASE StopChat
    BY <1>0, <1>7 DEF StopChat, own, Row
  <1>8. CASE Crash
    BY <1>0, <1>8 DEF Crash, Row
  <1>9. CASE UNCHANGED vars
    BY <1>0, <1>9 DEF vars, own, Row
  <1> QED
    BY <1>1, <1>2, <1>3, <1>4, <1>5, <1>6, <1>7, <1>8, <1>9, Shapes DEF Shape

\* The flag, and why it is down.
LEMMA FlagKept ==
    ASSUME Inv, [Next]_vars
    PROVE  (RunningMeansARun /\ StopsHaveCause /\ CancelledHasCause)'
  <1>0. /\ RunningMeansARun /\ StopsHaveCause /\ CancelledHasCause
        /\ pc \in [Runs -> Begun \cup {"idle", "queued", "ending", "closing", "ended"}]
        /\ asked \in [Runs -> BOOLEAN] /\ cleared \in [Runs -> BOOLEAN]
    BY DEF Inv, TypeOK
  <1> USE DEF RunningMeansARun, StopsHaveCause, CancelledHasCause, Begun, Looping
  <1>1. ASSUME NEW r \in Runs, Start(r)
        PROVE  (RunningMeansARun /\ StopsHaveCause /\ CancelledHasCause)'
    BY <1>0, <1>1 DEF Start, SubmitChat, RunTick, Inbound, Request, history
  <1>2. ASSUME NEW r \in Runs, Begin(r)
        PROVE  (RunningMeansARun /\ StopsHaveCause /\ CancelledHasCause)'
    BY <1>0, <1>2 DEF Begin
  <1>3. ASSUME NEW r \in Runs, NEW where, NEW w, NEW c, NEW row, Advances(r, where, w, c, row)
        PROVE  (RunningMeansARun /\ StopsHaveCause /\ CancelledHasCause)'
    BY <1>0, <1>3 DEF Advances
  <1>4. ASSUME NEW r \in Runs, NEW how, NEW w, NEW row, Leaves(r, how, w, row)
        PROVE  (RunningMeansARun /\ StopsHaveCause /\ CancelledHasCause)'
    <2>1. RunningMeansARun'
      BY <1>0, <1>4 DEF Leaves, Leave, Forget
    <2>2. StopsHaveCause'
      BY <1>0, <1>4 DEF Leaves, Leave, Forget
    <2>3. CancelledHasCause'
      BY <1>0, <1>4 DEF Leaves, Leave, End
    <2> QED
      BY <2>1, <2>2, <2>3
  <1>5. ASSUME NEW r \in Runs, Chatted(r)
        PROVE  (RunningMeansARun /\ StopsHaveCause /\ CancelledHasCause)'
    BY <1>0, <1>5 DEF Chatted, Forget, Lower, End
  <1>6. ASSUME NEW r \in Runs, SetupFails(r) \/ Finish(r) \/ CloseChat(r)
        PROVE  (RunningMeansARun /\ StopsHaveCause /\ CancelledHasCause)'
    <2>1. CASE SetupFails(r)
      BY <1>0, <2>1 DEF SetupFails, history
    <2>2. CASE Finish(r) \/ CloseChat(r)
      BY <1>0, <2>2 DEF Finish, CloseChat, Lower
    <2> QED
      BY <1>6, <2>1, <2>2
  <1>7. CASE StopChat
    BY <1>0, <1>7 DEF StopChat
  <1>8. CASE Crash
    BY <1>0, <1>8 DEF Crash
  <1>9. CASE UNCHANGED vars
    BY <1>0, <1>9 DEF vars, own, history
  <1> QED
    BY <1>1, <1>2, <1>3, <1>4, <1>5, <1>6, <1>7, <1>8, <1>9, Shapes DEF Shape

\* Who shares the session, and what the checkpoint holds for whom.
LEMMA RowKept ==
    ASSUME Inv, [Next]_vars
    PROVE  (Companions /\ RowIsResumed /\ LastIsFinal)'
  <1>0. /\ Companions /\ RowIsResumed /\ LastIsFinal
        /\ pc \in [Runs -> Begun \cup {"idle", "queued", "ending", "closing", "ended"}]
        /\ work \in [Runs -> Works]
        /\ shared \in [Runs -> BOOLEAN]
    BY DEF Inv, TypeOK
  <1> USE DEF Companions, RowIsResumed, LastIsFinal, Begun, Looping
  <1>1. ASSUME NEW r \in Runs, Start(r)
        PROVE  (Companions /\ RowIsResumed /\ LastIsFinal)'
    BY <1>0, <1>1 DEF Start, SubmitChat, RunTick, Inbound, Request, history
  <1>2. ASSUME NEW r \in Runs, Begin(r)
        PROVE  (Companions /\ RowIsResumed /\ LastIsFinal)'
    BY <1>0, <1>2 DEF Begin, own
  <1>3. ASSUME NEW r \in Runs, NEW where, NEW w, NEW c, NEW row, Advances(r, where, w, c, row)
        PROVE  (Companions /\ RowIsResumed /\ LastIsFinal)'
    <2>1. Companions' /\ LastIsFinal'
      BY <1>0, <1>3 DEF Advances
    <2>2. RowIsResumed'
      <3> SUFFICES ASSUME NEW q \in Runs, pc'[q] \in Looping, ~shared[q], ckpt' # None
                   PROVE  Resumable(work'[q])
        BY <1>3 DEF Advances
      <3>1. CASE q = r
        <4>1. work'[q] = w
          BY <1>0, <1>3, <3>1 DEF Advances
        <4>5. pc'[r] = where
          BY <1>0, <1>3 DEF Advances
        <4>6. where \in Looping
          BY <3>1, <4>5
        <4>7. ckpt' = row
          BY <1>3 DEF Advances
        <4>8. row = ckpt \/ Resumable(w)
          BY <1>3, Zenon DEF Advances
        <4>2. where \in Looping /\ ckpt' = row /\ (row = ckpt \/ Resumable(w))
          BY <4>6, <4>7, <4>8
        <4>3. CASE row = ckpt /\ pc[r] \in Looping
          BY <1>0, <1>3, <3>1, <4>1, <4>2, <4>3 DEF Advances
        <4>4. CASE row = ckpt /\ pc[r] \notin Looping
          <5>1. w = ckpt
            BY <1>3, <4>2, <4>4 DEF Advances
          <5>2. Resumable(ckpt)
            BY <4>2, <4>4 DEF Inv, WorksAreSound, Row
          <5> QED
            BY <4>1, <5>1, <5>2
        <4> QED
          BY <4>1, <4>2, <4>3, <4>4
      <3>2. CASE q # r
        BY <1>0, <1>3, <3>2 DEF Advances
      <3> QED
        BY <3>1, <3>2
    <2> QED
      BY <2>1, <2>2
  <1>4. ASSUME NEW r \in Runs, NEW how, NEW w, NEW row, Leaves(r, how, w, row)
        PROVE  (Companions /\ RowIsResumed /\ LastIsFinal)'
    <2>1. Companions'
      BY <1>0, <1>4 DEF Leaves, Leave, Forget
    <2>2. RowIsResumed'
      BY <1>0, <1>4 DEF Leaves, Leave, Forget
    <2>3. left' = End(r, how, w) /\ ckpt' = row /\ End(r, how, w).shared = shared[r]
      BY <1>4 DEF Leaves, Leave, End
    <2>4. ~shared[r] => \A q \in Runs : pc'[q] \notin Begun
      BY <1>0, <1>4 DEF Leaves, Leave, Forget
    <2>5. ~shared[r] => Matches(ckpt', left')
      BY <1>4, <2>3 DEF Leaves
    <2>6. LastIsFinal'
      BY <2>3, <2>4, <2>5 DEF Matches, Unfinished, Resumable
    <2> QED
      BY <2>1, <2>2, <2>6
  <1>5. ASSUME NEW r \in Runs, Chatted(r)
        PROVE  (Companions /\ RowIsResumed /\ LastIsFinal)'
    <2>1. Companions' /\ RowIsResumed'
      BY <1>0, <1>5 DEF Chatted, Forget, Lower
    <2>2. left'.shared = shared[r] /\ left'.how = "answered"
      BY <1>5 DEF Chatted, End
    <2>3. Matches(ckpt', left')
      BY <2>2 DEF Matches, Closed
    <2>4. ~shared[r] => \A q \in Runs : pc'[q] \notin Begun
      BY <1>0, <1>5 DEF Chatted, Forget
    <2> QED
      BY <2>1, <2>2, <2>3, <2>4 DEF Matches, Unfinished, Resumable
  <1>6. ASSUME NEW r \in Runs, SetupFails(r) \/ Finish(r) \/ CloseChat(r)
        PROVE  (Companions /\ RowIsResumed /\ LastIsFinal)'
    BY <1>0, <1>6 DEF SetupFails, Finish, CloseChat, Lower, own, history
  <1>7. CASE StopChat
    BY <1>0, <1>7 DEF StopChat, own
  <1>8. CASE Crash
    BY <1>0, <1>8 DEF Crash
  <1>9. CASE UNCHANGED vars
    BY <1>0, <1>9 DEF vars, own, history
  <1> QED
    BY <1>1, <1>2, <1>3, <1>4, <1>5, <1>6, <1>7, <1>8, <1>9, Shapes DEF Shape

LEMMA InvKept == Inv /\ [Next]_vars => Inv'
  BY TypeKept, WorkKept, FlagKept, RowKept DEF Inv

-----------------------------------------------------------------------------
(***************************************************************************)
(* The theorems.                                                           *)
(***************************************************************************)
\* The inductive invariant holds in every reachable state.
THEOREM InvAlways == Spec => []Inv
  BY InvInitially, InvKept, PTL DEF Spec

\* Every variable keeps its type, the rounds of a run within its budget and
\* the steps left within the reply's.
THEOREM LoopTypes == Spec => []TypeOK
  <1>1. Inv => TypeOK
    BY DEF Inv
  <1> QED
    BY <1>1, InvAlways, PTL

\* The running flag of a session never outlives its runs, so that a tick is
\* not skipped for ever.
THEOREM TheFlagIsLowered == Spec => []RunningMeansARun
  <1>1. Inv => RunningMeansARun
    BY DEF Inv
  <1> QED
    BY <1>1, InvAlways, PTL

\* No run is cut short without a stop request or another run of the session
\* that lowered their flag.
THEOREM CancelsHaveCauses == Spec => []CancelledHasCause
  <1>1. Inv => CancelledHasCause
    BY DEF Inv
  <1> QED
    BY <1>1, InvAlways, PTL

\* When a run had the session to itself, the checkpoint it leaves is the one
\* its outcome calls for.
THEOREM CheckpointsMatch == Spec => []CheckpointMatchesOutcome
  <1>1. Inv => CheckpointMatchesOutcome
    BY DEF Inv, LastIsFinal, Matches, CheckpointMatchesOutcome, Quiet
  <1> QED
    BY <1>1, InvAlways, PTL

\* A gap is probed at most ProbesPerGap times over all the runs that resume
\* each other's checkpoint.
THEOREM ProbesStayBounded == Spec => []ProbesAreBounded
  <1>1. Inv => ProbesAreBounded
    BY DEF Inv, WorksAreSound, Row, WithinProbes, ProbesAreBounded
  <1> QED
    BY <1>1, InvAlways, PTL

\* What a step may do to the subtasks of a run that repairs.
PlanIsFrozen ==
    \A r \in Runs : work[r].fix /\ pc'[r] \in Looping =>
        /\ work'[r].open = work[r].open /\ work'[r].done = work[r].done
        /\ work'[r].fix

\* The verifier's rejection freezes the subtasks to the end of the run.
THEOREM RepairsFreezePlans == Spec => RepairFreezesPlan
  <1>1. ASSUME Inv, [Next]_vars PROVE [PlanIsFrozen]_vars
    <2> SUFFICES ASSUME NEW q \in Runs, work[q].fix, pc'[q] \in Looping
                 PROVE  /\ work'[q].open = work[q].open /\ work'[q].done = work[q].done
                        /\ work'[q].fix
      BY DEF PlanIsFrozen
    <2>0. /\ pc \in [Runs -> Begun \cup {"idle", "queued", "ending", "closing", "ended"}]
          /\ work \in [Runs -> Works]
      BY <1>1 DEF Inv, TypeOK
    <2>1. Fresh.fix = FALSE
      BY DEF Fresh
    <2>2. pc[q] \in Looping
      BY <1>1, <2>1 DEF Inv, WorkIsLocal
    <2> USE <2>0 DEF Begun, Looping
    <2>3. ASSUME NEW r \in Runs, NEW where, NEW w, NEW c, NEW row, Advances(r, where, w, c, row)
          PROVE  \/ work'[q] = work[q]
                 \/ w.fix /\ w.open = work[q].open /\ w.done = work[q].done /\ work'[q] = w
      BY <2>2, <2>3 DEF Advances
    <2>4. ASSUME NEW r \in Runs, NEW how, NEW w, NEW row, Leaves(r, how, w, row)
          PROVE  work'[q] = work[q]
      BY <2>4 DEF Leaves, Leave, Forget
    <2>5. ASSUME NEW r \in Runs, Chatted(r) PROVE work'[q] = work[q]
      BY <2>5 DEF Chatted, Forget
    <2>6. ASSUME NEW r \in Runs, Start(r) \/ SetupFails(r) \/ Begin(r) \/ Finish(r) \/ CloseChat(r)
          PROVE  work'[q] = work[q]
      BY <2>6 DEF Start, SubmitChat, RunTick, Inbound, Request, SetupFails, Begin, Finish,
         CloseChat, own, history
    <2>7. ASSUME StopChat \/ UNCHANGED vars PROVE work'[q] = work[q]
      BY <2>7 DEF StopChat, vars, own
    <2>8. ~Crash
      BY DEF Crash
    <2> QED
      BY <1>1, <2>3, <2>4, <2>5, <2>6, <2>7, <2>8, Shapes DEF Shape
  <1>2. RepairFreezesPlan <=> [][PlanIsFrozen]_vars
    BY DEF RepairFreezesPlan, PlanIsFrozen
  <1> QED
    BY <1>1, <1>2, InvAlways, PTL DEF Spec
=============================================================================
