----------------------------- MODULE AgentLoop -----------------------------
(***************************************************************************)
(* The runs of one chat session of a standard agent: who starts them (the  *)
(* user's message, a tick, an IM message), the model-driven loop of        *)
(* AgentRuntime._run_modular with its many exits, the stop button, and the *)
(* two things the runs of a session share: the flag `_running' of the API  *)
(* process and the checkpoint row that the next run resumes from.          *)
(*                                                                         *)
(* Both are keyed by (agent, session), so sessions do not interact and one *)
(* is modelled.  A model reply is abstracted to what the loop makes of it: *)
(* a PLAN, a FINAL, tool calls, or text of one of the kinds it tells apart.*)
(***************************************************************************)
EXTENDS Naturals, FiniteSets

CONSTANTS
    Runs,             \* invocations of run_agent in the session
    Tasks,            \* the subtasks a PLAN may name
    Gaps,             \* the evidence gaps the verifier may name
    Actions,          \* normalised tool calls a gap card may ask for
    None,             \* no checkpoint; no card
    MaxIters,         \* of each run: min(agent.max_iterations, policy)
    MaxSteps,         \* bound: tool steps of one reply
    ProbesPerGap,     \* distinct probes after which a gap is exhausted
    RejectLimit,      \* _REFLECT_FAIL_CONVERGE
    TextOnlyLimit,    \* _TEXT_ONLY_HARD_STOP_AT
    CachedLimit,      \* _CACHED_REFERENCE_HARD_STOP_AT
    ConfirmAt,        \* _COMPLETION_SIGNAL_CONFIRM_AT
    FailLimit,        \* [throttled, transport, other -> failures in a row]
    MaxFaults         \* bound: stop_chat requests and crashes

Failures == {"throttled", "transport", "other"}

ASSUME NumberAssumption ==
    /\ MaxIters \in [Runs -> Nat \ {0}]
    /\ {MaxSteps, ProbesPerGap, RejectLimit, TextOnlyLimit,
        CachedLimit, ConfirmAt} \subseteq Nat \ {0}
    /\ FailLimit \in [Failures -> Nat \ {0}]
    /\ MaxFaults \in Nat
ASSUME NoneAssumption == None \notin Actions /\ IsFiniteSet(Actions)

VARIABLES
    running,     \* hub._running[key]
    blocked,     \* key \in hub._auto_start_blocked
    ckpt,        \* the AgentRunState row of the session, or None
    pc, via,     \* each run: where it is, and who started it
    work,        \* each run: the part of AgentLoopState a checkpoint holds
    round,       \* each run: round_no
    loop,        \* each run: the counters local to _run_modular
    left,        \* how the run that left its loop last did, and with what
    \* History and bounds.
    asked,       \* a stop request arrived while the run was in progress
    cleared,     \* another run of the session reset the flag meanwhile
    shared,      \* another run of the session was in progress meanwhile
    faults

own     == <<via, work, round, loop>>
history == <<asked, cleared, shared>>
vars    == <<running, blocked, ckpt, pc, own, left, history, faults>>

(***************************************************************************)
(* AgentLoopState as far as a checkpoint keeps it.                         *)
(***************************************************************************)
Works == [open : SUBSET Tasks, done : SUBSET Tasks, found : BOOLEAN,
          fix : BOOLEAN, card : [Gaps -> Actions \cup {None}],
          tried : [Gaps -> SUBSET Actions]]

Fresh == [open |-> {}, done |-> {}, found |-> FALSE, fix |-> FALSE,
          card |-> [g \in Gaps |-> None], tried |-> [g \in Gaps |-> {}]]

\* _has_resumable_state: subtasks, results, files or gaps.
Resumable(w) == \/ w.open \cup w.done # {}
                \/ w.found
                \/ \E g \in Gaps : w.card[g] # None

Counters == [ran : BOOLEAN, quiet : BOOLEAN, todo : 0..MaxSteps,
             texts : Nat, rejects : Nat, cached : Nat, signals : Nat,
             drops : Nat, errors : Nat]

Zero == [ran |-> FALSE, quiet |-> FALSE, todo |-> 0, texts |-> 0, rejects |-> 0,
         cached |-> 0, signals |-> 0, drops |-> 0, errors |-> 0]

Looping == {"round", "llm", "confirm", "reflect", "tools", "distill"}
Begun   == Looping \cup {"starting", "chat"}
Kept    == {"error", "stalled", "budget"}       \* may leave a checkpoint
Closed  == {"delivered", "cancelled", "stuck"}  \* must not leave one
Ends    == [how : Kept \cup Closed \cup {"answered", "failed"}, work : Works,
            asked : BOOLEAN, cleared : BOOLEAN, shared : BOOLEAN]

TypeOK ==
    /\ running \in BOOLEAN /\ blocked \in BOOLEAN
    /\ ckpt \in Works \cup {None}
    /\ pc \in [Runs -> Begun \cup {"idle", "queued", "ending", "closing", "ended"}]
    /\ via \in [Runs -> {"none", "user", "tick", "im"}]
    /\ work \in [Runs -> Works]
    /\ round \in [Runs -> Nat] /\ \A r \in Runs : round[r] <= MaxIters[r]
    /\ loop \in [Runs -> Counters]
    /\ left \in Ends \cup {None}
    /\ asked \in [Runs -> BOOLEAN] /\ cleared \in [Runs -> BOOLEAN]
    /\ shared \in [Runs -> BOOLEAN]
    /\ faults \in 0..MaxFaults

Init ==
    /\ running = FALSE /\ blocked = FALSE /\ ckpt = None
    /\ pc = [r \in Runs |-> "idle"] /\ via = [r \in Runs |-> "none"]
    /\ work = [r \in Runs |-> Fresh]
    /\ round = [r \in Runs |-> 0]
    /\ loop = [r \in Runs |-> Zero]
    /\ left = None
    /\ asked = [r \in Runs |-> FALSE] /\ cleared = [r \in Runs |-> FALSE]
    /\ shared = [r \in Runs |-> FALSE]
    /\ faults = 0

-----------------------------------------------------------------------------
(***************************************************************************)
(* Who starts a run.  Only the user's own message lifts the block that a   *)
(* stop put on automatic starts.  The checks and the start are two steps:  *)
(* the run begins on a thread of its own.                                  *)
(***************************************************************************)
Request(r, source) ==
    /\ pc[r] = "idle"
    /\ pc' = [pc EXCEPT ![r] = "queued"]
    /\ via' = [via EXCEPT ![r] = source]
    /\ UNCHANGED <<running, ckpt, work, round, loop, left, history, faults>>

SubmitChat(r) == Request(r, "user") /\ blocked' = FALSE

RunTick(r) == ~blocked /\ ~running /\ Request(r, "tick") /\ UNCHANGED blocked

\* _running_keys of the channel runtime: one message of a chat at a time.
Inbound(r) ==
    /\ ~blocked
    /\ \A q \in Runs : via[q] # "im"
    /\ Request(r, "im")
    /\ UNCHANGED blocked

\* _run_agent_impl or what it looks up fails: there is no run to speak of.
SetupFails(r) ==
    /\ pc[r] = "queued"
    /\ pc' = [pc EXCEPT ![r] = IF via[r] = "user" THEN "closing" ELSE "ended"]
    /\ via' = [via EXCEPT ![r] = "none"]
    /\ UNCHANGED <<running, blocked, ckpt, work, round, loop, left, history, faults>>

\* Bug: a message that finds the session running only stops what runs.
BeginToggles(r) ==
    LET others == {q \in Runs \ {r} : pc[q] \in Begun} IN
    /\ pc[r] = "queued"
    /\ running' = ~running
    /\ pc' = [pc EXCEPT ![r] = "starting"]
    /\ shared' = [q \in Runs |-> \/ shared[q]
                                 \/ q \in others
                                 \/ q = r /\ others # {}]
    /\ left' = None
    /\ UNCHANGED <<blocked, ckpt, own, asked, cleared, faults>>

\* AgentRuntime.run up to the route: the flag is set whatever it was.
Begin(r) ==
    LET others == {q \in Runs \ {r} : pc[q] \in Begun} IN
    /\ pc[r] = "queued"
    /\ running' = TRUE
    /\ pc' = [pc EXCEPT ![r] = "starting"]
    /\ shared' = [q \in Runs |-> \/ shared[q]
                                 \/ q \in others
                                 \/ q = r /\ others # {}]
    /\ left' = None
    /\ UNCHANGED <<blocked, ckpt, own, asked, cleared, faults>>

-----------------------------------------------------------------------------
(***************************************************************************)
(* How a run leaves the loop.  `row' is what becomes of the checkpoint, `w'*)
(* the state it held.  The locals of the loop are gone.                    *)
(***************************************************************************)
Forget(r) ==
    /\ pc' = [pc EXCEPT ![r] = "ending"]
    /\ work' = [work EXCEPT ![r] = Fresh]
    /\ round' = [round EXCEPT ![r] = 0]
    /\ loop' = [loop EXCEPT ![r] = Zero]
    /\ asked' = [asked EXCEPT ![r] = FALSE]
    /\ shared' = [shared EXCEPT ![r] = FALSE]

\* The work is on record where the checkpoint is compared with it.
End(r, how, w) ==
    [how |-> how, work |-> IF how \in Kept /\ ~shared[r] THEN w ELSE Fresh,
     asked |-> asked[r], cleared |-> cleared[r], shared |-> shared[r]]

Leave(r, how, w, row) ==
    /\ Forget(r)
    /\ left' = End(r, how, w)
    /\ cleared' = [cleared EXCEPT ![r] = FALSE]
    /\ ckpt' = row
    /\ UNCHANGED <<running, blocked, via, faults>>

Goto(r, where) ==
    /\ pc' = [pc EXCEPT ![r] = where]
    /\ UNCHANGED <<running, blocked, ckpt, via, round, left, history, faults>>

SaveAndGoto(r, where, w) ==
    /\ pc' = [pc EXCEPT ![r] = where]
    /\ ckpt' = w
    /\ UNCHANGED <<running, blocked, via, round, left, history, faults>>

Work(r, w)     == work' = [work EXCEPT ![r] = w]
Count(r, c)    == loop' = [loop EXCEPT ![r] = c]
Unfinished(w)  == IF w.open # {} THEN w ELSE None

\* A missing or blocked capability, or a request that waits for a person.
Answer(r) ==
    /\ pc[r] = "starting"
    /\ Leave(r, "answered", work[r], ckpt)

\* Small talk: no cancel check, and the flag is reset before the answer.
Converse(r) == /\ pc[r] = "starting" /\ Goto(r, "chat")
               /\ UNCHANGED <<work, loop>>

\* The flag is one for the session: whoever resets it resets it for all.
Lower(r) == /\ running' = FALSE
            /\ cleared' = [q \in Runs |-> q # r /\ (cleared[q] \/ pc[q] \in Begun)]

Chatted(r) ==
    /\ pc[r] = "chat"
    /\ Forget(r)
    /\ left' = End(r, "answered", work[r])
    /\ Lower(r)
    /\ UNCHANGED <<blocked, ckpt, via, faults>>

\* _load_run_state: whatever the session's row holds is resumed.
Load(r) ==
    /\ pc[r] = "starting"
    /\ Goto(r, "round")
    /\ Work(r, IF ckpt = None THEN Fresh ELSE ckpt)
    /\ Count(r, Zero)

-----------------------------------------------------------------------------
(***************************************************************************)
(* The top of a round and the model call.                                  *)
(***************************************************************************)
\* The flag is looked at before a round and before each tool step.
NoticeStop(r) ==
    /\ \/ pc[r] = "round" /\ round[r] < MaxIters[r]
       \/ pc[r] = "tools"
    /\ ~running
    /\ Leave(r, "cancelled", work[r], None)

\* deliverable_ready: files are there and the last reply reads as a report.
DeliverableReady(r) ==
    /\ pc[r] = "round" /\ round[r] < MaxIters[r] /\ running
    /\ loop[r].ran /\ work[r].found
    /\ Leave(r, "delivered", work[r], None)

\* Bug: one round more than the budget.
AskOnceMore(r) ==
    /\ pc[r] = "round" /\ round[r] <= MaxIters[r] /\ running
    /\ pc' = [pc EXCEPT ![r] = "llm"]
    /\ round' = [round EXCEPT ![r] = @ + 1]
    /\ UNCHANGED <<running, blocked, ckpt, via, work, loop, left, history, faults>>

Ask(r) ==
    /\ pc[r] = "round" /\ round[r] < MaxIters[r] /\ running
    /\ pc' = [pc EXCEPT ![r] = "llm"]
    /\ round' = [round EXCEPT ![r] = @ + 1]
    /\ UNCHANGED <<running, blocked, ckpt, via, work, loop, left, history, faults>>

\* The for loop is over: no one looks at the flag any more.
BudgetExhausted(r) == /\ pc[r] = "round" /\ round[r] = MaxIters[r]
                      /\ Goto(r, "distill")
                      /\ UNCHANGED <<work, loop>>

LlmStopped(r) ==
    /\ pc[r] = "llm" /\ ~running
    /\ Leave(r, "cancelled", work[r], None)

\* Before any output, the first failure may switch to a fallback model.
RouteFallback(r) ==
    /\ pc[r] = "llm" /\ running /\ round[r] = 1
    /\ Goto(r, "round")
    /\ UNCHANGED <<work, loop>>

LlmFails(r, kind) ==
    LET c == IF kind = "transport" THEN [loop[r] EXCEPT !.drops  = @ + 1]
                                   ELSE [loop[r] EXCEPT !.errors = @ + 1]
        inARow == IF kind = "transport" THEN c.drops ELSE c.errors
    IN  /\ pc[r] = "llm" /\ running
        /\ IF inARow >= FailLimit[kind]
           THEN Leave(r, "error", work[r], IF Resumable(work[r]) THEN work[r] ELSE ckpt)
           ELSE Goto(r, "round") /\ Count(r, c) /\ UNCHANGED work

-----------------------------------------------------------------------------
(***************************************************************************)
(* What a reply does.  Every answer resets the failure counters and is the *)
(* one the next answer is compared with.                                   *)
(***************************************************************************)
Heard(r) == [loop[r] EXCEPT !.drops = 0, !.errors = 0, !.quiet = TRUE]

\* _merge_subtasks: the new list, with what was done before still done.
Merge(w, plan, ticked) ==
    LET done == ticked \cup (plan \cap w.done)
    IN  [w EXCEPT !.open = plan \ done, !.done = done]

\* Bug: the repair does not keep a new PLAN out.
PlannedAnyway(w, plan, ticked) == IF plan = {} THEN w ELSE Merge(w, plan, ticked)

\* A PLAN is dropped while the run repairs; an empty one names no subtask.
Planned(w, plan, ticked) == IF w.fix \/ plan = {} THEN w ELSE Merge(w, plan, ticked)

PlanRow(w, plan, ticked) == IF w.fix \/ plan = {} THEN ckpt ELSE Merge(w, plan, ticked)

\* The same words again, no tool, and nothing has changed in between.
ReplyRepeats(r) ==
    /\ pc[r] = "llm" /\ loop[r].quiet
    /\ Leave(r, "stalled", work[r], Unfinished(work[r]))

ReplyTruncated(r) ==
    /\ pc[r] = "llm"
    /\ Goto(r, "round")
    /\ Count(r, [Heard(r) EXCEPT !.signals = 0])
    /\ UNCHANGED work

\* FINAL wins over the tools of the same reply.  With an MCP selected, a
\* FINAL in the first round is sent back once before it is verified.
ReplyFinal(r, plan, ticked) ==
    LET w == Planned(work[r], plan, ticked)
        c == [Heard(r) EXCEPT !.quiet = (w = work[r])]
    IN  /\ pc[r] = "llm"
        /\ Work(r, w)
        /\ \/ /\ round[r] = 1
              /\ SaveAndGoto(r, "round", PlanRow(work[r], plan, ticked))
              /\ Count(r, [c EXCEPT !.signals = 0])
           \/ /\ SaveAndGoto(r, "reflect", PlanRow(work[r], plan, ticked))
              /\ Count(r, c)

ReplyTools(r, plan, ticked, n) ==
    LET w == Planned(work[r], plan, ticked) IN
    /\ pc[r] = "llm"
    /\ Work(r, w)
    /\ SaveAndGoto(r, "tools", PlanRow(work[r], plan, ticked))
    /\ Count(r, [Heard(r) EXCEPT !.quiet = (w = work[r]), !.todo = n,
                                 !.texts = 0, !.signals = 0])

\* A round of text: bare code is run as a shell step, a readable report or
\* the limit ends the run, anything else gets a hint and another round.
TextRound(r, w, c, row) ==
    \/ /\ SaveAndGoto(r, "tools", row)
       /\ Work(r, w)
       /\ Count(r, [c EXCEPT !.todo = 1, !.texts = 0, !.signals = 0])
    \/ /\ c.texts + 1 >= TextOnlyLimit \/ c.ran \/ w.found
       /\ Leave(r, "stuck", w, None)
    \/ /\ c.texts + 1 < TextOnlyLimit
       /\ SaveAndGoto(r, "round", row)
       /\ Work(r, w)
       /\ Count(r, [c EXCEPT !.texts = @ + 1])

ReplyText(r, plan, ticked) ==
    LET w == Planned(work[r], plan, ticked)
        c == [Heard(r) EXCEPT !.quiet = (w = work[r])]
    IN  /\ pc[r] = "llm"
        /\ TextRound(r, w, IF plan # {} /\ ~w.fix THEN c ELSE [c EXCEPT !.signals = 0],
                     PlanRow(work[r], plan, ticked))

\* Text that declares the task complete is confirmed before it is believed.
ReplyDeclares(r) ==
    LET c == [Heard(r) EXCEPT !.signals = @ + 1] IN
    /\ pc[r] = "llm"
    /\ \/ /\ c.signals >= ConfirmAt /\ work[r].found
          /\ Goto(r, "reflect") /\ Count(r, c) /\ UNCHANGED work
       \/ /\ c.signals >= ConfirmAt
          /\ Goto(r, "confirm") /\ Count(r, c) /\ UNCHANGED work
       \/ /\ c.signals < ConfirmAt
          /\ TextRound(r, work[r], c, ckpt)

ConfirmSignal(r) ==
    /\ pc[r] = "confirm"
    /\ \/ Goto(r, "reflect") /\ UNCHANGED <<work, loop>>
       \/ TextRound(r, work[r], [loop[r] EXCEPT !.signals = 0], ckpt)

-----------------------------------------------------------------------------
(***************************************************************************)
(* The verifier.                                                           *)
(***************************************************************************)
Accept(r, w) == Leave(r, "delivered", [w EXCEPT !.fix = FALSE], None)

\* PASS, a verdict without a usable gap, or no verdict at all.
ReflectPasses(r) == pc[r] = "reflect" /\ Accept(r, work[r])

\* _validated_gap_cards: not exhausted, and not what was already tried.
Valid(w, g, a) == /\ a # None
                  /\ Cardinality(w.tried[g]) < ProbesPerGap
                  /\ a \notin w.tried[g]

ReflectRejects(r, cards) ==
    LET valid == {g \in Gaps : Valid(work[r], g, cards[g])}
        w == [work[r] EXCEPT !.card = [g \in Gaps |->
                                        IF g \in valid THEN cards[g] ELSE @[g]]]
        c == [loop[r] EXCEPT !.rejects = @ + 1]
    IN  /\ pc[r] = "reflect"
        /\ valid # {}
        /\ IF c.rejects >= RejectLimit
           THEN Accept(r, w)
           ELSE /\ Work(r, [w EXCEPT !.fix = TRUE])
                /\ SaveAndGoto(r, "round", [w EXCEPT !.fix = TRUE])
                /\ Count(r, [c EXCEPT !.signals = 0])

-----------------------------------------------------------------------------
(***************************************************************************)
(* One tool step of a reply.                                               *)
(***************************************************************************)
StepDone(r, w, c) ==
    /\ Goto(r, IF c.todo = 1 THEN "round" ELSE "tools")
    /\ Work(r, w)
    /\ Count(r, [c EXCEPT !.todo = @ - 1])

AtTool(r) == pc[r] = "tools" /\ running

\* Not allowed, malformed, or a request for another MCP: nothing is run.
ToolSkipped(r) == AtTool(r) /\ StepDone(r, work[r], loop[r])

\* Bug: every executed tool call is filed as a probe of every open gap.
ProbeAny(w, a) == [w EXCEPT !.tried = [g \in Gaps |->
                    IF w.card[g] # None THEN @[g] \cup {a} ELSE @[g]]]

\* An executed probe is evidence for the gaps whose card asks for it.
Probe(w, a) == [w EXCEPT !.tried = [g \in Gaps |->
                    IF w.card[g] = a THEN @[g] \cup {a} ELSE @[g]]]

ToolExecuted(r, a, ok, new) ==
    LET w == Probe(work[r], a) IN
    /\ AtTool(r)
    /\ StepDone(r, [w EXCEPT !.found = @ \/ new],
                [loop[r] EXCEPT !.ran = TRUE, !.quiet = @ /\ ~new, !.cached = 0,
                                !.rejects = IF ok THEN 0 ELSE @])

\* A batch counts as tool work, but neither as evidence nor as a success.
ToolBatch(r, new) ==
    /\ AtTool(r)
    /\ StepDone(r, [work[r] EXCEPT !.found = @ \/ new],
                [loop[r] EXCEPT !.ran = TRUE, !.quiet = @ /\ ~new])

\* A result that is already there: a repeated READ / SHELL, or an MCP query.
ToolCached(r, reference) ==
    LET c == [loop[r] EXCEPT !.ran = TRUE,
                             !.cached = IF reference THEN @ + 1 ELSE @] IN
    /\ AtTool(r)
    /\ IF c.cached >= CachedLimit
       THEN Leave(r, "stuck", work[r], None)
       ELSE StepDone(r, work[r], c)

-----------------------------------------------------------------------------
(***************************************************************************)
(* The end of a run.                                                       *)
(***************************************************************************)
\* Bug: an exhausted budget closes the task like an accepted answer.
DistillForgets(r) == pc[r] = "distill" /\ Leave(r, "budget", work[r], None)

\* _distill_final, then the checkpoint of a task with open subtasks.
Distill(r) ==
    /\ pc[r] = "distill"
    /\ Leave(r, "budget", work[r], Unfinished(work[r]))

\* No LLM is configured, or a tool raises what the loop does not catch.
Raise(r) ==
    /\ pc[r] \in {"starting", "tools"}
    /\ Leave(r, "failed", work[r], ckpt)

\* Bug: the flag is left to the finally of the chat request.
FinishQuietly(r) ==
    /\ pc[r] = "ending"
    /\ pc' = [pc EXCEPT ![r] = IF via[r] = "user" THEN "closing" ELSE "ended"]
    /\ via' = [via EXCEPT ![r] = "none"]
    /\ UNCHANGED <<running, blocked, ckpt, work, round, loop, left, history, faults>>

\* The `finally' of AgentRuntime.run ...
Finish(r) ==
    /\ pc[r] = "ending"
    /\ Lower(r)
    /\ pc' = [pc EXCEPT ![r] = IF via[r] = "user" THEN "closing" ELSE "ended"]
    /\ via' = [via EXCEPT ![r] = "none"]
    /\ UNCHANGED <<blocked, ckpt, work, round, loop, left, asked, shared, faults>>

\* ... and the stop_chat in the `finally' of _run_chat_bg.
CloseChat(r) ==
    /\ pc[r] = "closing"
    /\ Lower(r)
    /\ pc' = [pc EXCEPT ![r] = "ended"]
    /\ UNCHANGED <<blocked, ckpt, own, left, asked, shared, faults>>

-----------------------------------------------------------------------------
StopChat ==
    /\ faults < MaxFaults
    /\ faults' = faults + 1
    /\ running' = FALSE /\ blocked' = TRUE
    /\ asked' = [r \in Runs |-> asked[r] \/ pc[r] \in Begun]
    /\ UNCHANGED <<ckpt, pc, own, left, cleared, shared>>

\* The tables of hub.py are memory; the checkpoint row is not.
Crash ==
    LET hit == {r \in Runs : pc[r] \notin {"idle", "ended"}} IN
    /\ faults < MaxFaults
    /\ faults' = faults + 1
    /\ running' = FALSE /\ blocked' = FALSE
    /\ pc' = [r \in Runs |-> IF r \in hit THEN "ended" ELSE pc[r]]
    /\ via' = [r \in Runs |-> "none"]
    /\ work' = [r \in Runs |-> Fresh]
    /\ round' = [r \in Runs |-> 0]
    /\ loop' = [r \in Runs |-> Zero]
    /\ asked' = [r \in Runs |-> FALSE] /\ cleared' = asked' /\ shared' = asked'
    /\ left' = None
    /\ UNCHANGED ckpt

Reply(r) ==
    \/ ReplyRepeats(r) \/ ReplyTruncated(r) \/ ReplyDeclares(r)
    \/ \E plan \in SUBSET Tasks : \E ticked \in SUBSET plan :
          \/ ReplyFinal(r, plan, ticked)
          \/ ReplyText(r, plan, ticked)
          \/ \E n \in 1..MaxSteps : ReplyTools(r, plan, ticked, n)

Tool(r) ==
    \/ ToolSkipped(r)
    \/ \E new \in BOOLEAN : ToolBatch(r, new)
    \/ \E reference \in BOOLEAN : ToolCached(r, reference)
    \/ \E a \in Actions, ok, new \in BOOLEAN : ToolExecuted(r, a, ok, new)

Start(r) == SubmitChat(r) \/ RunTick(r) \/ Inbound(r)

Advance(r) ==
    \/ SetupFails(r) \/ Begin(r) \/ Answer(r) \/ Converse(r) \/ Chatted(r) \/ Load(r)
    \/ NoticeStop(r) \/ DeliverableReady(r) \/ Ask(r) \/ BudgetExhausted(r)
    \/ LlmStopped(r) \/ RouteFallback(r) \/ \E kind \in Failures : LlmFails(r, kind)
    \/ Reply(r) \/ ConfirmSignal(r)
    \/ ReflectPasses(r)
    \/ \E cards \in [Gaps -> Actions \cup {None}] : ReflectRejects(r, cards)
    \/ Tool(r) \/ Distill(r) \/ Raise(r) \/ Finish(r) \/ CloseChat(r)

Next == (\E r \in Runs : Start(r) \/ Advance(r)) \/ StopChat \/ Crash

Spec == Init /\ [][Next]_vars

-----------------------------------------------------------------------------
(***************************************************************************)
(* Properties.                                                             *)
(***************************************************************************)
\* The flag never outlives the runs: if it did, every tick of the session
\* would be skipped from then on.
RunningMeansARun == running => \E r \in Runs : pc[r] \in Begun \cup {"ending"}

\* A run is cut short only because someone asked, or because another run of
\* the same session lowered the flag they share.
CancelledHasCause ==
    left # None /\ left.how = "cancelled" => left.asked \/ left.cleared

\* Once a session is quiet, the checkpoint is what the last run left it to
\* be: nothing after an accepted answer, a cancel or a hard stop; the whole
\* of the unfinished work after a paused or exhausted run.
Quiet == left # None /\ ~left.shared /\ \A r \in Runs : pc[r] \notin Begun

CheckpointMatchesOutcome ==
    Quiet =>
        /\ left.how \in Closed => ckpt = None
        /\ left.how \in {"stalled", "budget"} => ckpt = Unfinished(left.work)
        /\ left.how = "error" =>
              ckpt = IF Resumable(left.work) THEN left.work ELSE None

\* A gap gets at most so many distinct probes, over all the runs that resume
\* each other's work.
ProbesAreBounded ==
    \A w \in {work[r] : r \in Runs} \cup ({ckpt} \ {None}) :
        \A g \in Gaps : Cardinality(w.tried[g]) <= ProbesPerGap

\* From a rejection to the end of the run the subtasks stay as they are,
\* whatever PLAN the model comes up with.
RepairFreezesPlan ==
    [][\A r \in Runs : work[r].fix /\ pc'[r] \in Looping =>
          /\ work'[r].open = work[r].open /\ work'[r].done = work[r].done
          /\ work'[r].fix]_vars

(***************************************************************************)
(* Formulas that do not hold.                                              *)
(***************************************************************************)
\* A run the user stopped, and that did not break down, leaves nothing for
\* the next message to resume.
StoppedRunIsForgotten ==
    Quiet /\ left.asked /\ left.how # "failed" => ckpt = None

\* Only a stop request cancels a run.
CancelledWasAsked == left # None /\ left.how = "cancelled" => left.asked

\* A run that no one asked to stop is marked as running.
ActiveIsMarked == \A r \in Runs : pc[r] \in Looping /\ ~asked[r] => running
=============================================================================
