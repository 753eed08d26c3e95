--------------------------- MODULE NotificationOutbox ---------------------------
(***************************************************************************)
(* How results are announced in IM channels (notifications.py).            *)
(*                                                                         *)
(* finish_run_success writes a delivery row in the transaction of its       *)
(* verdict; RunExecution has that side.  A notifier process polls: a pass   *)
(* (deliver_pending) reads the rows that are due, sends them one by one and *)
(* commits all outcomes at once, at its end.  What was sent is outside the   *)
(* database and stays sent, whatever becomes of the pass.                   *)
(*                                                                         *)
(* One notifier is deployed; a second one overlaps with it while containers *)
(* are replaced, and rows are read without a lock.                          *)
(***************************************************************************)
EXTENDS Integers, FiniteSets

CONSTANTS
    Deliveries,           \* rows of scheduled_task_notification_deliveries
    Notifiers,            \* processes
    MaxDeliveryAttempts,  \* MAX_DELIVERY_ATTEMPTS    3
    MaxCrashes            \* bound of the model: deaths of notifiers

(* The pause after the a-th failed attempt, in minutes. *)
RetryDelay(a) == 2^(a - 1)

ASSUME OutboxAssumption ==
    /\ MaxDeliveryAttempts \in Nat \ {0}
    /\ MaxCrashes \in Nat
    /\ \A a \in 1 .. MaxDeliveryAttempts : RetryDelay(a) \in Nat

VARIABLES
    state,     \* .state, "none" for a row not yet inserted
    attempts,  \* .attempts
    wait,      \* .next_attempt_at, as ticks left
    sent,      \* how often the channel was given the message
    notices,   \* failure notices in the chat session
    pc,        \* what each notifier is doing
    todo,      \* the rows of its pass it has not come to
    seen,      \* .attempts of each row as the pass read it
    outcome,   \* what it will commit for each row
    crashes

rowVars  == <<state, attempts, wait, notices>>
passVars == <<pc, todo, seen, outcome>>
vars     == <<rowVars, sent, passVars, crashes>>

Settled == {"delivered", "failed"}

TypeOK ==
    /\ state \in [Deliveries -> {"none", "pending"} \cup Settled]
    /\ attempts \in [Deliveries -> 0 .. MaxDeliveryAttempts]
    /\ wait \in [Deliveries -> Nat]
    /\ sent \in [Deliveries -> Nat]
    /\ notices \in [Deliveries -> Nat]
    /\ pc \in [Notifiers -> {"down", "idle", "pass"}]
    /\ todo \in [Notifiers -> SUBSET Deliveries]
    /\ seen \in [Notifiers -> [Deliveries -> 0 .. MaxDeliveryAttempts]]
    /\ outcome \in [Notifiers -> [Deliveries -> {"none", "ok", "error"}]]
    /\ crashes \in 0 .. MaxCrashes

NoOutcome == [d \in Deliveries |-> "none"]

Init ==
    /\ state = [d \in Deliveries |-> "none"]
    /\ attempts = [d \in Deliveries |-> 0]
    /\ wait = [d \in Deliveries |-> 0]
    /\ sent = [d \in Deliveries |-> 0]
    /\ notices = [d \in Deliveries |-> 0]
    /\ pc = [n \in Notifiers |-> "idle"]
    /\ todo = [n \in Notifiers |-> {}]
    /\ seen = [n \in Notifiers |-> attempts]
    /\ outcome = [n \in Notifiers |-> NoOutcome]
    /\ crashes = 0

(* finish_run_success. *)
Insert(d) ==
    /\ state[d] = "none"
    /\ state' = [state EXCEPT ![d] = "pending"]
    /\ UNCHANGED <<attempts, wait, sent, notices, passVars, crashes>>

Tick ==
    /\ \E d \in Deliveries : wait[d] > 0
    /\ wait' = [d \in Deliveries |-> IF wait[d] > 0 THEN wait[d] - 1 ELSE 0]
    /\ UNCHANGED <<state, attempts, sent, notices, passVars, crashes>>

(* Mutant: NULL <= now is not true, and new rows have no next_attempt_at. *)
DueWhenScheduled ==
    {d \in Deliveries : state[d] = "pending" /\ wait[d] = 0 /\ attempts[d] > 0}

Due == {d \in Deliveries : state[d] = "pending" /\ wait[d] = 0}

StartPass(n) ==
    /\ pc[n] = "idle"
    /\ Due # {}
    /\ pc' = [pc EXCEPT ![n] = "pass"]
    /\ todo' = [todo EXCEPT ![n] = Due]
    /\ seen' = [seen EXCEPT ![n] = attempts]
    /\ UNCHANGED <<rowVars, sent, outcome, crashes>>

(* Mutant: an error before sending is swallowed, and the row counts as sent. *)
SkipsUndeliverable(n, d, result, reached) ==
    /\ pc[n] = "pass" /\ d \in todo[n]
    /\ sent' = IF reached THEN [sent EXCEPT ![d] = @ + 1] ELSE sent
    /\ outcome' = [outcome EXCEPT ![n][d] = IF reached THEN result ELSE "ok"]
    /\ todo' = [todo EXCEPT ![n] = @ \ {d}]
    /\ UNCHANGED <<rowVars, pc, seen, crashes>>

(* One row: channel, run, task, destination or result may be missing, and   *)
(* send_text may fail, before or after the message has reached the channel. *)
Send(n, d, result, reached) ==
    /\ pc[n] = "pass" /\ d \in todo[n]
    /\ result = "ok" => reached
    /\ sent' = IF reached THEN [sent EXCEPT ![d] = @ + 1] ELSE sent
    /\ outcome' = [outcome EXCEPT ![n][d] = result]
    /\ todo' = [todo EXCEPT ![n] = @ \ {d}]
    /\ UNCHANGED <<rowVars, pc, seen, crashes>>

Leave(n, label) ==
    /\ pc' = [pc EXCEPT ![n] = label]
    /\ todo' = [todo EXCEPT ![n] = {}]
    /\ seen' = [seen EXCEPT ![n] = [d \in Deliveries |-> 0]]
    /\ outcome' = [outcome EXCEPT ![n] = NoOutcome]

Failed(n, d) == outcome[n][d] = "error"

(* Mutant: the last attempt is not recognised. *)
ExhaustedLate(n, d) == Failed(n, d) /\ seen[n][d] + 1 > MaxDeliveryAttempts

Exhausted(n, d) == Failed(n, d) /\ seen[n][d] + 1 >= MaxDeliveryAttempts

(* Mutant: a row to be tried again is written back as pending. *)
CommitWholeRows(n) ==
    /\ pc[n] = "pass" /\ todo[n] = {}
    /\ state' = [d \in Deliveries |->
                   CASE outcome[n][d] = "ok" -> "delivered"
                     [] Exhausted(n, d)      -> "failed"
                     [] Failed(n, d)         -> "pending"
                     [] OTHER                -> state[d]]
    /\ attempts' = [d \in Deliveries |-> IF Failed(n, d) THEN seen[n][d] + 1
                                         ELSE attempts[d]]
    /\ wait' = [d \in Deliveries |-> IF Failed(n, d) /\ ~Exhausted(n, d)
                                     THEN RetryDelay(seen[n][d] + 1) ELSE wait[d]]
    /\ notices' = [d \in Deliveries |-> IF Exhausted(n, d) THEN notices[d] + 1
                                        ELSE notices[d]]
    /\ Leave(n, "idle")
    /\ UNCHANGED <<sent, crashes>>

(* The commit.  Only the columns a row's outcome changed are written, from  *)
(* the attempts the pass read; the notice goes into the same transaction.   *)
(* The notice needs the run and its task: runs are never deleted, and tasks  *)
(* only by their deleted_at.                                                *)
Commit(n) ==
    /\ pc[n] = "pass" /\ todo[n] = {}
    /\ state' = [d \in Deliveries |->
                   CASE outcome[n][d] = "ok" -> "delivered"
                     [] Exhausted(n, d)      -> "failed"
                     [] OTHER                -> state[d]]
    /\ attempts' = [d \in Deliveries |-> IF Failed(n, d) THEN seen[n][d] + 1
                                         ELSE attempts[d]]
    /\ wait' = [d \in Deliveries |-> IF Failed(n, d) /\ ~Exhausted(n, d)
                                     THEN RetryDelay(seen[n][d] + 1) ELSE wait[d]]
    /\ notices' = [d \in Deliveries |-> IF Exhausted(n, d) THEN notices[d] + 1
                                        ELSE notices[d]]
    /\ Leave(n, "idle")
    /\ UNCHANGED <<sent, crashes>>

(* A notifier dies; nothing of its pass is in the database. *)
Crash(n) ==
    /\ pc[n] # "down" /\ crashes < MaxCrashes
    /\ crashes' = crashes + 1
    /\ Leave(n, "down")
    /\ UNCHANGED <<rowVars, sent>>

Restart(n) ==
    /\ pc[n] = "down"
    /\ pc' = [pc EXCEPT ![n] = "idle"]
    /\ UNCHANGED <<rowVars, sent, todo, seen, outcome, crashes>>

-----------------------------------------------------------------------------
Continue(n) ==
    \/ \E d \in Deliveries, result \in {"ok", "error"}, reached \in BOOLEAN :
          Send(n, d, result, reached)
    \/ Commit(n)

Next ==
    \/ Tick
    \/ \E d \in Deliveries : Insert(d)
    \/ \E n \in Notifiers : StartPass(n) \/ Continue(n) \/ Crash(n) \/ Restart(n)

Spec == Init /\ [][Next]_vars

(* Clocks advance; a notifier polls, ends its pass and is restarted when it  *)
(* died (restart: unless-stopped).                                          *)
Fairness ==
    /\ WF_vars(Tick)
    /\ \A n \in Notifiers : /\ WF_vars(StartPass(n)) /\ WF_vars(Continue(n))
                            /\ WF_vars(Restart(n))

FairSpec == Spec /\ Fairness

-----------------------------------------------------------------------------
(* A row that says delivered was really given to the channel, and one that   *)
(* says failed has left its notice in the chat session: no crash between     *)
(* sending and committing, and no overlapping pass, separates the two.      *)
RowsTellTheTruth ==
    \A d \in Deliveries :
        /\ state[d] = "delivered" => sent[d] > 0
        /\ state[d] = "failed" => notices[d] > 0

(* A row in the queue has an attempt left, although attempts of overlapping  *)
(* passes overwrite each other.                                             *)
PendingHasAttemptLeft ==
    \A d \in Deliveries : state[d] = "pending" => attempts[d] < MaxDeliveryAttempts

(* A settled row is never queued again, not even by a pass that read it      *)
(* while it was pending and commits a retry afterwards.                      *)
SettledStaysSettled ==
    [][\A d \in Deliveries : state[d] \in Settled => state'[d] \in Settled]_vars

(* A single notifier sends at most MaxDeliveryAttempts copies, and one more  *)
(* for each time it died after sending.                                     *)
CopiesBounded == \A d \in Deliveries : sent[d] <= MaxDeliveryAttempts + crashes

(* Every result is announced or its failure noted in the end. *)
DeliveriesSettle == \A d \in Deliveries : state[d] = "pending" ~> state[d] \in Settled
=============================================================================
