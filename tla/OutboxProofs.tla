----------------------------- MODULE OutboxProofs -----------------------------
(***************************************************************************)
(* NotificationOutbox proved for any number of deliveries and notifiers and *)
(* any limit of attempts; the bound on copies, for a single notifier.      *)
(***************************************************************************)
EXTENDS NotificationOutbox, TLAPS

(* A pass only handles rows that had an attempt left when it read them. *)
ReadWithAttemptLeft ==
    \A n \in Notifiers : \A d \in Deliveries :
        d \in todo[n] \/ outcome[n][d] # "none" => seen[n][d] < MaxDeliveryAttempts

(* Between passes a notifier remembers nothing. *)
NothingBetweenPasses ==
    \A n \in Notifiers : pc[n] # "pass" =>
        todo[n] = {} /\ \A d \in Deliveries : outcome[n][d] = "none"

(* What it is going to report as delivered has been sent. *)
ReportedIsSent ==
    \A n \in Notifiers : \A d \in Deliveries : outcome[n][d] = "ok" => sent[d] > 0

(* A row that is not yet there has failed no attempt. *)
NewHasAttempts ==
    \A d \in Deliveries : state[d] = "none" => attempts[d] < MaxDeliveryAttempts

Inv ==
    /\ TypeOK
    /\ ReadWithAttemptLeft
    /\ NothingBetweenPasses
    /\ ReportedIsSent
    /\ RowsTellTheTruth
    /\ PendingHasAttemptLeft
    /\ NewHasAttempts

USE DEF Settled

LEMMA InitInv == Init => Inv
  BY OutboxAssumption DEF Init, Inv, TypeOK, NoOutcome, ReadWithAttemptLeft,
     NothingBetweenPasses, ReportedIsSent, RowsTellTheTruth, PendingHasAttemptLeft, NewHasAttempts

LEMMA LeaveTypes ==
    ASSUME TypeOK, NEW n \in Notifiers, NEW label \in {"down", "idle"}, Leave(n, label)
    PROVE  /\ pc' = [m \in Notifiers |-> IF m = n THEN label ELSE pc[m]]
           /\ todo' = [m \in Notifiers |-> IF m = n THEN {} ELSE todo[m]]
           /\ seen' = [m \in Notifiers |-> IF m = n THEN [d \in Deliveries |-> 0] ELSE seen[m]]
           /\ outcome' = [m \in Notifiers |-> IF m = n THEN NoOutcome ELSE outcome[m]]
           /\ pc' \in [Notifiers -> {"down", "idle", "pass"}]
           /\ todo' \in [Notifiers -> SUBSET Deliveries]
           /\ seen' \in [Notifiers -> [Deliveries -> 0 .. MaxDeliveryAttempts]]
           /\ outcome' \in [Notifiers -> [Deliveries -> {"none", "ok", "error"}]]
  <1>1. /\ pc' = [m \in Notifiers |-> IF m = n THEN label ELSE pc[m]]
        /\ todo' = [m \in Notifiers |-> IF m = n THEN {} ELSE todo[m]]
        /\ seen' = [m \in Notifiers |-> IF m = n THEN [d \in Deliveries |-> 0] ELSE seen[m]]
        /\ outcome' = [m \in Notifiers |-> IF m = n THEN NoOutcome ELSE outcome[m]]
    BY DEF Leave, TypeOK
  <1>2. /\ [d \in Deliveries |-> 0] \in [Deliveries -> 0 .. MaxDeliveryAttempts]
        /\ NoOutcome \in [Deliveries -> {"none", "ok", "error"}]
    BY OutboxAssumption DEF NoOutcome
  <1>3. pc' \in [Notifiers -> {"down", "idle", "pass"}] /\ todo' \in [Notifiers -> SUBSET Deliveries]
    BY <1>1 DEF TypeOK
  <1>4. seen' \in [Notifiers -> [Deliveries -> 0 .. MaxDeliveryAttempts]]
    BY <1>1, <1>2 DEF TypeOK
  <1>5. outcome' \in [Notifiers -> [Deliveries -> {"none", "ok", "error"}]]
    BY <1>1, <1>2 DEF TypeOK
  <1> QED BY <1>1, <1>3, <1>4, <1>5

LEMMA StartPassInv ==
    ASSUME Inv, NEW n \in Notifiers, StartPass(n)
    PROVE  Inv'
  <1>1. /\ pc' = [pc EXCEPT ![n] = "pass"]
        /\ todo' = [m \in Notifiers |-> IF m = n THEN Due ELSE todo[m]]
        /\ seen' = [m \in Notifiers |-> IF m = n THEN attempts ELSE seen[m]]
        /\ UNCHANGED <<state, attempts, wait, notices, sent, outcome, crashes>>
        /\ pc[n] = "idle"
    BY DEF StartPass, Inv, TypeOK, rowVars
  <1>2. Due \subseteq Deliveries /\ \A d \in Due : attempts[d] < MaxDeliveryAttempts
    BY DEF Due, Inv, PendingHasAttemptLeft
  <1>3. TypeOK'
    BY <1>1, <1>2 DEF Inv, TypeOK
  <1>4. ReadWithAttemptLeft'
    BY <1>1, <1>2 DEF Inv, TypeOK, ReadWithAttemptLeft, NothingBetweenPasses
  <1>5. NothingBetweenPasses'
    BY <1>1 DEF Inv, TypeOK, NothingBetweenPasses
  <1>6. ReportedIsSent' /\ RowsTellTheTruth' /\ PendingHasAttemptLeft' /\ NewHasAttempts'
    BY <1>1 DEF Inv, ReportedIsSent, RowsTellTheTruth, PendingHasAttemptLeft, NewHasAttempts
  <1> QED BY <1>3, <1>4, <1>5, <1>6 DEF Inv

LEMMA SendInv ==
    ASSUME Inv, NEW n \in Notifiers, NEW d \in Deliveries,
           NEW result \in {"ok", "error"}, NEW reached \in BOOLEAN,
           Send(n, d, result, reached)
    PROVE  Inv'
  <1>1. /\ pc[n] = "pass" /\ d \in todo[n]
        /\ result = "ok" => reached
        /\ sent' = [e \in Deliveries |-> IF e = d /\ reached THEN sent[e] + 1 ELSE sent[e]]
        /\ outcome' = [m \in Notifiers |-> [e \in Deliveries |->
                          IF m = n /\ e = d THEN result ELSE outcome[m][e]]]
        /\ todo' = [m \in Notifiers |-> IF m = n THEN todo[m] \ {d} ELSE todo[m]]
        /\ UNCHANGED <<state, attempts, wait, notices, pc, seen, crashes>>
    <2>1. outcome' = [m \in Notifiers |-> [e \in Deliveries |->
                          IF m = n /\ e = d THEN result ELSE outcome[m][e]]]
      BY DEF Send, Inv, TypeOK
    <2>2. sent' = [e \in Deliveries |-> IF e = d /\ reached THEN sent[e] + 1 ELSE sent[e]]
      BY DEF Send, Inv, TypeOK
    <2> QED BY <2>1, <2>2 DEF Send, Inv, TypeOK, rowVars
  <1>2. TypeOK'
    BY <1>1 DEF Inv, TypeOK
  <1>3. ReadWithAttemptLeft'
    BY <1>1 DEF Inv, TypeOK, ReadWithAttemptLeft
  <1>4. NothingBetweenPasses'
    BY <1>1 DEF Inv, TypeOK, NothingBetweenPasses
  <1>5. \A e \in Deliveries : sent[e] \in Nat /\ sent'[e] \in Nat /\ sent'[e] >= sent[e]
    BY <1>1 DEF Inv, TypeOK
  <1>6. result = "ok" => sent'[d] > 0
    BY <1>1 DEF Inv, TypeOK
  <1>7. ReportedIsSent'
    BY <1>1, <1>5, <1>6 DEF Inv, TypeOK, ReportedIsSent
  <1>8. RowsTellTheTruth' /\ PendingHasAttemptLeft' /\ NewHasAttempts'
    BY <1>1, <1>5 DEF Inv, RowsTellTheTruth, PendingHasAttemptLeft, NewHasAttempts
  <1> QED BY <1>2, <1>3, <1>4, <1>7, <1>8 DEF Inv

LEMMA CommitInv ==
    ASSUME Inv, NEW n \in Notifiers, Commit(n)
    PROVE  Inv' /\ \A d \in Deliveries : state[d] \in Settled => state'[d] \in Settled
  <1> USE OutboxAssumption
  <1>1. Leave(n, "idle") /\ UNCHANGED <<sent, crashes>>
    BY DEF Commit
  <1>2. \A d \in Deliveries :
           /\ Failed(n, d) => /\ seen[n][d] \in 0 .. MaxDeliveryAttempts - 1
                              /\ attempts'[d] = seen[n][d] + 1
           /\ ~Failed(n, d) => attempts'[d] = attempts[d]
    <2>1. \A d \in Deliveries :
             /\ Failed(n, d) => attempts'[d] = seen[n][d] + 1
             /\ ~Failed(n, d) => attempts'[d] = attempts[d]
      BY DEF Commit
    <2>2. \A d \in Deliveries : seen[n][d] \in 0 .. MaxDeliveryAttempts
      BY DEF Inv, TypeOK
    <2>3. \A d \in Deliveries : Failed(n, d) => seen[n][d] < MaxDeliveryAttempts
      BY DEF Inv, ReadWithAttemptLeft, Failed
    <2> QED BY <2>1, <2>2, <2>3
  <1>3. \A d \in Deliveries :
           \/ outcome[n][d] = "ok" /\ ~Failed(n, d) /\ state'[d] = "delivered" /\ notices'[d] = notices[d]
           \/ /\ Failed(n, d) /\ attempts'[d] = MaxDeliveryAttempts
              /\ state'[d] = "failed" /\ notices'[d] = notices[d] + 1
           \/ /\ Failed(n, d) /\ attempts'[d] < MaxDeliveryAttempts
              /\ state'[d] = state[d] /\ notices'[d] = notices[d]
           \/ outcome[n][d] = "none" /\ ~Failed(n, d) /\ state'[d] = state[d] /\ notices'[d] = notices[d]
    <2> SUFFICES ASSUME NEW d \in Deliveries
                 PROVE  \/ outcome[n][d] = "ok" /\ ~Failed(n, d) /\ state'[d] = "delivered" /\ notices'[d] = notices[d]
                        \/ /\ Failed(n, d) /\ attempts'[d] = MaxDeliveryAttempts
                           /\ state'[d] = "failed" /\ notices'[d] = notices[d] + 1
                        \/ /\ Failed(n, d) /\ attempts'[d] < MaxDeliveryAttempts
                           /\ state'[d] = state[d] /\ notices'[d] = notices[d]
                        \/ outcome[n][d] = "none" /\ ~Failed(n, d) /\ state'[d] = state[d] /\ notices'[d] = notices[d]
      OBVIOUS
    <2>1. outcome[n][d] \in {"none", "ok", "error"}
      BY DEF Inv, TypeOK
    <2>2. CASE outcome[n][d] = "error"
      BY <2>2, <1>2 DEF Commit, Failed, Exhausted
    <2>3. CASE outcome[n][d] # "error"
      BY <2>3, <2>1 DEF Commit, Failed, Exhausted
    <2> QED BY <2>2, <2>3
  <1>4. TypeOK'
    <2>1. /\ pc' \in [Notifiers -> {"down", "idle", "pass"}]
          /\ todo' \in [Notifiers -> SUBSET Deliveries]
          /\ seen' \in [Notifiers -> [Deliveries -> 0 .. MaxDeliveryAttempts]]
          /\ outcome' \in [Notifiers -> [Deliveries -> {"none", "ok", "error"}]]
      BY <1>1, LeaveTypes DEF Inv
    <2>2. attempts' \in [Deliveries -> 0 .. MaxDeliveryAttempts]
      BY <1>2 DEF Commit, Inv, TypeOK
    <2>3. state' \in [Deliveries -> {"none", "pending"} \cup Settled]
      BY <1>3 DEF Commit, Inv, TypeOK
    <2>4. notices' \in [Deliveries -> Nat]
      BY <1>3 DEF Commit, Inv, TypeOK
    <2>5. \A d \in Deliveries : Failed(n, d) => RetryDelay(seen[n][d] + 1) \in Nat
      BY <1>2
    <2>6. wait' \in [Deliveries -> Nat]
      BY <2>5 DEF Commit, Inv, TypeOK
    <2> QED BY <1>1, <2>1, <2>2, <2>3, <2>4, <2>6 DEF Inv, TypeOK
  <1>5. /\ todo' = [m \in Notifiers |-> IF m = n THEN {} ELSE todo[m]]
        /\ seen' = [m \in Notifiers |-> IF m = n THEN [d \in Deliveries |-> 0] ELSE seen[m]]
        /\ outcome' = [m \in Notifiers |-> IF m = n THEN NoOutcome ELSE outcome[m]]
        /\ pc' = [m \in Notifiers |-> IF m = n THEN "idle" ELSE pc[m]]
    BY <1>1, LeaveTypes DEF Inv
  <1>6. ReadWithAttemptLeft' /\ NothingBetweenPasses' /\ ReportedIsSent'
    BY <1>1, <1>5 DEF Inv, ReadWithAttemptLeft, NothingBetweenPasses, ReportedIsSent, NoOutcome
  <1>7. RowsTellTheTruth'
    <2> SUFFICES ASSUME NEW d \in Deliveries
                 PROVE  /\ state'[d] = "delivered" => sent'[d] > 0
                        /\ state'[d] = "failed" => notices'[d] > 0
      BY DEF RowsTellTheTruth
    <2>1. notices[d] \in Nat
      BY DEF Inv, TypeOK
    <2>2. /\ state[d] = "delivered" => sent[d] > 0
          /\ state[d] = "failed" => notices[d] > 0
          /\ outcome[n][d] = "ok" => sent[d] > 0
      BY DEF Inv, RowsTellTheTruth, ReportedIsSent
    <2> QED BY <1>1, <1>3, <2>1, <2>2
  <1>8. PendingHasAttemptLeft'
    <2> SUFFICES ASSUME NEW d \in Deliveries, state'[d] = "pending"
                 PROVE  attempts'[d] < MaxDeliveryAttempts
      BY DEF PendingHasAttemptLeft
    <2>1. state[d] = "pending" => attempts[d] < MaxDeliveryAttempts
      BY DEF Inv, PendingHasAttemptLeft
    <2> QED BY <1>2, <1>3, <2>1
  <1>9. NewHasAttempts'
    <2> SUFFICES ASSUME NEW d \in Deliveries, state'[d] = "none"
                 PROVE  attempts'[d] < MaxDeliveryAttempts
      BY DEF NewHasAttempts
    <2>1. state[d] = "none" => attempts[d] < MaxDeliveryAttempts
      BY DEF Inv, NewHasAttempts
    <2> QED BY <1>2, <1>3, <2>1
  <1>10. \A d \in Deliveries : state[d] \in Settled => state'[d] \in Settled
    BY <1>3
  <1> QED BY <1>4, <1>6, <1>7, <1>8, <1>9, <1>10 DEF Inv

LEMMA CrashInv ==
    ASSUME Inv, NEW n \in Notifiers, Crash(n)
    PROVE  Inv'
  <1>1. /\ Leave(n, "down")
        /\ crashes' = crashes + 1 /\ crashes < MaxCrashes
        /\ UNCHANGED <<state, attempts, wait, notices, sent>>
    BY DEF Crash, rowVars
  <1>2. /\ todo' = [m \in Notifiers |-> IF m = n THEN {} ELSE todo[m]]
        /\ seen' = [m \in Notifiers |-> IF m = n THEN [d \in Deliveries |-> 0] ELSE seen[m]]
        /\ outcome' = [m \in Notifiers |-> IF m = n THEN NoOutcome ELSE outcome[m]]
        /\ pc' = [m \in Notifiers |-> IF m = n THEN "down" ELSE pc[m]]
        /\ pc' \in [Notifiers -> {"down", "idle", "pass"}]
        /\ todo' \in [Notifiers -> SUBSET Deliveries]
        /\ seen' \in [Notifiers -> [Deliveries -> 0 .. MaxDeliveryAttempts]]
        /\ outcome' \in [Notifiers -> [Deliveries -> {"none", "ok", "error"}]]
    BY <1>1, LeaveTypes DEF Inv
  <1>3. TypeOK'
    BY <1>1, <1>2, OutboxAssumption DEF Inv, TypeOK
  <1>4. ReadWithAttemptLeft' /\ NothingBetweenPasses' /\ ReportedIsSent'
    BY <1>1, <1>2 DEF Inv, ReadWithAttemptLeft, NothingBetweenPasses, ReportedIsSent, NoOutcome
  <1>5. RowsTellTheTruth' /\ PendingHasAttemptLeft' /\ NewHasAttempts'
    BY <1>1 DEF Inv, RowsTellTheTruth, PendingHasAttemptLeft, NewHasAttempts
  <1> QED BY <1>3, <1>4, <1>5 DEF Inv

LEMMA NextInv ==
    Inv /\ [Next]_vars =>
        Inv' /\ \A d \in Deliveries : state[d] \in Settled => state'[d] \in Settled
  <1> DEFINE Stays == \A d \in Deliveries : state[d] \in Settled => state'[d] \in Settled
  <1> SUFFICES ASSUME Inv, [Next]_vars PROVE Inv' /\ Stays
    OBVIOUS
  <1>1. ASSUME NEW d \in Deliveries, Insert(d) PROVE Inv' /\ Stays
    <2>1. /\ state[d] = "none"
          /\ state' = [e \in Deliveries |-> IF e = d THEN "pending" ELSE state[e]]
          /\ UNCHANGED <<attempts, wait, sent, notices, pc, todo, seen, outcome, crashes>>
      BY <1>1 DEF Insert, Inv, TypeOK, passVars
    <2>2. attempts[d] < MaxDeliveryAttempts
      BY <2>1 DEF Inv, NewHasAttempts
    <2> QED BY <2>1, <2>2 DEF Inv, TypeOK, ReadWithAttemptLeft, NothingBetweenPasses,
            ReportedIsSent, RowsTellTheTruth, PendingHasAttemptLeft, NewHasAttempts
  <1>2. CASE Tick
    <2>1. /\ wait' = [d \in Deliveries |-> IF wait[d] > 0 THEN wait[d] - 1 ELSE 0]
          /\ UNCHANGED <<state, attempts, sent, notices, pc, todo, seen, outcome, crashes>>
      BY <1>2 DEF Tick, passVars
    <2>2. wait' \in [Deliveries -> Nat]
      BY <2>1 DEF Inv, TypeOK
    <2> QED BY <2>1, <2>2 DEF Inv, TypeOK, ReadWithAttemptLeft, NothingBetweenPasses,
            ReportedIsSent, RowsTellTheTruth, PendingHasAttemptLeft, NewHasAttempts
  <1>3. ASSUME NEW n \in Notifiers, StartPass(n) PROVE Inv' /\ Stays
    BY <1>3, StartPassInv DEF StartPass, rowVars
  <1>4. ASSUME NEW n \in Notifiers, Continue(n) PROVE Inv' /\ Stays
    <2>1. ASSUME NEW d \in Deliveries, NEW result \in {"ok", "error"}, NEW reached \in BOOLEAN,
                 Send(n, d, result, reached)
          PROVE  Inv' /\ Stays
      BY <2>1, SendInv DEF Send, rowVars
    <2>2. CASE Commit(n)
      BY <2>2, CommitInv
    <2> QED BY <1>4, <2>1, <2>2 DEF Continue
  <1>5. ASSUME NEW n \in Notifiers, Crash(n) PROVE Inv' /\ Stays
    BY <1>5, CrashInv DEF Crash, rowVars
  <1>6. ASSUME NEW n \in Notifiers, Restart(n) PROVE Inv' /\ Stays
    <2>1. /\ pc[n] = "down"
          /\ pc' = [m \in Notifiers |-> IF m = n THEN "idle" ELSE pc[m]]
          /\ UNCHANGED <<state, attempts, wait, notices, sent, todo, seen, outcome, crashes>>
      BY <1>6 DEF Restart, Inv, TypeOK, rowVars
    <2> QED BY <2>1 DEF Inv, TypeOK, ReadWithAttemptLeft, NothingBetweenPasses,
            ReportedIsSent, RowsTellTheTruth, PendingHasAttemptLeft, NewHasAttempts
  <1>7. CASE UNCHANGED vars
    BY <1>7 DEF vars, rowVars, passVars, Inv, TypeOK, ReadWithAttemptLeft, NothingBetweenPasses,
       ReportedIsSent, RowsTellTheTruth, PendingHasAttemptLeft, NewHasAttempts
  <1> QED BY <1>1, <1>2, <1>3, <1>4, <1>5, <1>6, <1>7 DEF Next

-----------------------------------------------------------------------------
LEMMA InvHolds == Spec => []Inv
  <1>1. Inv /\ [Next]_vars => Inv'
    BY NextInv
  <1> QED BY InitInv, <1>1, PTL DEF Spec

(* TypeOK: the columns of the rows and what a pass remembers stay in range; *)
(* .attempts in particular never exceeds MAX_DELIVERY_ATTEMPTS.             *)
THEOREM OutboxTypes == Spec => []TypeOK
  <1>1. Inv => TypeOK
    BY DEF Inv
  <1> QED BY InvHolds, <1>1, PTL

(* RowsTellTheTruth: a delivered row was sent and a failed one has left its *)
(* notice, whatever crashes and overlaps of passes lie between.             *)
THEOREM RowsAreTrue == Spec => []RowsTellTheTruth
  <1>1. Inv => RowsTellTheTruth
    BY DEF Inv
  <1> QED BY InvHolds, <1>1, PTL

(* PendingHasAttemptLeft: no row waits that deliver_pending would have to   *)
(* give up already.                                                        *)
THEOREM NoRowOverdrawn == Spec => []PendingHasAttemptLeft
  <1>1. Inv => PendingHasAttemptLeft
    BY DEF Inv
  <1> QED BY InvHolds, <1>1, PTL

(* SettledStaysSettled: a stale pass never puts a settled row back.         *)
THEOREM SettlingIsFinal == Spec => SettledStaysSettled
  <1>1. Inv /\ [Next]_vars =>
          [\A d \in Deliveries : state[d] \in Settled => state'[d] \in Settled]_vars
    BY NextInv
  <1> QED BY InvHolds, <1>1, PTL DEF Spec, SettledStaysSettled

-----------------------------------------------------------------------------
(* A single notifier: nobody changes a row between its reading and its       *)
(* commit, so each copy is paid for by an attempt, by a crash or by the      *)
(* outcome that is still to be committed.                                   *)
RowsOfPassUnchanged ==
    \A n \in Notifiers : \A d \in Deliveries :
        d \in todo[n] \/ outcome[n][d] # "none" =>
            state[d] = "pending" /\ seen[n][d] = attempts[d]

OnceAPass ==
    \A n \in Notifiers : \A d \in todo[n] : outcome[n][d] = "none"

DeliveredHasAttemptLeft ==
    \A d \in Deliveries : state[d] = "delivered" => attempts[d] < MaxDeliveryAttempts

Paid(d) == \/ sent[d] <= attempts[d] + crashes
           \/ /\ sent[d] <= attempts[d] + crashes + 1
              /\ state[d] = "delivered" \/ \E n \in Notifiers : outcome[n][d] # "none"

CopyInv ==
    /\ Inv
    /\ RowsOfPassUnchanged
    /\ OnceAPass
    /\ DeliveredHasAttemptLeft
    /\ \A d \in Deliveries : Paid(d)

LEMMA InitCopies == Init => CopyInv
  BY InitInv DEF Init, CopyInv, NoOutcome, RowsOfPassUnchanged, OnceAPass,
     DeliveredHasAttemptLeft, Paid

LEMMA SendCopies ==
    ASSUME CopyInv, NEW n, Notifiers = {n}, NEW d \in Deliveries,
           NEW result \in {"ok", "error"}, NEW reached \in BOOLEAN,
           Send(n, d, result, reached)
    PROVE  CopyInv'
  <1>1. /\ d \in todo[n]
        /\ sent' = [e \in Deliveries |-> IF e = d /\ reached THEN sent[e] + 1 ELSE sent[e]]
        /\ outcome' = [m \in Notifiers |-> [e \in Deliveries |->
                          IF m = n /\ e = d THEN result ELSE outcome[m][e]]]
        /\ todo' = [m \in Notifiers |-> IF m = n THEN todo[m] \ {d} ELSE todo[m]]
        /\ UNCHANGED <<state, attempts, seen, crashes>>
    <2>1. outcome' = [m \in Notifiers |-> [e \in Deliveries |->
                          IF m = n /\ e = d THEN result ELSE outcome[m][e]]]
      BY DEF Send, CopyInv, Inv, TypeOK
    <2> QED BY <2>1 DEF Send, CopyInv, Inv, TypeOK, rowVars
  <1>2. Inv'
    BY SendInv DEF CopyInv
  <1>3. RowsOfPassUnchanged' /\ OnceAPass' /\ DeliveredHasAttemptLeft'
    BY <1>1 DEF CopyInv, Inv, TypeOK, RowsOfPassUnchanged, OnceAPass, DeliveredHasAttemptLeft
  <1>4. ASSUME NEW e \in Deliveries PROVE Paid(e)'
    <2>1. sent[e] \in Nat /\ attempts[e] \in Nat /\ crashes \in Nat
      BY OutboxAssumption DEF CopyInv, Inv, TypeOK
    <2>2. Paid(e)
      BY DEF CopyInv
    <2>3. CASE e = d
      <3>1. outcome[n][d] = "none" /\ state[d] = "pending"
        BY <1>1 DEF CopyInv, OnceAPass, RowsOfPassUnchanged
      <3>2. sent[d] <= attempts[d] + crashes
        BY <2>2, <2>3, <3>1 DEF Paid
      <3>3. outcome'[n][d] # "none"
        BY <1>1
      <3> QED BY <1>1, <2>1, <2>3, <3>2, <3>3 DEF Paid
    <2>4. CASE e # d
      <3>1. \A m \in Notifiers : outcome'[m][e] = outcome[m][e]
        BY <1>1, <2>4
      <3> QED BY <1>1, <2>2, <2>4, <3>1 DEF Paid
    <2> QED BY <2>3, <2>4
  <1> QED BY <1>2, <1>3, <1>4 DEF CopyInv

LEMMA CommitCopies ==
    ASSUME CopyInv, NEW n, Notifiers = {n}, Commit(n)
    PROVE  CopyInv'
  <1>1. Inv'
    BY CommitInv DEF CopyInv
  <1>2. Leave(n, "idle") /\ UNCHANGED <<sent, crashes>>
    BY DEF Commit
  <1>3. \A m \in Notifiers : todo'[m] = {} /\ \A d \in Deliveries : outcome'[m][d] = "none"
    BY <1>2, LeaveTypes DEF CopyInv, Inv, NoOutcome
  <1>4. RowsOfPassUnchanged' /\ OnceAPass'
    BY <1>3 DEF RowsOfPassUnchanged, OnceAPass
  <1>5. ASSUME NEW d \in Deliveries
        PROVE  /\ state'[d] = "delivered" => attempts'[d] < MaxDeliveryAttempts
               /\ Paid(d)'
    <2>1. /\ sent[d] \in Nat /\ attempts[d] \in Nat /\ crashes \in Nat
          /\ outcome[n][d] \in {"none", "ok", "error"}
      BY OutboxAssumption DEF CopyInv, Inv, TypeOK
    <2>2. Paid(d) /\ (state[d] = "delivered" => attempts[d] < MaxDeliveryAttempts)
      BY DEF CopyInv, DeliveredHasAttemptLeft
    <2>3. outcome[n][d] # "none" => /\ state[d] = "pending" /\ seen[n][d] = attempts[d]
                                    /\ attempts[d] < MaxDeliveryAttempts
      BY DEF CopyInv, Inv, RowsOfPassUnchanged, PendingHasAttemptLeft
    <2>4. CASE outcome[n][d] = "none"
      <3>1. state'[d] = state[d] /\ attempts'[d] = attempts[d]
        BY <2>4 DEF Commit, Failed, Exhausted
      <3> QED BY <1>2, <2>2, <2>4, <3>1 DEF Paid
    <2>5. CASE outcome[n][d] = "ok"
      <3>1. state'[d] = "delivered" /\ attempts'[d] = attempts[d]
        BY <2>5 DEF Commit, Failed, Exhausted
      <3> QED BY <1>2, <2>1, <2>2, <2>3, <2>5, <3>1 DEF Paid
    <2>6. CASE outcome[n][d] = "error"
      <3>1. state'[d] # "delivered" /\ attempts'[d] = attempts[d] + 1
        BY <2>3, <2>6 DEF Commit, Failed, Exhausted
      <3> QED BY <1>2, <2>1, <2>2, <3>1 DEF Paid
    <2> QED BY <2>1, <2>4, <2>5, <2>6
  <1>6. DeliveredHasAttemptLeft'
    BY <1>5 DEF DeliveredHasAttemptLeft
  <1> QED BY <1>1, <1>4, <1>5, <1>6 DEF CopyInv

LEMMA CrashCopies ==
    ASSUME CopyInv, NEW n, Notifiers = {n}, Crash(n)
    PROVE  CopyInv'
  <1>1. Inv'
    BY CrashInv DEF CopyInv
  <1>2. Leave(n, "down") /\ crashes' = crashes + 1 /\ UNCHANGED <<state, attempts, sent>>
    BY DEF Crash, rowVars
  <1>3. \A m \in Notifiers : todo'[m] = {} /\ \A d \in Deliveries : outcome'[m][d] = "none"
    BY <1>2, LeaveTypes DEF CopyInv, Inv, NoOutcome
  <1>4. RowsOfPassUnchanged' /\ OnceAPass' /\ DeliveredHasAttemptLeft'
    BY <1>2, <1>3 DEF CopyInv, RowsOfPassUnchanged, OnceAPass, DeliveredHasAttemptLeft
  <1>5. ASSUME NEW d \in Deliveries PROVE Paid(d)'
    <2>1. sent[d] \in Nat /\ attempts[d] \in Nat /\ crashes \in Nat
      BY OutboxAssumption DEF CopyInv, Inv, TypeOK
    <2> QED BY <1>2, <2>1 DEF CopyInv, Paid
  <1> QED BY <1>1, <1>4, <1>5 DEF CopyInv

LEMMA NextCopies ==
    ASSUME NEW n, Notifiers = {n}
    PROVE  CopyInv /\ [Next]_vars => CopyInv'
  <1> SUFFICES ASSUME CopyInv, [Next]_vars PROVE CopyInv'
    OBVIOUS
  <1>1. Inv'
    BY NextInv DEF CopyInv
  <1> USE DEF RowsOfPassUnchanged, OnceAPass, DeliveredHasAttemptLeft, Paid
  <1>2. ASSUME NEW d \in Deliveries, Insert(d) PROVE CopyInv'
    <2>1. /\ state[d] = "none"
          /\ state' = [e \in Deliveries |-> IF e = d THEN "pending" ELSE state[e]]
          /\ UNCHANGED <<attempts, sent, todo, seen, outcome, crashes>>
      BY <1>2 DEF Insert, CopyInv, Inv, TypeOK, passVars
    <2> QED BY <1>1, <2>1 DEF CopyInv
  <1>3. CASE Tick
    BY <1>1, <1>3 DEF Tick, CopyInv, passVars
  <1>4. CASE StartPass(n)
    <2>1. /\ pc[n] = "idle"
          /\ todo' = [m \in Notifiers |-> IF m = n THEN Due ELSE todo[m]]
          /\ seen' = [m \in Notifiers |-> IF m = n THEN attempts ELSE seen[m]]
          /\ UNCHANGED <<state, attempts, sent, outcome, crashes>>
      BY <1>4 DEF StartPass, CopyInv, Inv, TypeOK, rowVars
    <2>2. \A d \in Deliveries : outcome[n][d] = "none"
      BY <2>1 DEF CopyInv, Inv, NothingBetweenPasses
    <2>3. \A d \in Due : d \in Deliveries /\ state[d] = "pending"
      BY DEF Due
    <2> QED BY <1>1, <2>1, <2>2, <2>3 DEF CopyInv
  <1>5. CASE Continue(n)
    BY <1>5, SendCopies, CommitCopies DEF Continue
  <1>6. CASE Crash(n)
    BY <1>6, CrashCopies
  <1>7. CASE Restart(n)
    BY <1>1, <1>7 DEF Restart, CopyInv, rowVars
  <1>8. CASE UNCHANGED vars
    BY <1>1, <1>8 DEF vars, rowVars, passVars, CopyInv
  <1> QED BY <1>2, <1>3, <1>4, <1>5, <1>6, <1>7, <1>8 DEF Next

(* CopiesBounded: the one notifier that is deployed gives a result to the    *)
(* channel at most MAX_DELIVERY_ATTEMPTS times and once more for each time   *)
(* it died between sending and the commit at the end of the pass.           *)
THEOREM CopiesAreBounded ==
    ASSUME NEW n, Notifiers = {n}
    PROVE  Spec => []CopiesBounded
  <1>1. CopyInv => CopiesBounded
    <2> SUFFICES ASSUME CopyInv, NEW d \in Deliveries
                 PROVE  sent[d] <= MaxDeliveryAttempts + crashes
      BY DEF CopiesBounded
    <2>1. /\ sent[d] \in Nat /\ attempts[d] \in 0 .. MaxDeliveryAttempts
          /\ crashes \in Nat /\ MaxDeliveryAttempts \in Nat
      BY OutboxAssumption DEF CopyInv, Inv, TypeOK
    <2>2. Paid(d)
      BY DEF CopyInv
    <2>3. state[d] = "delivered" \/ (\E m \in Notifiers : outcome[m][d] # "none")
             => attempts[d] < MaxDeliveryAttempts
      BY DEF CopyInv, Inv, RowsOfPassUnchanged, DeliveredHasAttemptLeft, PendingHasAttemptLeft
    <2> QED BY <2>1, <2>2, <2>3 DEF Paid
  <1>2. CopyInv /\ [Next]_vars => CopyInv'
    BY NextCopies
  <1> QED BY <1>1, <1>2, InitCopies, PTL DEF Spec
=============================================================================
