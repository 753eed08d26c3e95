----------------------------- MODULE VerdictLog -----------------------------
(***************************************************************************)
(* What the delivery of releases promises, without a lock, a file, call    *)
(* backs or crashes: a release is taken once, one at a time; it gets one   *)
(* verdict, or none if its deployment is cut off; the verdict is "success" *)
(* if and only if it passed its check; the release to fall back to is the  *)
(* last one that passed; and only verdicts are told, only successes shown. *)
(***************************************************************************)
CONSTANTS Releases, Verdicts,
          Success,     \* the verdict of a release that passed
          None

VARIABLES asked,       \* releases somebody asked to deploy
          taken,       \* those whose deployment began
          working,     \* the one being deployed
          passed,      \* those that passed the check
          baseline,    \* the one to fall back to
          decided,     \* verdicts
          told,        \* verdicts that were recorded
          shown,       \* releases that were shown
          site         \* the last of them

logVars == <<asked, taken, working, passed, baseline, decided, told, shown, site>>

Init ==
    /\ asked = {} /\ taken = {} /\ passed = {} /\ shown = {}
    /\ decided = {} /\ told = {}
    /\ working = None /\ baseline = None /\ site = None

Ask(r) ==
    /\ r \notin asked
    /\ asked' = asked \union {r}
    /\ UNCHANGED <<taken, working, passed, baseline, decided, told, shown, site>>

Take(r) ==
    /\ r \in asked \ taken /\ working = None
    /\ taken' = taken \union {r} /\ working' = r
    /\ UNCHANGED <<asked, passed, baseline, decided, told, shown, site>>

Pass ==
    /\ working # None /\ working \notin passed
    /\ passed' = passed \union {working} /\ baseline' = working
    /\ UNCHANGED <<asked, taken, working, decided, told, shown, site>>

Decide(v) ==
    /\ working # None /\ \A e \in decided : e.release # working
    /\ v = Success <=> working \in passed
    /\ decided' = decided \union {[release |-> working, status |-> v]}
    /\ working' = None
    /\ UNCHANGED <<asked, taken, passed, baseline, told, shown, site>>

(* The deployment is cut off. *)
Abandon ==
    /\ working # None
    /\ working' = None
    /\ UNCHANGED <<asked, taken, passed, baseline, decided, told, shown, site>>

Tell(e) ==
    /\ e \in decided
    /\ told' = told \union {e}
    /\ UNCHANGED <<asked, taken, working, passed, baseline, decided, shown, site>>

(* A success that is told is shown as well, once. *)
Show(e) ==
    /\ e \in decided /\ e.status = Success /\ e.release \notin shown
    /\ told' = told \union {e}
    /\ shown' = shown \union {e.release} /\ site' = e.release
    /\ UNCHANGED <<asked, taken, working, passed, baseline, decided>>

Next ==
    \/ \E r \in Releases : Ask(r) \/ Take(r)
    \/ Pass \/ Abandon
    \/ \E v \in Verdicts : Decide(v)
    \/ \E e \in decided : Tell(e) \/ Show(e)

Spec == Init /\ [][Next]_logVars
=============================================================================
